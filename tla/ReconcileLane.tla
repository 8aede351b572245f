--------------------------- MODULE ReconcileLane ----------------------------
(***************************************************************************)
(* What the proofs about Reconcile share: the layout, the plan, the diff;  *)
(* its steps keep the types of the variables; the transaction that the     *)
(* daemon has in flight and the jobs and completions of the nftables lane  *)
(* correspond (type correctness follows); and what the daemon knows of the *)
(* kernel's table is so.                                                   *)
(***************************************************************************)
EXTENDS Reconcile, SequenceTheorems, TLAPS

\* Leaves that name no prover are for Zenon.
USE ZenonT(60)

-----------------------------------------------------------------------------
(* Layout. *)

LEMMA Constants ==
    /\ Uplinks \subseteq 1..63
    /\ \A c \in Configs : c \subseteq Assignments
    /\ \A s \in SUBSET Assignments : s # None
    /\ "out" \in Healths
  BY ConstantsAssumption DEF ConstantsAssumption

\* The path tables are apart from the tables that carry new connections.
LEMMA TablesApart ==
    /\ PathTables \cap MarkedTables = {}
    /\ Tables = PathTables \cup MarkedTables
    /\ Tables \subseteq Nat
  <1>1. PathTables \subseteq 1..63
    BY Constants DEF PathTables, path_table
  <1>2. \A t \in MarkedTables : t \in Nat /\ t \notin 1..63
    BY Constants, SMTT(60) DEF MarkedTables, PolicyTables, balancing_table,
                     policy_balance_table, policy_block_table
  <1>3. PathTables \cap MarkedTables = {}
    BY <1>1, <1>2
  <1>4. Tables = PathTables \cup MarkedTables
    BY DEF Tables, MarkedTables
  <1>5. \A t \in Tables : t \in Nat
    BY <1>1, <1>2, <1>4, SMTT(60)
  <1> QED
    BY <1>3, <1>4, <1>5

LEMMA RulesAreNumbers == Rules \subseteq Nat
  BY Constants, SMTT(60) DEF Rules, ClassGuards, ProbeGuard, PathGuard, PolicyBlockGuard,
         MainBypass, Balance, FinalGuard, LookupsOf, ProbeLookup, PathLookup,
         PolicyBalanceLookup, PolicyBlockLookup

-----------------------------------------------------------------------------
(* The plan. *)

LEMMA PlannedRoutesType ==
    ASSUME NEW c \in Configs, NEW i
    PROVE  /\ PlannedRoutes(c, i) \in Routes
           /\ \A t \in Tables : PlannedRoutes(c, i)[t] \subseteq c
  <1>1. \A P : Hops(c, P) \subseteq c
    BY DEF Hops
  <1>2. \A t \in Tables : PlannedRoutes(c, i)[t] \subseteq c
    BY <1>1 DEF PlannedRoutes
  <1> QED
    BY <1>2, Constants DEF PlannedRoutes, Routes

LEMMA PlannedRulesType ==
    ASSUME NEW c \in Configs
    PROVE  /\ PlannedRules(c) \subseteq Rules
           /\ \A a \in c : PathLookup(a[1]) \in PlannedRules(c)
           /\ c # {} => ClassGuards \subseteq PlannedRules(c)
  <1>1. \A a \in c : a[1] \in Uplinks
    BY Constants DEF Assignments
  <1>2. Paths(c) \subseteq Uplinks
    BY <1>1 DEF Paths
  <1> QED
    BY <1>1, <1>2, SMTT(60) DEF PlannedRules, Rules, Paths, LookupsOf

\* Without the unassigned paths, the routes that carry new connections only
\* use the assignments that are counted on (plan.rs, without).
LEMMA BeforeIsCounted ==
    ASSUME NEW c \in Configs, NEW i \in Inputs(c), NEW S,
           NEW t \in MarkedTables,
           NEW a \in PlannedRoutes(c, without(i, unassigned(c, S)))[t]
    PROVE  a \in c /\ (S # None => a \in S)
  <1> DEFINE new == unassigned(c, S)
             j   == without(i, new)
  <1>1. t \in Tables /\ t \notin PathTables
    BY TablesApart
  <1>2. a \in c /\ a[1] \in DOMAIN j /\ j[a[1]] \in {"standby", "active", "fallback"}
    BY <1>1 DEF PlannedRoutes, Hops, activeSet, usable
  <1>3. a[1] \notin new
    BY <1>2 DEF without
  <1> QED
    BY <1>2, <1>3 DEF unassigned, Paths

LEMMA NothingNew ==
    ASSUME NEW c \in Configs, NEW i \in Inputs(c)
    PROVE  without(i, unassigned(c, c)) = i
  <1>1. unassigned(c, c) = {}
    BY DEF unassigned, Paths
  <1> QED
    BY <1>1 DEF without, Inputs

-----------------------------------------------------------------------------
(* The diff. *)

LEMMA DiffType ==
    ASSUME NEW before \in Routes, NEW desired \in Routes, NEW want \in SUBSET Rules,
           NEW pending \in BOOLEAN, NEW seen \in Routes, NEW have \in SUBSET Rules
    PROVE  diff(before, desired, want, pending, seen, have) \in Ops
  <1> DEFINE d == diff(before, desired, want, pending, seen, have)
  <1>1. Tables \subseteq Nat /\ PathTables \subseteq Nat /\ Rules \subseteq Nat
    BY TablesApart, RulesAreNumbers
  <1>2. d[1] \subseteq Tables /\ d[2] \subseteq Tables
    BY SMTT(60) DEF diff, Phases
  <1>3. d[3] \subseteq PathTables /\ d[8] \subseteq PathTables
    BY SMTT(60) DEF diff, Phases
  <1>4. d[4] \subseteq Rules /\ d[7] \subseteq Rules
    BY SMTT(60) DEF diff, Phases
  <1>5. d[5] \subseteq Nat
    BY SMTT(60) DEF diff, Phases, NftTable
  <1>6. d[6] \subseteq Tables
    BY SMTT(60) DEF diff, Phases
  <1>7. \A n \in Phases : d[n] \subseteq Nat
    <2> SUFFICES ASSUME NEW n \in Phases PROVE d[n] \subseteq Nat
      OBVIOUS
    <2>1. n \in {1, 2, 3, 4, 5, 6, 7, 8}
      BY SMTT(60) DEF Phases
    <2> HIDE DEF d
    <2> QED
      BY <1>1, <1>2, <1>3, <1>4, <1>5, <1>6, <2>1
  <1> QED
    BY <1>7 DEF Ops, diff

LEMMA UpToNftType ==
    ASSUME NEW o \in Ops
    PROVE  /\ UpToNft(o) \in Ops
           /\ \A n \in 1..4 : UpToNft(o)[n] = o[n]
           /\ \A n \in 5..8 : UpToNft(o)[n] = IF o[5] = {} THEN o[n] ELSE {}
  BY SMTT(60) DEF UpToNft, Ops, Phases

-----------------------------------------------------------------------------
(* Type correctness, and the lane. *)

\* At most one transaction is with the lane, waiting or reported, and it is
\* the one that the daemon has in flight.
LaneInv ==
    /\ \A i \in 1..Len(lane) : lane[i].job = "apply" =>
         /\ flight # None /\ lane[i].assigns = flight.assigns
         /\ \A j \in 1..Len(lane) : lane[j].job = "apply" => j = i
         /\ \A j \in 1..Len(done) : done[j].job # "apply"
    /\ \A i \in 1..Len(done) : done[i].job = "apply" =>
         /\ flight # None
         /\ \A j \in 1..Len(done) : done[j].job = "apply" => j = i

Typed == /\ TypeOK
         /\ LaneInv
         /\ pass # None =>
              /\ pass.ops[4] \subseteq Rules
              /\ flight # None => pass.ops[5] = {}

-----------------------------------------------------------------------------
(* Type correctness. *)

LEMMA InitTyped == Init => Typed
  <1> SUFFICES ASSUME Init PROVE Typed
    OBVIOUS
  <1>1. routes \in Routes
    BY DEF Init, Routes
  <1>2. lane \in Seq(Jobs) /\ done \in Seq(Completions)
    BY SMTT(60) DEF Init
  <1>3. LaneInv
    BY SMTT(60) DEF Init, LaneInv
  <1> QED
    BY <1>1, <1>2, <1>3 DEF Init, Typed, TypeOK, Listings

LEMMA StartType ==
    ASSUME NEW config \in Configs, NEW listed \in Listings, Start(config, listed)
    PROVE  /\ cfg' \in Configs
           /\ input' \in Inputs(cfg')
           /\ dirty' \in BOOLEAN
           /\ pass' = None /\ retry' = None
           /\ installed' \in Listings
           /\ nft_adopted' \in Listings
           /\ nft_listing' \in Listings
           /\ nft_missing' \in BOOLEAN
           /\ flight' = None
           /\ lane' \in Seq(Jobs) /\ done' \in Seq(Completions)
           /\ applied' \in BOOLEAN
           /\ planned' = None
  <1>1. (IF listed = None THEN None ELSE config \cap listed) \in Listings
    BY Constants DEF Listings
  <1>2. None \in Listings
    BY DEF Listings
  <1>3. lane' \in Seq(Jobs) /\ done' \in Seq(Completions)
    BY SMTT(60) DEF Start
  <1>4. nft_adopted' \in Listings
    BY <1>1 DEF Start
  <1> QED
    BY <1>2, <1>3, <1>4 DEF Start

\* What a pass plans and computes.
LEMMA StepType ==
    ASSUME TypeOK
    PROVE  LET less == PlannedRoutes(cfg, without(input, unassigned(cfg, Surviving)))
               want == PlannedRoutes(cfg, input)
               all  == diff(less, want, PlannedRules(cfg), NftPending, routes, rules)
           IN  /\ less \in Routes /\ want \in Routes
               /\ PlannedRules(cfg) \in SUBSET Rules
               /\ NftPending \in BOOLEAN
               /\ all \in Ops /\ UpToNft(all) \in Ops
  <1> DEFINE less == PlannedRoutes(cfg, without(input, unassigned(cfg, Surviving)))
             want == PlannedRoutes(cfg, input)
             all  == diff(less, want, PlannedRules(cfg), NftPending, routes, rules)
  <1>1. less \in Routes /\ want \in Routes
    BY PlannedRoutesType DEF TypeOK
  <1>2. PlannedRules(cfg) \in SUBSET Rules
    BY PlannedRulesType DEF TypeOK
  <1>3. NftPending \in BOOLEAN
    BY DEF NftPending
  <1>4. all \in Ops
    BY <1>1, <1>2, <1>3, DiffType DEF TypeOK
  <1>5. UpToNft(all) \in Ops
    BY <1>4, UpToNftType
  <1> QED
    BY <1>1, <1>2, <1>3, <1>4, <1>5

LEMMA SucceedsType ==
    ASSUME TypeOK, pass # None, NEW n \in Phases, NEW x, Succeeds(n, x)
    PROVE  /\ pass' = None \/ pass' \in [ops : Ops, before : Routes, desired : Routes,
                                         attempt : Ops]
           /\ dirty' \in BOOLEAN
           /\ UNCHANGED <<table, cfg, input, planned, applied, retry, nftVars,
                          laneVars, bounds>>
  <1> DEFINE left == [pass.ops EXCEPT ![n] = @ \ {x}]
  <1>1. pass \in [ops : Ops, before : Routes, desired : Routes, attempt : Ops]
    BY DEF TypeOK
  <1>2. left \in Ops
    BY <1>1 DEF Ops
  <1>3. /\ pass' = IF left = NoOps THEN None ELSE [pass EXCEPT !.ops = left]
        /\ dirty' = (left = NoOps)
        /\ UNCHANGED <<table, cfg, input, planned, applied, retry, nftVars,
                       laneVars, bounds>>
    BY DEF Succeeds
  <1> HIDE DEF left
  <1> QED
    BY <1>1, <1>2, <1>3

\* What an inspection reports is no replacement.
LEMMA Inspected ==
    ASSUME table \in Listings, NEW ok \in BOOLEAN, nft_inspect(ok)
    PROVE  \E c \in Completions : done' = Append(done, c) /\ c.job # "apply"
  <1>1. \A b \in BOOLEAN, l \in Listings :
          [job |-> "inspect", ok |-> b, listing |-> l] \in Completions
    BY DEF Completions
  <1>2. None \in Listings
    BY DEF Listings
  <1>3. \A b, l : [job |-> "inspect", ok |-> b, listing |-> l].job # "apply"
    OBVIOUS
  <1> QED
    BY <1>1, <1>2, <1>3 DEF nft_inspect

LEMMA NextType == Typed /\ [Next]_vars => TypeOK'
  <1> SUFFICES ASSUME Typed, [Next]_vars PROVE TypeOK'
    OBVIOUS
  <1> USE DEF Typed, TypeOK
  <1>1. CASE step
    <2> DEFINE less == PlannedRoutes(cfg, without(input, unassigned(cfg, Surviving)))
               want == PlannedRoutes(cfg, input)
               all  == diff(less, want, PlannedRules(cfg), NftPending, routes, rules)
               ops  == IF flight # None THEN UpToNft(all) ELSE all
    <2>1. less \in Routes /\ want \in Routes /\ all \in Ops /\ ops \in Ops
      BY StepType
    <2>2. /\ planned' = <<want, cfg>>
          /\ dirty' = FALSE
          /\ applied' \in BOOLEAN
          /\ pass' = pass \/ pass' = [ops |-> ops, before |-> less, desired |-> want,
                                      attempt |-> all]
          /\ retry' = retry \/ retry' = None
          /\ UNCHANGED <<kernelVars, cfg, input, nftVars, laneVars, bounds>>
      BY <1>1 DEF step
    <2> HIDE DEF less, want, all, ops
    <2>3. [ops |-> ops, before |-> less, desired |-> want, attempt |-> all]
             \in [ops : Ops, before : Routes, desired : Routes, attempt : Ops]
      BY <2>1
    <2> QED
      BY <2>1, <2>2, <2>3 DEF kernelVars, nftVars, laneVars, bounds
  <1>2. ASSUME NEW n \in {1, 6}, pass # None, NEW t \in pass.ops[n], replace_route(n, t)
        PROVE  TypeOK'
    <2>1. pass.before \in Routes /\ pass.desired \in Routes
      BY <1>2
    <2>2. routes' \in Routes
      BY <1>2, <2>1 DEF replace_route, Routes
    <2>3. Succeeds(n, t) /\ rules' = rules /\ n \in Phases
      BY <1>2, SMTT(60) DEF replace_route, Phases
    <2> QED
      BY <1>2, <2>2, <2>3, SucceedsType, SMTT(60) DEF nftVars, laneVars, bounds
  <1>3. ASSUME NEW n \in {2, 3, 8}, pass # None, NEW t \in pass.ops[n], delete_route(n, t)
        PROVE  TypeOK'
    <2>1. routes' \in Routes
      BY <1>3 DEF delete_route, Routes
    <2>2. Succeeds(n, t) /\ rules' = rules /\ n \in Phases
      BY <1>3, SMTT(60) DEF delete_route, Phases
    <2> QED
      BY <1>3, <2>1, <2>2, SucceedsType, SMTT(60) DEF nftVars, laneVars, bounds
  <1>4. ASSUME pass # None, NEW r \in pass.ops[4], add_rule(r)
        PROVE  TypeOK'
    <2>1. rules' \subseteq Rules
      BY <1>4 DEF add_rule
    <2>2. Succeeds(4, r) /\ routes' = routes /\ 4 \in Phases
      BY <1>4, SMTT(60) DEF add_rule, Phases
    <2> QED
      BY <1>4, <2>1, <2>2, SucceedsType, SMTT(60) DEF nftVars, laneVars, bounds
  <1>5. ASSUME pass # None, NEW r \in pass.ops[7], delete_rule(r)
        PROVE  TypeOK'
    <2>1. rules' \subseteq Rules
      BY <1>5 DEF delete_rule
    <2>2. Succeeds(7, r) /\ routes' = routes /\ 7 \in Phases
      BY <1>5, SMTT(60) DEF delete_rule, Phases
    <2> QED
      BY <1>5, <2>1, <2>2, SucceedsType, SMTT(60) DEF nftVars, laneVars, bounds
  <1>6. CASE queue_nft
    <2>1. pass \in [ops : Ops, before : Routes, desired : Routes, attempt : Ops]
      BY <1>6 DEF queue_nft, IsNext
    <2>2. cfg \in SUBSET Assignments
      BY Constants
    <2>3. flight' \in NftFlight
      BY <1>6, <2>1, <2>2 DEF queue_nft, NftFlight
    <2>4. [job |-> "apply", assigns |-> cfg] \in Jobs
      BY <2>2 DEF Jobs
    <2>5. lane' \in Seq(Jobs)
      BY <1>6, <2>4, AppendProperties DEF queue_nft
    <2> QED
      BY <1>6, <2>3, <2>5 DEF queue_nft, kernelVars, bounds
  <1>7. ASSUME NEW n \in Phases, NEW x, operation_fails(n, x)
        PROVE  TypeOK'
    <2>1. pass \in [ops : Ops, before : Routes, desired : Routes, attempt : Ops]
      BY <1>7 DEF operation_fails, IsNext
    <2>2. retry' \in [attempt : Ops, due : BOOLEAN] /\ dirty' = TRUE
      BY <1>7, <2>1 DEF operation_fails, failed
    <2>3. routes' \in Routes
      BY <1>7 DEF operation_fails, Routes
    <2>4. input' \in Inputs(cfg)
      BY <1>7, Constants DEF operation_fails, Inputs
    <2>5. faults' \in Nat /\ changes' = changes /\ pass' = None
      BY <1>7, SMTT(60) DEF operation_fails, Fault
    <2>6. UNCHANGED <<rules, table, cfg, planned, applied, nftVars, laneVars>>
      BY <1>7 DEF operation_fails
    <2> QED
      BY <2>2, <2>3, <2>4, <2>5, <2>6 DEF nftVars, laneVars
  <1>8. ASSUME NEW ok \in BOOLEAN, nft_lane(ok)
        PROVE  TypeOK'
    <2>1. Head(lane) \in Jobs /\ Head(lane).job = "apply" /\ lane' \in Seq(Jobs)
      BY <1>8, HeadTailProperties DEF nft_lane
    <2>2. Head(lane).assigns \in SUBSET Assignments
      BY <2>1 DEF Jobs
    <2>3. table' \in Listings
      BY <1>8, <2>2 DEF nft_lane, Listings
    <2>4. done' \in Seq(Completions)
      <3>1. \A b \in BOOLEAN, l \in Listings :
              [job |-> "apply", ok |-> b, listing |-> l] \in Completions
        BY DEF Completions
      <3>2. None \in Listings
        BY DEF Listings
      <3>3. PICK c \in Completions : done' = Append(done, c)
        BY <1>8, <2>3, <3>1, <3>2 DEF nft_lane
      <3> QED
        BY <3>3, AppendProperties
    <2>5. changes' \in Nat /\ faults' \in Nat
      BY <1>8, SMTT(60) DEF nft_lane, Fault, bounds
    <2>6. UNCHANGED <<routes, rules, cfg, input, dirty, passVars, retry, nftVars>>
      BY <1>8 DEF nft_lane
    <2> QED
      BY <2>1, <2>3, <2>4, <2>5, <2>6 DEF passVars, nftVars
  <1>9. ASSUME NEW ok \in BOOLEAN, nft_inspect(ok)
        PROVE  TypeOK'
    <2>1. lane' \in Seq(Jobs)
      BY <1>9, HeadTailProperties DEF nft_inspect
    <2>2. PICK c \in Completions : done' = Append(done, c)
      BY <1>9, Inspected
    <2>3. done' \in Seq(Completions)
      BY <2>2, AppendProperties
    <2>4. changes' \in Nat /\ faults' \in Nat
      BY <1>9, SMTT(60) DEF nft_inspect, Fault, bounds
    <2> QED
      BY <1>9, <2>1, <2>3, <2>4 DEF nft_inspect, kernelVars, passVars, nftVars
  <1>10. CASE nft_applied
    <2>1. Head(done) \in Completions /\ done' \in Seq(Completions)
      BY <1>10, HeadTailProperties DEF nft_applied
    <2>2. flight # None
      <3>1. 1 \in 1..Len(done) /\ done[1].job = "apply"
        BY <1>10, HeadTailProperties, LenProperties, SMTT(60) DEF nft_applied
      <3> QED
        BY <3>1 DEF LaneInv
    <2>3. flight.assigns \in Listings /\ flight.attempt \in Ops
      BY <2>2 DEF Listings, NftFlight
    <2>4. Head(done).listing \in Listings
      BY <2>1 DEF Completions
    <2>5. /\ installed' \in Listings
          /\ nft_missing' \in BOOLEAN
          /\ nft_listing' \in Listings
          /\ dirty' \in BOOLEAN
      BY <1>10, <2>3, <2>4 DEF nft_applied, failed
    <2>6. retry' = None \/ retry' \in [attempt : Ops, due : BOOLEAN]
      <3>1. retry' = retry \/ retry' = [attempt |-> flight.attempt, due |-> FALSE]
        BY <1>10 DEF nft_applied, failed
      <3>2. [attempt |-> flight.attempt, due |-> FALSE] \in [attempt : Ops, due : BOOLEAN]
        BY <2>3
      <3> QED
        BY <3>1, <3>2
    <2>7. /\ flight' = None
          /\ UNCHANGED <<kernelVars, cfg, input, passVars, nft_adopted, lane, bounds>>
      BY <1>10 DEF nft_applied
    <2> QED
      BY <2>1, <2>5, <2>6, <2>7 DEF kernelVars, passVars, bounds
  <1>11. CASE check_nft
    <2>1. done' \in Seq(Completions)
      BY <1>11, HeadTailProperties DEF check_nft
    <2>2. nft_missing' \in BOOLEAN
      <3>1. \/ nft_missing' = nft_missing
            \/ nft_missing' = (\/ Head(done).listing = None
                               \/ nft_listing = None
                               \/ Head(done).listing # nft_listing)
        BY <1>11 DEF check_nft
      <3> QED
        BY <3>1
    <2> QED
      BY <1>11, <2>1, <2>2 DEF check_nft, kernelVars, passVars, bounds
  <1>12. CASE full_reconciliation
    <2>1. [job |-> "inspect"] \in Jobs
      BY DEF Jobs
    <2>2. lane' \in Seq(Jobs)
      BY <1>12, <2>1, AppendProperties DEF full_reconciliation
    <2> QED
      BY <1>12, <2>2 DEF full_reconciliation, kernelVars, passVars, nftVars, bounds
  <1>13. ASSUME NEW i \in Inputs(cfg), health_changes(i)
         PROVE  TypeOK'
    BY <1>13, SMTT(60) DEF health_changes, Change, kernelVars, passVars, nftVars, laneVars
  <1>14. ASSUME NEW config \in Configs, NEW i \in Inputs(config),
                reload_bound(config, i)
         PROVE  TypeOK'
    BY <1>14, SMTT(60) DEF reload_bound, Change, kernelVars, passVars, nftVars, laneVars
  <1>15. CASE retry_due
    <2>1. retry' \in [attempt : Ops, due : BOOLEAN]
      BY <1>15 DEF retry_due
    <2> QED
      BY <1>15, <2>1
         DEF retry_due, kernelVars, passVars, nftVars, laneVars, bounds
  <1>16. ASSUME NEW config \in Configs, NEW committed \in BOOLEAN,
                Crash(config, committed)
         PROVE  TypeOK'
    <2>1. table' \in Listings
      <3>1. lane # <<>> => Head(lane) \in Jobs
        BY HeadTailProperties
      <3>2. lane # <<>> /\ Head(lane).job = "apply" => Head(lane).assigns \in Listings
        BY <3>1 DEF Jobs, Listings
      <3> QED
        BY <1>16, <3>2 DEF Crash
    <2>2. \E listed \in Listings : Start(config, listed)
      BY <1>16, <2>1 DEF Crash, Listings
    <2>3. faults' \in Nat /\ changes' = changes /\ UNCHANGED <<routes, rules>>
      BY <1>16, SMTT(60) DEF Crash, Fault
    <2> QED
      BY <2>1, <2>2, <2>3, StartType
  <1>17. CASE UNCHANGED vars
    BY <1>17 DEF vars, kernelVars, passVars, nftVars, laneVars, bounds
  <1> QED
    <2>1. CASE Operation
      BY <1>2, <1>3, <1>4, <1>5, <1>6, <2>1 DEF Operation
    <2> QED
      BY <1>1, <1>7, <1>8, <1>9, <1>10, <1>11, <1>12, <1>13, <1>14, <1>15, <1>16,
         <1>17, <2>1 DEF Next, StateTask, Lane, Environment

-----------------------------------------------------------------------------
(* The lane. *)

LEMMA Popped ==
    ASSUME NEW S, NEW q \in Seq(S), q # <<>>
    PROVE  /\ Len(q) \in Nat /\ Len(Tail(q)) = Len(q) - 1
           /\ 1 \in 1..Len(q) /\ Head(q) = q[1]
           /\ \A i \in 1..Len(Tail(q)) : /\ Tail(q)[i] = q[i + 1]
                                         /\ i + 1 \in 2..Len(q)
  BY HeadTailProperties, LenProperties, SMTT(60)

LEMMA Pushed ==
    ASSUME NEW S, NEW q \in Seq(S), NEW e \in S
    PROVE  /\ Len(q) \in Nat /\ Len(Append(q, e)) = Len(q) + 1
           /\ \A i \in 1..Len(Append(q, e)) :
                \/ i \in 1..Len(q) /\ Append(q, e)[i] = q[i]
                \/ i = Len(q) + 1 /\ Append(q, e)[i] = e
  BY AppendProperties, LenProperties, SMTT(60)

\* Executing an operation takes it from the pass and leaves the others.
LEMMA SucceedsPass ==
    ASSUME TypeOK, pass # None, NEW n \in Phases, NEW x, Succeeds(n, x), pass' # None
    PROVE  /\ pass'.before = pass.before
           /\ pass'.ops[n] = pass.ops[n] \ {x}
           /\ \A m \in Phases \ {n} : pass'.ops[m] = pass.ops[m]
           /\ \A m \in Phases : pass'.ops[m] \subseteq pass.ops[m]
  <1> DEFINE left == [pass.ops EXCEPT ![n] = @ \ {x}]
  <1>1. pass \in [ops : Ops, before : Routes, desired : Routes, attempt : Ops]
    BY DEF TypeOK
  <1>2. /\ left \in Ops
        /\ left[n] = pass.ops[n] \ {x}
        /\ \A m \in Phases \ {n} : left[m] = pass.ops[m]
        /\ \A m \in Phases : left[m] \subseteq pass.ops[m]
    BY <1>1 DEF Ops
  <1>3. pass' = [pass EXCEPT !.ops = left]
    BY DEF Succeeds
  <1> HIDE DEF left
  <1>4. pass'.ops = left /\ pass'.before = pass.before
    BY <1>1, <1>3
  <1> QED
    BY <1>2, <1>4

\* The operations that a pass starts with.
LEMMA StepOps ==
    ASSUME TypeOK, step, pass' # None
    PROVE  LET less == PlannedRoutes(cfg, without(input, unassigned(cfg, Surviving)))
               want == PlannedRoutes(cfg, input)
           IN  /\ pass'.before = less
               /\ pass'.ops[1] = {t \in Tables : less[t] # {} /\ routes[t] # less[t]}
               /\ pass'.ops[2] = {t \in Tables \ PathTables :
                                     routes[t] # {} /\ less[t] = {}}
               /\ pass'.ops[3] \subseteq PathTables
               /\ pass'.ops[4] = PlannedRules(cfg) \ rules
               /\ pass'.ops[7] = {} \/ pass'.ops[7] = rules \ PlannedRules(cfg)
               /\ pass'.ops[8] \subseteq PathTables
               /\ flight # None => \A n \in 5..8 : pass'.ops[n] = {}
               /\ pass'.ops[5] = {} /\ flight = None =>
                    /\ ~NftPending
                    /\ \A t \in pass'.ops[6] : less[t] # want[t]
  <1> DEFINE less == PlannedRoutes(cfg, without(input, unassigned(cfg, Surviving)))
             want == PlannedRoutes(cfg, input)
             all  == diff(less, want, PlannedRules(cfg), NftPending, routes, rules)
             ops  == IF flight # None THEN UpToNft(all) ELSE all
             early == {t \in Tables \ PathTables : routes[t] # {} /\ less[t] = {}}
             Goal ==
               /\ pass'.before = less
               /\ pass'.ops[1] = {t \in Tables : less[t] # {} /\ routes[t] # less[t]}
               /\ pass'.ops[2] = {t \in Tables \ PathTables :
                                     routes[t] # {} /\ less[t] = {}}
               /\ pass'.ops[3] \subseteq PathTables
               /\ pass'.ops[4] = PlannedRules(cfg) \ rules
               /\ pass'.ops[7] = {} \/ pass'.ops[7] = rules \ PlannedRules(cfg)
               /\ pass'.ops[8] \subseteq PathTables
               /\ flight # None => \A n \in 5..8 : pass'.ops[n] = {}
               /\ pass'.ops[5] = {} /\ flight = None =>
                    /\ ~NftPending
                    /\ \A t \in pass'.ops[6] : less[t] # want[t]
  <1>1. /\ less \in Routes /\ want \in Routes
        /\ PlannedRules(cfg) \in SUBSET Rules
        /\ NftPending \in BOOLEAN
        /\ all \in Ops
    BY StepType
  <1>2. /\ all[1] = {t \in Tables : less[t] # {} /\ routes[t] # less[t]}
        /\ all[2] = early
        /\ all[3] \subseteq PathTables
        /\ all[4] = PlannedRules(cfg) \ rules
        /\ all[5] = IF NftPending THEN {NftTable} ELSE {}
        /\ \A t \in all[6] : less[t] # want[t]
        /\ all[7] = rules \ PlannedRules(cfg)
        /\ all[8] \subseteq PathTables
    <2> HIDE DEF less, want
    <2>1. all[1] = {t \in Tables : less[t] # {} /\ routes[t] # less[t]}
      BY SMTT(60) DEF diff, Phases
    <2>2. all[2] = early
      BY SMTT(60) DEF diff, Phases
    <2>3. all[3] \subseteq PathTables
      BY SMTT(60) DEF diff, Phases
    <2>4. all[4] = PlannedRules(cfg) \ rules
      BY SMTT(60) DEF diff, Phases
    <2>5. all[5] = IF NftPending THEN {NftTable} ELSE {}
      BY SMTT(60) DEF diff, Phases
    <2>6. \A t \in all[6] : less[t] # want[t]
      BY SMTT(60) DEF diff, Phases
    <2>7. all[7] = rules \ PlannedRules(cfg)
      BY SMTT(60) DEF diff, Phases
    <2>8. all[8] \subseteq PathTables
      BY SMTT(60) DEF diff, Phases
    <2> QED
      BY <2>1, <2>2, <2>3, <2>4, <2>5, <2>6, <2>7, <2>8
  <1>3. pass' = [ops |-> ops, before |-> less, desired |-> want, attempt |-> all]
    BY DEF step
  <1> HIDE DEF less, want, all
  <1>4. pass'.before = less /\ pass'.ops = ops
    BY <1>3
  <1>5. ASSUME flight = None PROVE Goal
    <2>1. ops = all
      BY <1>5
    <2> HIDE DEF ops
    <2>2. pass'.ops[5] = {} => ~NftPending
      BY <1>2, <1>4, <2>1, SMTT(60)
    <2> QED
      BY <1>2, <1>4, <1>5, <2>1, <2>2
  <1>6. ASSUME flight # None PROVE Goal
    <2>1. NftPending
      BY <1>6 DEF NftPending
    <2>2. all[5] # {}
      BY <1>2, <2>1
    <2>3. /\ \A n \in 1..4 : ops[n] = all[n]
          /\ \A n \in 5..8 : ops[n] = {}
      BY <1>1, <1>6, <2>2, UpToNftType
    <2> HIDE DEF ops
    <2>4. /\ ops[1] = all[1] /\ ops[2] = all[2] /\ ops[3] = all[3] /\ ops[4] = all[4]
          /\ ops[7] = {} /\ ops[8] = {}
      BY <2>3, SMTT(60)
    <2> QED
      BY <1>2, <1>4, <1>6, <2>3, <2>4
  <1> QED
    BY <1>5, <1>6 DEF less, want

LEMMA NextLane == Typed /\ [Next]_vars => LaneInv'
  <1> SUFFICES ASSUME Typed, [Next]_vars PROVE LaneInv'
    OBVIOUS
  <1>0. /\ LaneInv
        /\ lane \in Seq(Jobs) /\ done \in Seq(Completions)
        /\ table \in Listings
    BY DEF Typed, TypeOK
  <1>1. CASE UNCHANGED <<lane, done, flight>>
    BY <1>0, <1>1 DEF LaneInv
  <1>2. CASE queue_nft
    <2>1. /\ pass # None /\ NftTable \in pass.ops[5]
          /\ flight'.assigns = cfg /\ flight' # None
          /\ lane' = Append(lane, [job |-> "apply", assigns |-> cfg])
          /\ done' = done
      <3>1. flight' = [assigns |-> cfg, attempt |-> pass.attempt]
        BY <1>2 DEF queue_nft
      <3>2. flight' # None
        <4>1. pass \in [ops : Ops, before : Routes, desired : Routes, attempt : Ops]
          BY <1>2 DEF queue_nft, IsNext, Typed, TypeOK
        <4>2. cfg \in SUBSET Assignments
          BY Constants DEF Typed, TypeOK
        <4>3. flight' \in NftFlight
          BY <3>1, <4>1, <4>2 DEF NftFlight
        <4> QED
          BY <4>3, NoneAssumption
      <3> QED
        BY <1>2, <3>1, <3>2, SMTT(60) DEF queue_nft, IsNext, First
    <2>2. flight = None
      BY <2>1 DEF Typed
    <2>3. [job |-> "apply", assigns |-> cfg] \in Jobs
      BY Constants DEF Typed, TypeOK, Jobs
    <2>4. /\ \A i \in 1..Len(lane) : lane[i].job # "apply"
          /\ \A i \in 1..Len(done) : done[i].job # "apply"
      BY <1>0, <2>2 DEF LaneInv
    <2>5. \A i \in 1..Len(lane') : lane'[i].job = "apply" =>
             i = Len(lane) + 1 /\ lane'[i].assigns = cfg
      BY <1>0, <2>1, <2>3, <2>4, Pushed, SMTT(60)
    <2> QED
      BY <2>1, <2>4, <2>5, SMTT(60) DEF LaneInv
  <1>3. ASSUME NEW ok \in BOOLEAN, nft_lane(ok)
        PROVE  LaneInv'
    <2>1. /\ lane # <<>> /\ Head(lane).job = "apply"
          /\ lane' = Tail(lane)
          /\ flight' = flight
      BY <1>3 DEF nft_lane, nftVars
    <2>2. PICK c : done' = Append(done, c) /\ c.job = "apply" /\ c \in Completions
      <3>1. table' \in Listings /\ None \in Listings
        BY NextType, <1>3 DEF Typed, TypeOK, Next, Lane, Environment, Listings
      <3>2. \A b \in BOOLEAN, l \in Listings :
              [job |-> "apply", ok |-> b, listing |-> l] \in Completions
        BY DEF Completions
      <3> QED
        BY <1>3, <3>1, <3>2 DEF nft_lane
    <2>3. /\ flight # None
          /\ \A j \in 1..Len(lane) : lane[j].job = "apply" => j = 1
          /\ \A j \in 1..Len(done) : done[j].job # "apply"
      BY <1>0, <2>1, Popped DEF LaneInv
    <2>4. \A i \in 1..Len(lane') : lane'[i].job # "apply"
      BY <1>0, <2>1, <2>3, Popped, SMTT(60)
    <2>5. \A i \in 1..Len(done') : done'[i].job = "apply" => i = Len(done) + 1
      BY <1>0, <2>2, <2>3, Pushed, SMTT(60)
    <2> QED
      BY <2>1, <2>3, <2>4, <2>5 DEF LaneInv
  <1>4. ASSUME NEW ok \in BOOLEAN, nft_inspect(ok)
        PROVE  LaneInv'
    <2>1. lane # <<>> /\ lane' = Tail(lane) /\ flight' = flight
      BY <1>4 DEF nft_inspect, nftVars
    <2>2. PICK c \in Completions : done' = Append(done, c) /\ c.job # "apply"
      BY <1>0, <1>4, Inspected
    <2>3. \A i \in 1..Len(done') : done'[i].job = "apply" =>
             i \in 1..Len(done) /\ done[i].job = "apply"
      BY <1>0, <2>2, Pushed, SMTT(60)
    <2>4. \A i \in 1..Len(lane') :
             lane'[i] = lane[i + 1] /\ i + 1 \in 1..Len(lane)
      BY <1>0, <2>1, Popped, SMTT(60)
    <2> QED
      BY <1>0, <2>1, <2>3, <2>4, SMTT(60) DEF LaneInv
  <1>5. CASE nft_applied
    <2>1. /\ done # <<>> /\ Head(done).job = "apply"
          /\ done' = Tail(done)
          /\ lane' = lane
      BY <1>5 DEF nft_applied
    <2>2. /\ 1 \in 1..Len(done) /\ done[1].job = "apply"
          /\ \A i \in 1..Len(done') : done'[i] = done[i + 1] /\ i + 1 \in 2..Len(done)
          /\ Len(done) \in Nat
      BY <1>0, <2>1, Popped
    <2>3. \A j \in 1..Len(done) : done[j].job = "apply" => j = 1
      BY <1>0, <2>2 DEF LaneInv
    <2>4. \A i \in 1..Len(done') : done'[i].job # "apply"
      BY <2>2, <2>3, SMTT(60)
    <2>5. \A i \in 1..Len(lane) : lane[i].job # "apply"
      BY <1>0, <2>2 DEF LaneInv
    <2> QED
      BY <2>1, <2>4, <2>5 DEF LaneInv
  <1>6. CASE check_nft
    <2>1. done # <<>> /\ done' = Tail(done) /\ lane' = lane /\ flight' = flight
      BY <1>6 DEF check_nft
    <2>2. /\ Len(done) \in Nat
          /\ \A i \in 1..Len(done') : done'[i] = done[i + 1] /\ i + 1 \in 1..Len(done)
      BY <1>0, <2>1, Popped, SMTT(60)
    <2> QED
      BY <1>0, <2>1, <2>2, SMTT(60) DEF LaneInv
  <1>7. CASE full_reconciliation
    <2>1. lane' = Append(lane, [job |-> "inspect"]) /\ done' = done /\ flight' = flight
      BY <1>7 DEF full_reconciliation, nftVars
    <2>2. [job |-> "inspect"] \in Jobs
      BY DEF Jobs
    <2>3. \A i \in 1..Len(lane') : lane'[i].job = "apply" =>
             i \in 1..Len(lane) /\ lane'[i] = lane[i]
      BY <1>0, <2>1, <2>2, Pushed, SMTT(60)
    <2> QED
      BY <1>0, <2>1, <2>3, SMTT(60) DEF LaneInv
  <1>8. ASSUME NEW config, NEW committed, Crash(config, committed)
        PROVE  LaneInv'
    BY <1>8, SMTT(60) DEF Crash, Start, LaneInv
  <1> QED
    <2>1. UNCHANGED vars \/ step => UNCHANGED <<lane, done, flight>>
      BY DEF vars, step, nftVars, laneVars
    <2>2. \A n, x : replace_route(n, x) \/ delete_route(n, x)
             => UNCHANGED <<lane, done, flight>>
      BY SMTT(60) DEF replace_route, delete_route, Succeeds, nftVars, laneVars
    <2>3. \A r : add_rule(r) \/ delete_rule(r) => UNCHANGED <<lane, done, flight>>
      BY DEF add_rule, delete_rule, Succeeds, nftVars, laneVars
    <2>4. \A n, x : operation_fails(n, x) => UNCHANGED <<lane, done, flight>>
      BY DEF operation_fails, nftVars, laneVars
    <2>5. \A i : health_changes(i) => UNCHANGED <<lane, done, flight>>
      BY DEF health_changes, nftVars, laneVars
    <2>6. \A c, i : reload_bound(c, i) => UNCHANGED <<lane, done, flight>>
      BY DEF reload_bound, nftVars, laneVars
    <2>7. retry_due => UNCHANGED <<lane, done, flight>>
      BY DEF retry_due, nftVars, laneVars
    <2> QED
      BY <1>1, <1>2, <1>3, <1>4, <1>5, <1>6, <1>7, <1>8, <2>1, <2>2, <2>3, <2>4,
         <2>5, <2>6, <2>7 DEF Next, StateTask, Operation, Lane, Environment

\* Type correctness of the lane, the passes and the kernel's state.
LEMMA NextTyped == Typed /\ [Next]_vars => Typed'
  <1> SUFFICES ASSUME Typed, [Next]_vars PROVE Typed'
    OBVIOUS
  <1> DEFINE P == pass # None => /\ pass.ops[4] \subseteq Rules
                                 /\ flight # None => pass.ops[5] = {}
  <1>1. P'
    <2>0. TypeOK
      BY DEF Typed
    <2>1. CASE UNCHANGED <<pass, flight>>
      BY <2>1 DEF Typed
    <2>2. CASE pass' = None
      BY <2>2
    <2>3. CASE step
      <3>1. flight' = flight
        BY <2>3 DEF step, nftVars
      <3>2. ASSUME pass' # None
            PROVE  /\ pass'.ops[4] = PlannedRules(cfg) \ rules
                   /\ flight # None => \A n \in 5..8 : pass'.ops[n] = {}
        BY <2>0, <2>3, <3>2, StepOps
      <3>3. PlannedRules(cfg) \subseteq Rules
        BY <2>0, PlannedRulesType DEF TypeOK
      <3> QED
        BY <3>1, <3>2, <3>3, SMTT(60)
    <2>4. ASSUME pass # None, NEW n \in Phases, NEW x, Succeeds(n, x)
          PROVE  P'
      <3>1. flight' = flight
        BY <2>4 DEF Succeeds, nftVars
      <3>2. pass' # None => /\ pass'.ops[4] \subseteq pass.ops[4]
                            /\ pass'.ops[5] \subseteq pass.ops[5]
        BY <2>0, <2>4, SucceedsPass, SMTT(60) DEF Phases
      <3> QED
        BY <2>4, <3>1, <3>2 DEF Typed
    <2>5. CASE Operation
      <3>1. CASE queue_nft
        BY <2>2, <3>1 DEF queue_nft
      <3>2. CASE pass # None /\ \E n \in Phases : \E x : Succeeds(n, x)
        BY <2>4, <3>2
      <3> QED
        BY <2>5, <3>1, <3>2, SMTT(60)
           DEF Operation, replace_route, delete_route, add_rule, delete_rule, Phases
    <2>6. CASE Environment
      <3>1. \A n, x : operation_fails(n, x) => pass' = None
        BY DEF operation_fails
      <3>2. \A c, b : Crash(c, b) => pass' = None
        BY DEF Crash, Start
      <3>3. nft_lane(FALSE) \/ nft_inspect(FALSE) => UNCHANGED <<pass, flight>>
        BY DEF nft_lane, nft_inspect, passVars, nftVars
      <3>4. full_reconciliation => UNCHANGED <<pass, flight>>
        BY DEF full_reconciliation, passVars, nftVars
      <3>5. \A i : health_changes(i) => UNCHANGED <<pass, flight>>
        BY DEF health_changes, passVars, nftVars
      <3>6. \A c, i : reload_bound(c, i) => UNCHANGED <<pass, flight>>
        BY DEF reload_bound, passVars, nftVars
      <3> QED
        BY <2>1, <2>2, <2>6, <3>1, <3>2, <3>3, <3>4, <3>5, <3>6 DEF Environment
    <2>7. CASE Lane \/ check_nft \/ retry_due \/ UNCHANGED vars
      BY <2>1, <2>7
         DEF Lane, nft_lane, nft_inspect, check_nft, retry_due, vars, passVars, nftVars
    <2>8. CASE nft_applied
      BY <2>2, <2>8 DEF nft_applied, Idle, passVars
    <2> QED
      BY <2>3, <2>5, <2>6, <2>7, <2>8 DEF Next, StateTask
  <1> QED
    BY <1>1, NextType, NextLane DEF Typed

\* Type correctness: the routes, rules, passes, attempts and the jobs of the
\* nftables lane keep their types, and a completion of the lane always finds
\* the transaction it belongs to, over passes, failures, reloads and crashes.
THEOREM TypeCorrect == Spec => []TypeOK
  <1>1. Typed => TypeOK
    BY DEF Typed
  <1> QED
    BY <1>1, InitTyped, NextTyped, PTL DEF Spec

-----------------------------------------------------------------------------
(* The inductive invariant. *)

\* The transaction in flight is in the kernel, and the daemon does not know.
Committed == \E i \in 1..Len(done) : done[i].job = "apply" /\ done[i].ok

\* What the daemon knows of the table.
TableInv ==
    /\ Committed => table = flight.assigns
    /\ ~Committed /\ installed # None => table = installed
    /\ ~Committed /\ installed = None /\ nft_adopted # None =>
         table # None /\ nft_adopted \subseteq table
    /\ ~Committed /\ installed = None /\ nft_adopted = None => table = None
    /\ flight # None /\ installed = None /\ nft_adopted = None => flight.assigns = cfg

\* New connections use no path that the table, or the one in flight, leaves
\* unassigned.
RouteInv ==
    \A t \in MarkedTables :
        /\ ~Committed /\ table # None => routes[t] \subseteq table
        /\ flight # None => routes[t] \subseteq flight.assigns

Interpreted(S) == \A a \in S : PathLookup(a[1]) \in rules /\ ClassGuards \subseteq rules

\* The rules interpret the marks of the table and of the one in flight.
RuleInv ==
    /\ ~Committed /\ table # None => Interpreted(table)
    /\ flight # None => Interpreted(flight.assigns)

\* The pass in progress: what it plans before the nftables step is counted
\* on; what is done of that; what follows the step is nothing new.
PassInv ==
    pass # None =>
        /\ \A t \in MarkedTables :
             /\ pass.before[t] \subseteq cfg
             /\ Surviving # None => pass.before[t] \subseteq Surviving
             /\ t \notin pass.ops[1] \cup pass.ops[2] => routes[t] = pass.before[t]
             /\ t \in pass.ops[2] => pass.before[t] = {}
        /\ pass.ops[3] \cup pass.ops[8] \subseteq PathTables
        /\ PlannedRules(cfg) \subseteq rules \cup pass.ops[4]
        /\ pass.ops[7] \cap PlannedRules(cfg) = {}
        /\ pass.ops[5] = {} =>
             /\ pass.ops[6] = {}
             /\ pass.ops[7] # {} => flight = None /\ installed = cfg

IInv == Typed /\ TableInv /\ RouteInv /\ RuleInv /\ PassInv

-----------------------------------------------------------------------------
(* What the daemon knows of the table. *)

\* The conditions of the theorems below.
Reliable == ~LateErrors /\ ~EarlyReloads /\ ~AdoptionErrors

LEMMA CommittedKept == done' = done => (Committed' <=> Committed)
  BY DEF Committed

\* Without a transaction in flight nothing is committed unknown.
LEMMA NoFlight ==
    ASSUME LaneInv
    PROVE  /\ flight = None => ~Committed
           /\ \A i \in 1..Len(lane) : lane[i].job = "apply" => ~Committed
  BY DEF LaneInv, Committed

\* An inspection among the completions is no commit.
LEMMA InspectionsCommitNothing ==
    ASSUME Typed, check_nft \/ \E ok \in BOOLEAN : nft_inspect(ok)
    PROVE  Committed' <=> Committed
  <1>0. done \in Seq(Completions) /\ table \in Listings
    BY DEF Typed, TypeOK
  <1>1. CASE \E ok \in BOOLEAN : nft_inspect(ok)
    <2>1. PICK c \in Completions : done' = Append(done, c) /\ c.job # "apply"
      BY <1>0, <1>1, Inspected
    <2>2. \A i \in 1..Len(done') : \/ i \in 1..Len(done) /\ done'[i] = done[i]
                                   \/ done'[i] = c
      BY <1>0, <2>1, Pushed
    <2>3. \A i \in 1..Len(done) : i \in 1..Len(done') /\ done'[i] = done[i]
      BY <1>0, <2>1, AppendProperties, LenProperties, SMTT(60)
    <2> QED
      BY <2>1, <2>2, <2>3, SMTT(60) DEF Committed
  <1>2. CASE check_nft
    <2>1. done # <<>> /\ Head(done).job = "inspect" /\ done' = Tail(done)
      BY <1>2 DEF check_nft
    <2>2. /\ done[1].job = "inspect"
          /\ \A i \in 1..Len(done') : done'[i] = done[i + 1] /\ i + 1 \in 1..Len(done)
          /\ Len(done) \in Nat /\ Len(done') = Len(done) - 1
      BY <1>0, <2>1, Popped, SMTT(60)
    <2>3. \A i \in 1..Len(done) : i = 1 \/ (i - 1 \in 1..Len(done') /\ done'[i - 1] = done[i])
      BY <2>2, SMTT(60)
    <2>4. ASSUME Committed PROVE Committed'
      <3>1. PICK i \in 1..Len(done) : done[i].job = "apply" /\ done[i].ok
        BY <2>4 DEF Committed
      <3>2. i - 1 \in 1..Len(done') /\ done'[i - 1] = done[i]
        BY <2>2, <2>3, <3>1
      <3> QED
        BY <3>1, <3>2 DEF Committed
    <2>5. ASSUME Committed' PROVE Committed
      <3>1. PICK i \in 1..Len(done') : done'[i].job = "apply" /\ done'[i].ok
        BY <2>5 DEF Committed
      <3>2. i + 1 \in 1..Len(done) /\ done[i + 1] = done'[i]
        BY <2>2
      <3> QED
        BY <3>1, <3>2 DEF Committed
    <2> QED
      BY <2>4, <2>5
  <1> QED
    BY <1>1, <1>2

\* The lane commits, or fails: the transaction was in flight.
LEMMA LaneCommits ==
    ASSUME Typed, NEW ok \in BOOLEAN, nft_lane(ok)
    PROVE  /\ flight # None /\ Head(lane).assigns = flight.assigns
           /\ ~Committed
           /\ Committed' <=> ok
  <1>0. done \in Seq(Completions) /\ lane \in Seq(Jobs) /\ LaneInv
    BY DEF Typed, TypeOK
  <1>1. lane # <<>> /\ Head(lane).job = "apply"
    BY DEF nft_lane
  <1>2. 1 \in 1..Len(lane) /\ Head(lane) = lane[1]
    BY <1>0, <1>1, Popped
  <1>3. flight # None /\ Head(lane).assigns = flight.assigns /\ ~Committed
    BY <1>0, <1>1, <1>2, NoFlight DEF LaneInv
  <1>4. PICK c \in Completions : done' = Append(done, c) /\ c.job = "apply" /\ (c.ok <=> ok)
    <2>1. table' \in Listings /\ None \in Listings
      BY NextType DEF Typed, TypeOK, Next, Lane, Environment, Listings
    <2>2. \A b \in BOOLEAN, l \in Listings :
            [job |-> "apply", ok |-> b, listing |-> l] \in Completions
      BY DEF Completions
    <2> QED
      BY <2>1, <2>2 DEF nft_lane
  <1>5. \A i \in 1..Len(done') : \/ i \in 1..Len(done) /\ done'[i] = done[i]
                                 \/ done'[i] = c
    BY <1>0, <1>4, Pushed, SMTT(60)
  <1>6. Len(done') \in 1..Len(done') /\ done'[Len(done')] = c
    BY <1>0, <1>4, AppendProperties, LenProperties, SMTT(60)
  <1> QED
    BY <1>3, <1>4, <1>5, <1>6 DEF Committed

\* The report of a transaction says whether it was committed.
LEMMA ReportTells ==
    ASSUME Typed, nft_applied
    PROVE  /\ flight # None /\ flight.assigns \in SUBSET Assignments
           /\ Committed <=> Head(done).ok
           /\ ~Committed'
  <1>0. done \in Seq(Completions) /\ LaneInv
    BY DEF Typed, TypeOK
  <1>1. done # <<>> /\ Head(done).job = "apply" /\ done' = Tail(done)
    BY DEF nft_applied
  <1>2. /\ 1 \in 1..Len(done) /\ Head(done) = done[1]
        /\ \A i \in 1..Len(done') : done'[i] = done[i + 1] /\ i + 1 \in 2..Len(done)
        /\ Len(done) \in Nat
    BY <1>0, <1>1, Popped
  <1>3. flight # None /\ \A j \in 1..Len(done) : done[j].job = "apply" => j = 1
    BY <1>0, <1>1, <1>2 DEF LaneInv
  <1>4. Committed <=> Head(done).ok
    BY <1>1, <1>2, <1>3 DEF Committed
  <1>5. \A i \in 1..Len(done') : done'[i].job # "apply"
    BY <1>2, <1>3, SMTT(60)
  <1>6. ~Committed'
    BY <1>5 DEF Committed
  <1>7. flight.assigns \in SUBSET Assignments
    BY <1>3 DEF Typed, TypeOK, NftFlight
  <1> QED
    BY <1>3, <1>4, <1>6, <1>7

\* What a crash leaves in the kernel is the known table or the one in flight.
LEMMA CrashLeaves ==
    ASSUME Typed, NEW config, NEW committed, Crash(config, committed)
    PROVE  table' = table \/ (flight # None /\ table' = flight.assigns /\ ~Committed)
  <1>0. lane \in Seq(Jobs) /\ LaneInv
    BY DEF Typed, TypeOK
  <1>1. CASE lane # <<>> /\ Head(lane).job = "apply"
    <2>1. 1 \in 1..Len(lane) /\ Head(lane) = lane[1]
      BY <1>0, <1>1, Popped
    <2> QED
      BY <1>0, <1>1, <2>1, NoFlight DEF Crash, LaneInv
  <1>2. CASE ~(lane # <<>> /\ Head(lane).job = "apply")
    BY <1>2 DEF Crash
  <1> QED
    BY <1>1, <1>2

\* The steps that concern neither the table nor what is known of it.
LEMMA OtherSteps ==
    ASSUME [Next]_vars
    PROVE  \/ UNCHANGED <<table, done, flight, installed, nft_adopted, cfg>>
           \/ queue_nft
           \/ \E ok \in BOOLEAN : nft_lane(ok)
           \/ \E ok \in BOOLEAN : nft_inspect(ok)
           \/ nft_applied
           \/ check_nft
           \/ \E config \in Configs : \E i \in Inputs(config) : reload_bound(config, i)
           \/ \E config \in Configs, committed \in BOOLEAN : Crash(config, committed)
  <1> DEFINE U == UNCHANGED <<table, done, flight, installed, nft_adopted, cfg>>
  <1>1. UNCHANGED vars \/ step \/ retry_due => U
    BY DEF vars, step, retry_due, kernelVars, nftVars, laneVars
  <1>2. \A n, x : replace_route(n, x) \/ delete_route(n, x) \/ operation_fails(n, x) => U
    BY SMTT(60) DEF replace_route, delete_route, operation_fails, Succeeds, nftVars, laneVars
  <1>3. \A r : add_rule(r) \/ delete_rule(r) => U
    BY DEF add_rule, delete_rule, Succeeds, nftVars, laneVars
  <1>4. \A i : health_changes(i) => U
    BY DEF health_changes, kernelVars, nftVars, laneVars
  <1>5. full_reconciliation => U
    BY DEF full_reconciliation, kernelVars, nftVars
  <1> HIDE DEF U
  <1>6. CASE Operation
    BY <1>2, <1>3, <1>6 DEF Operation, U
  <1>7. CASE Environment
    BY <1>2, <1>4, <1>5, <1>7 DEF Environment, U
  <1> QED
    BY <1>1, <1>6, <1>7 DEF Next, StateTask, Lane, U

LEMMA NextTable ==
    ASSUME Reliable, IInv, [Next]_vars
    PROVE  TableInv'
  <1>0. Typed /\ TableInv /\ table \in Listings
    BY DEF IInv, Typed, TypeOK
  <1>1. CASE UNCHANGED <<table, done, flight, installed, nft_adopted, cfg>>
    <2>1. Committed' <=> Committed
      BY <1>1, CommittedKept
    <2> QED
      BY <1>0, <1>1, <2>1 DEF TableInv
  <1>2. CASE queue_nft
    <2>1. pass # None /\ NftTable \in pass.ops[5]
      BY <1>2 DEF queue_nft, IsNext, First
    <2>2. flight = None /\ ~Committed
      BY <1>0, <2>1, NoFlight DEF Typed
    <2>3. /\ flight'.assigns = cfg
          /\ UNCHANGED <<table, done, installed, nft_adopted, cfg>>
      BY <1>2 DEF queue_nft, kernelVars
    <2>4. ~Committed'
      BY <2>2, <2>3, CommittedKept
    <2> QED
      BY <1>0, <2>2, <2>3, <2>4 DEF TableInv
  <1>3. ASSUME NEW ok \in BOOLEAN, nft_lane(ok)
        PROVE  TableInv'
    <2>1. /\ flight # None /\ Head(lane).assigns = flight.assigns
          /\ ~Committed
          /\ Committed' <=> ok
      BY <1>0, <1>3, LaneCommits
    <2>2. UNCHANGED <<flight, installed, nft_adopted, cfg>>
      BY <1>3 DEF nft_lane, nftVars
    <2>3. table' = IF ok THEN flight.assigns ELSE table
      BY <1>3, <2>1 DEF nft_lane, Reliable
    <2> QED
      BY <1>0, <2>1, <2>2, <2>3 DEF TableInv
  <1>4. CASE check_nft \/ \E ok \in BOOLEAN : nft_inspect(ok)
    <2>1. Committed' <=> Committed
      BY <1>0, <1>4, InspectionsCommitNothing
    <2>2. UNCHANGED <<table, flight, installed, nft_adopted, cfg>>
      BY <1>4 DEF nft_inspect, check_nft, kernelVars, nftVars
    <2> QED
      BY <1>0, <2>1, <2>2 DEF TableInv
  <1>5. CASE nft_applied
    <2>1. /\ flight # None /\ flight.assigns \in SUBSET Assignments
          /\ Committed <=> Head(done).ok
          /\ ~Committed'
      BY <1>0, <1>5, ReportTells
    <2>2. flight' = None /\ UNCHANGED <<table, nft_adopted>>
      BY <1>5 DEF nft_applied, kernelVars
    <2>3. CASE Head(done).ok
      <3>1. installed' = flight.assigns /\ table = flight.assigns
        BY <1>0, <1>5, <2>1, <2>3 DEF nft_applied, TableInv
      <3>2. installed' # None
        BY <2>1, <3>1, Constants
      <3> QED
        BY <2>1, <2>2, <3>1, <3>2 DEF TableInv
    <2>4. CASE ~Head(done).ok
      <3>1. installed' = installed
        BY <1>5, <2>4 DEF nft_applied
      <3> QED
        BY <1>0, <2>1, <2>2, <2>4, <3>1 DEF TableInv
    <2> QED
      BY <2>3, <2>4
  <1>6. ASSUME NEW config, NEW i, reload_bound(config, i)
        PROVE  TableInv'
    <2>1. /\ UNCHANGED <<table, done, flight, installed, nft_adopted>>
          /\ installed # None \/ nft_adopted # None
      BY <1>6 DEF reload_bound, Reliable, kernelVars, nftVars, laneVars
    <2>2. Committed' <=> Committed
      BY <2>1, CommittedKept
    <2> QED
      BY <1>0, <2>1, <2>2 DEF TableInv
  <1>7. ASSUME NEW config \in Configs, NEW committed \in BOOLEAN,
               Crash(config, committed)
        PROVE  TableInv'
    <2>1. Start(config, table')
      BY <1>7 DEF Crash, Reliable
    <2>2. /\ done' = <<>> /\ flight' = None /\ installed' = None
          /\ nft_adopted' = IF table' = None THEN None ELSE config \cap table'
      BY <2>1 DEF Start
    <2>3. ~Committed'
      BY <2>2, SMTT(60) DEF Committed
    <2>4. table' # None => config \cap table' # None
      <3>1. config \subseteq Assignments
        BY Constants
      <3> QED
        BY <3>1, Constants
    <2> QED
      BY <2>2, <2>3, <2>4 DEF TableInv
  <1> QED
    BY <1>1, <1>2, <1>3, <1>4, <1>5, <1>6, <1>7, OtherSteps
=============================================================================
