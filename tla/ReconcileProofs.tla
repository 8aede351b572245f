--------------------------- MODULE ReconcileProofs ---------------------------
(***************************************************************************)
(* Proofs about Reconcile, for any uplinks, interfaces, configurations and *)
(* numbers of changes and faults, when an error of nft means that nothing  *)
(* was committed, the table found at startup is known, and no reload comes *)
(* before a table is known: the routes that carry new connections only use *)
(* assigned paths, and the table only assigns marks that the rules         *)
(* interpret.  Without these conditions: the guards cover the rules.       *)
(***************************************************************************)
EXTENDS ReconcileLane

\* Leaves that name no prover are for Zenon.
USE ZenonT(60)

-----------------------------------------------------------------------------
(* Routes. *)

\* What is counted on is in the table, and in the one in flight.
LEMMA CountedIsAssigned ==
    ASSUME Typed, TableInv, PassInv, pass # None, NEW t \in MarkedTables
    PROVE  /\ ~Committed /\ table # None => pass.before[t] \subseteq table
           /\ flight # None => pass.before[t] \subseteq flight.assigns
  <1> DEFINE known == IF installed # None THEN installed ELSE nft_adopted
  <1>1. /\ pass.before[t] \subseteq cfg
        /\ Surviving # None => pass.before[t] \subseteq Surviving
    BY DEF PassInv
  <1>2. known # None => known \in SUBSET Assignments
    BY DEF Typed, TypeOK, Listings
  <1>3. CASE known = None
    <2>1. installed = None /\ nft_adopted = None
      BY <1>3
    <2> QED
      BY <1>1, <2>1 DEF TableInv
  <1>4. CASE known # None
    <2>1. ~Committed => known \subseteq table
      BY <1>4 DEF TableInv
    <2>2. Surviving = IF flight # None THEN known \cap flight.assigns ELSE known
      BY <1>4 DEF Surviving
    <2>3. Surviving # None
      <3>1. known \cap flight.assigns \in SUBSET Assignments
        BY <1>2, <1>4
      <3> QED
        BY <1>4, <2>2, <3>1, Constants
    <2> HIDE DEF known
    <2> QED
      BY <1>1, <2>1, <2>2, <2>3
  <1> QED
    BY <1>3, <1>4

LEMMA NextRoutes ==
    ASSUME IInv, [Next]_vars, TableInv'
    PROVE  RouteInv'
  <1>0. Typed /\ TypeOK /\ TableInv /\ RouteInv /\ PassInv /\ routes \in Routes
    BY DEF IInv, Typed, TypeOK
  <1>1. ASSUME \A t \in MarkedTables : routes'[t] \subseteq routes[t],
               UNCHANGED <<table, flight>>, Committed' <=> Committed
        PROVE  RouteInv'
    BY <1>0, <1>1 DEF RouteInv
  <1>2. ASSUME NEW n \in {1, 6}, NEW t \in pass.ops[n], pass # None, replace_route(n, t)
        PROVE  RouteInv'
    <2>1. /\ n \in Phases /\ First(pass.ops, n, t)
          /\ UNCHANGED <<table, flight, done>>
      BY <1>2, SMTT(60) DEF replace_route, IsNext, Succeeds, nftVars, laneVars, Phases
    <2>2. n = 1
      <3>1. n = 6 => pass.ops[5] = {}
        BY <2>1, SMTT(60) DEF First
      <3> QED
        BY <1>0, <1>2, <3>1 DEF PassInv
    <2>3. routes' = [routes EXCEPT ![t] = pass.before[t]]
      BY <1>2, <2>2 DEF replace_route
    <2>4. \A x \in MarkedTables : routes'[x] = routes[x] \/ routes'[x] = pass.before[x]
      BY <1>0, <2>3, TablesApart DEF Routes
    <2>5. \A x \in MarkedTables :
             /\ ~Committed /\ table # None => pass.before[x] \subseteq table
             /\ flight # None => pass.before[x] \subseteq flight.assigns
      BY <1>0, <1>2, CountedIsAssigned
    <2>6. Committed' <=> Committed
      BY <2>1, CommittedKept
    <2> QED
      BY <1>0, <2>1, <2>4, <2>5, <2>6 DEF RouteInv
  <1>3. ASSUME NEW n, NEW t, delete_route(n, t)
        PROVE  RouteInv'
    <2>1. UNCHANGED <<table, flight, done>> /\ routes' = [routes EXCEPT ![t] = {}]
      BY <1>3 DEF delete_route, Succeeds, nftVars, laneVars
    <2>2. \A x \in MarkedTables : routes'[x] \subseteq routes[x]
      BY <1>0, <2>1, TablesApart DEF Routes
    <2> QED
      BY <1>1, <2>1, <2>2, CommittedKept
  <1>4. ASSUME NEW n, NEW x, operation_fails(n, x)
        PROVE  RouteInv'
    <2>1. /\ UNCHANGED <<table, flight, done>>
          /\ routes' = routes \/ routes' = [routes EXCEPT ![x] = {}]
      BY <1>4 DEF operation_fails, nftVars, laneVars
    <2>2. \A t \in MarkedTables : routes'[t] \subseteq routes[t]
      BY <1>0, <2>1, TablesApart DEF Routes
    <2> QED
      BY <1>1, <2>1, <2>2, CommittedKept
  <1>5. CASE queue_nft
    <2>1. pass # None /\ First(pass.ops, 5, NftTable)
      BY <1>5 DEF queue_nft, IsNext
    <2>2. pass.ops[1] = {} /\ pass.ops[2] = {}
      BY <2>1, SMTT(60) DEF First
    <2>3. \A t \in MarkedTables : routes[t] \subseteq cfg
      BY <1>0, <2>1, <2>2 DEF PassInv
    <2>4. flight'.assigns = cfg /\ UNCHANGED <<routes, table, done>>
      BY <1>5 DEF queue_nft, kernelVars
    <2>5. Committed' <=> Committed
      BY <2>4, CommittedKept
    <2> QED
      BY <1>0, <2>3, <2>4, <2>5 DEF RouteInv
  <1>6. ASSUME NEW ok \in BOOLEAN, nft_lane(ok)
        PROVE  RouteInv'
    <2>1. ~Committed /\ (Committed' <=> ok) /\ flight # None
          /\ Head(lane).assigns = flight.assigns
      BY <1>0, <1>6, LaneCommits
    <2>2. /\ UNCHANGED <<routes, flight>>
          /\ ~ok => table' = table \/ table' = flight.assigns
      BY <1>6, <2>1 DEF nft_lane, nftVars
    <2> QED
      BY <1>0, <2>1, <2>2 DEF RouteInv
  <1>7. CASE check_nft \/ \E ok \in BOOLEAN : nft_inspect(ok)
    <2>1. UNCHANGED <<routes, table, flight>>
      BY <1>7 DEF nft_inspect, check_nft, kernelVars, nftVars
    <2> QED
      BY <1>0, <1>1, <1>7, <2>1, InspectionsCommitNothing
  <1>8. CASE nft_applied
    <2>1. flight # None /\ flight' = None /\ UNCHANGED <<routes, table>>
      BY <1>0, <1>8, ReportTells DEF nft_applied, kernelVars
    <2>2. Committed => table = flight.assigns
      BY <1>0 DEF TableInv
    <2> QED
      BY <1>0, <2>1, <2>2 DEF RouteInv
  <1>9. ASSUME NEW config, NEW committed, Crash(config, committed)
        PROVE  RouteInv'
    <2>1. table' = table \/ (flight # None /\ table' = flight.assigns)
      BY <1>0, <1>9, CrashLeaves
    <2>2. flight' = None /\ routes' = routes
      BY <1>9 DEF Crash, Start
    <2>3. Committed => flight # None /\ table = flight.assigns
      BY <1>0, NoFlight DEF TableInv, Typed
    <2> QED
      BY <1>0, <2>1, <2>2, <2>3 DEF RouteInv
  <1>10. CASE UNCHANGED <<routes, table, flight, done>>
    BY <1>1, <1>10, CommittedKept
  <1> QED
    <2>1. UNCHANGED vars \/ step \/ retry_due \/ full_reconciliation
             => UNCHANGED <<routes, table, flight, done>>
      BY DEF vars, step, retry_due, full_reconciliation, kernelVars, nftVars, laneVars
    <2>2. \A r : add_rule(r) \/ delete_rule(r) => UNCHANGED <<routes, table, flight, done>>
      BY DEF add_rule, delete_rule, Succeeds, nftVars, laneVars
    <2>3. \A i : health_changes(i) => UNCHANGED <<routes, table, flight, done>>
      BY DEF health_changes, kernelVars, nftVars, laneVars
    <2>4. \A c, i : reload_bound(c, i) => UNCHANGED <<routes, table, flight, done>>
      BY DEF reload_bound, kernelVars, nftVars, laneVars
    <2>5. CASE Operation
      BY <1>2, <1>3, <1>5, <1>10, <2>2, <2>5 DEF Operation
    <2>6. CASE Environment
      BY <1>4, <1>6, <1>7, <1>9, <1>10, <2>1, <2>3, <2>4, <2>6 DEF Environment
    <2> QED
      BY <1>6, <1>7, <1>8, <1>10, <2>1, <2>5, <2>6 DEF Next, StateTask, Lane

-----------------------------------------------------------------------------
(* Rules. *)

\* The rules planned for a configuration interpret its marks.
LEMMA PlannedInterprets ==
    ASSUME NEW c \in Configs, PlannedRules(c) \subseteq rules
    PROVE  Interpreted(c)
  BY PlannedRulesType DEF Interpreted

LEMMA NextRules ==
    ASSUME IInv, [Next]_vars
    PROVE  RuleInv'
  <1>0. Typed /\ TypeOK /\ TableInv /\ RuleInv /\ PassInv /\ cfg \in Configs
    BY DEF IInv, Typed, TypeOK
  <1>1. ASSUME rules \subseteq rules', UNCHANGED <<table, flight>>,
               Committed' <=> Committed
        PROVE  RuleInv'
    BY <1>0, <1>1 DEF RuleInv, Interpreted
  <1>2. ASSUME pass # None, NEW r, delete_rule(r)
        PROVE  RuleInv'
    <2>1. First(pass.ops, 7, r)
      BY <1>2 DEF delete_rule, IsNext
    <2>2. pass.ops[5] = {} /\ r \in pass.ops[7]
      BY <2>1, SMTT(60) DEF First
    <2>3. flight = None /\ installed = cfg /\ r \notin PlannedRules(cfg)
      BY <1>0, <1>2, <2>2 DEF PassInv
    <2>4. ~Committed
      BY <1>0, <2>3, NoFlight DEF Typed
    <2>5. table = cfg
      <3>1. cfg # None
        BY <1>0, Constants
      <3> QED
        BY <1>0, <2>3, <2>4, <3>1 DEF TableInv
    <2>6. rules' = rules \ {r} /\ UNCHANGED <<table, flight, done>>
      BY <1>2 DEF delete_rule, Succeeds, nftVars, laneVars
    <2>7. \A a \in cfg : /\ PathLookup(a[1]) \in PlannedRules(cfg)
                         /\ ClassGuards \subseteq PlannedRules(cfg)
      BY <1>0, PlannedRulesType
    <2>8. Interpreted(cfg)
      BY <1>0, <2>4, <2>5, Constants DEF RuleInv
    <2>9. Interpreted(cfg)'
      BY <2>3, <2>6, <2>7, <2>8, <1>2
         DEF Interpreted, delete_rule, Succeeds
    <2> QED
      BY <1>2, <2>3, <2>5, <2>6, <2>9 DEF RuleInv, delete_rule, Succeeds, Interpreted
  <1>3. CASE queue_nft
    <2>1. pass # None /\ First(pass.ops, 5, NftTable)
      BY <1>3 DEF queue_nft, IsNext
    <2>2. pass.ops[4] = {}
      BY <2>1, SMTT(60) DEF First
    <2>3. Interpreted(cfg)
      BY <1>0, <2>1, <2>2, PlannedInterprets DEF PassInv
    <2>4. flight'.assigns = cfg /\ UNCHANGED <<rules, table, done>>
      BY <1>3 DEF queue_nft, kernelVars
    <2>5. Committed' <=> Committed
      BY <2>4, CommittedKept
    <2> QED
      BY <1>0, <2>3, <2>4, <2>5 DEF RuleInv, Interpreted
  <1>4. ASSUME NEW ok \in BOOLEAN, nft_lane(ok)
        PROVE  RuleInv'
    <2>1. ~Committed /\ (Committed' <=> ok) /\ flight # None
          /\ Head(lane).assigns = flight.assigns
      BY <1>0, <1>4, LaneCommits
    <2>2. /\ UNCHANGED <<rules, flight>>
          /\ ~ok => table' = table \/ table' = flight.assigns
      BY <1>4, <2>1 DEF nft_lane, nftVars
    <2> QED
      BY <1>0, <2>1, <2>2 DEF RuleInv, Interpreted
  <1>5. CASE check_nft \/ \E ok \in BOOLEAN : nft_inspect(ok)
    <2>1. UNCHANGED <<rules, table, flight>>
      BY <1>5 DEF nft_inspect, check_nft, kernelVars, nftVars
    <2> QED
      BY <1>0, <1>1, <1>5, <2>1, InspectionsCommitNothing
  <1>6. CASE nft_applied
    <2>1. flight # None /\ flight' = None /\ UNCHANGED <<rules, table>>
      BY <1>0, <1>6, ReportTells DEF nft_applied, kernelVars
    <2>2. Committed => table = flight.assigns
      BY <1>0 DEF TableInv
    <2> QED
      BY <1>0, <2>1, <2>2 DEF RuleInv, Interpreted
  <1>7. ASSUME NEW config, NEW committed, Crash(config, committed)
        PROVE  RuleInv'
    <2>1. table' = table \/ (flight # None /\ table' = flight.assigns)
      BY <1>0, <1>7, CrashLeaves
    <2>2. flight' = None /\ rules' = rules
      BY <1>7 DEF Crash, Start
    <2>3. Committed => flight # None /\ table = flight.assigns
      BY <1>0, NoFlight DEF TableInv, Typed
    <2> QED
      BY <1>0, <2>1, <2>2, <2>3 DEF RuleInv, Interpreted
  <1>8. CASE rules \subseteq rules' /\ UNCHANGED <<table, flight, done>>
    BY <1>1, <1>8, CommittedKept
  <1> QED
    <2> DEFINE U == rules \subseteq rules' /\ UNCHANGED <<table, flight, done>>
    <2>1. UNCHANGED vars \/ step \/ retry_due \/ full_reconciliation => U
      BY DEF vars, step, retry_due, full_reconciliation, kernelVars, nftVars, laneVars
    <2>2. \A n, x : replace_route(n, x) \/ delete_route(n, x) \/ operation_fails(n, x) => U
      BY SMTT(60) DEF replace_route, delete_route, operation_fails, Succeeds, nftVars, laneVars
    <2>3. \A r : add_rule(r) => U
      BY DEF add_rule, Succeeds, nftVars, laneVars
    <2>4. \A i : health_changes(i) => U
      BY DEF health_changes, kernelVars, nftVars, laneVars
    <2>5. \A c, i : reload_bound(c, i) => U
      BY DEF reload_bound, kernelVars, nftVars, laneVars
    <2>6. CASE Operation
      BY <1>2, <1>3, <1>8, <2>2, <2>3, <2>6 DEF Operation
    <2>7. CASE Environment
      BY <1>4, <1>5, <1>7, <1>8, <2>1, <2>2, <2>4, <2>5, <2>7 DEF Environment
    <2> QED
      BY <1>4, <1>5, <1>6, <1>8, <2>1, <2>6, <2>7 DEF Next, StateTask, Lane

-----------------------------------------------------------------------------
(* Passes. *)

LEMMA StepPass ==
    ASSUME Typed, step
    PROVE  PassInv'
  <1> SUFFICES ASSUME pass' # None PROVE PassInv'
    BY DEF PassInv
  <1> DEFINE less == PlannedRoutes(cfg, without(input, unassigned(cfg, Surviving)))
             want == PlannedRoutes(cfg, input)
  <1>0. TypeOK /\ cfg \in Configs /\ input \in Inputs(cfg) /\ routes \in Routes
    BY DEF Typed, TypeOK
  <1>1. /\ pass'.before = less
        /\ pass'.ops[1] = {t \in Tables : less[t] # {} /\ routes[t] # less[t]}
        /\ pass'.ops[2] = {t \in Tables \ PathTables : routes[t] # {} /\ less[t] = {}}
        /\ pass'.ops[3] \subseteq PathTables
        /\ pass'.ops[4] = PlannedRules(cfg) \ rules
        /\ pass'.ops[7] = {} \/ pass'.ops[7] = rules \ PlannedRules(cfg)
        /\ pass'.ops[8] \subseteq PathTables
        /\ flight # None => \A n \in 5..8 : pass'.ops[n] = {}
        /\ pass'.ops[5] = {} /\ flight = None =>
             /\ ~NftPending
             /\ \A t \in pass'.ops[6] : less[t] # want[t]
    BY <1>0, StepOps
  <1>2. UNCHANGED <<routes, rules, cfg, flight, installed, nft_adopted>>
    BY DEF step, kernelVars, nftVars
  <1>3. Surviving' = Surviving
    BY <1>2 DEF Surviving
  <1>4. \A t \in MarkedTables :
          /\ less[t] \subseteq cfg
          /\ Surviving # None => less[t] \subseteq Surviving
    BY <1>0, BeforeIsCounted
  <1>5. pass'.ops[5] = {} => /\ pass'.ops[6] = {}
                             /\ pass'.ops[7] # {} => flight = None /\ installed = cfg
    <2>1. CASE flight # None
      <3>1. pass'.ops[6] = {} /\ pass'.ops[7] = {}
        BY <1>1, <2>1, SMTT(60)
      <3> QED
        BY <3>1
    <2>2. ASSUME flight = None, pass'.ops[5] = {}
          PROVE  pass'.ops[6] = {} /\ installed = cfg
      <3>1. installed = cfg
        BY <1>1, <2>2 DEF NftPending
      <3>2. cfg # None
        BY <1>0, Constants
      <3>3. Surviving = cfg
        BY <2>2, <3>1, <3>2 DEF Surviving
      <3>4. less = want
        BY <1>0, <3>3, NothingNew
      <3> QED
        BY <1>1, <2>2, <3>1, <3>4
    <2> QED
      BY <2>1, <2>2
  <1> HIDE DEF less, want
  <1>6. \A t \in MarkedTables :
          /\ t \notin pass'.ops[1] \cup pass'.ops[2] => routes[t] = less[t]
          /\ t \in pass'.ops[2] => less[t] = {}
    BY <1>1, TablesApart
  <1>7. PlannedRules(cfg)' = PlannedRules(cfg)
    BY <1>2 DEF PlannedRules
  <1> QED
    BY <1>1, <1>2, <1>3, <1>4, <1>5, <1>6, <1>7 DEF PassInv

\* An operation that leaves the kernel's rules and the routes of the marked
\* tables alone, or does to them what it is meant to do, keeps the invariant.
LEMMA OperationPass ==
    ASSUME Typed, PassInv, pass # None, pass' # None,
           NEW n \in Phases \ {5, 6}, NEW x, First(pass.ops, n, x), Succeeds(n, x),
           \A t \in Tables \ {x} : routes'[t] = routes[t],
           n = 1 => rules' = rules /\ (x \in Tables => routes'[x] = pass.before[x]),
           n \in {2, 3, 8} => rules' = rules /\ (x \in Tables => routes'[x] = {}),
           n = 4 => routes' = routes /\ rules' = rules \cup {x},
           n = 7 => routes' = routes /\ rules' = rules \ {x}
    PROVE  PassInv'
  <1>0. TypeOK /\ routes \in Routes /\ x \in pass.ops[n]
    BY DEF Typed, TypeOK, First
  <1>1. /\ pass'.before = pass.before
        /\ pass'.ops[n] = pass.ops[n] \ {x}
        /\ \A m \in Phases \ {n} : pass'.ops[m] = pass.ops[m]
        /\ \A m \in Phases : pass'.ops[m] \subseteq pass.ops[m]
    BY <1>0, SucceedsPass
  <1>2. UNCHANGED <<cfg, flight, installed, nft_adopted>>
    BY DEF Succeeds, nftVars
  <1>3. Surviving' = Surviving /\ PlannedRules(cfg)' = PlannedRules(cfg)
    BY <1>2 DEF Surviving, PlannedRules
  <1>4. 1 \in Phases /\ 2 \in Phases /\ 3 \in Phases /\ 4 \in Phases
        /\ 5 \in Phases /\ 6 \in Phases /\ 7 \in Phases /\ 8 \in Phases
    BY SMTT(60) DEF Phases
  <1>5. ASSUME NEW t \in MarkedTables, t \notin pass'.ops[1] \cup pass'.ops[2]
        PROVE  routes'[t] = pass'.before[t]
    <2>1. t \in Tables /\ t \notin PathTables
      BY TablesApart
    <2>2. CASE n = 1
      <3>1. CASE t = x
        BY <1>0, <1>1, <2>1, <2>2, <3>1 DEF Routes
      <3>2. CASE t # x
        BY <1>0, <1>1, <1>4, <1>5, <2>1, <2>2, <3>2, SMTT(60) DEF Routes, PassInv
      <3> QED
        BY <3>1, <3>2
    <2>3. CASE n = 2
      <3>1. CASE t = x
        <4>1. routes'[t] = {}
          BY <1>0, <2>1, <2>3, <3>1 DEF Routes
        <4>2. pass.before[t] = {}
          BY <1>0, <2>3, <3>1 DEF PassInv
        <4> QED
          BY <1>1, <4>1, <4>2
      <3>2. CASE t # x
        BY <1>0, <1>1, <1>4, <1>5, <2>1, <2>3, <3>2, SMTT(60) DEF Routes, PassInv
      <3> QED
        BY <3>1, <3>2
    <2>4. CASE n \in {3, 8}
      <3>1. x \in PathTables
        BY <1>0, <2>4 DEF PassInv
      <3>2. routes'[t] = routes[t]
        BY <1>0, <2>1, <2>4, <3>1 DEF Routes
      <3> QED
        BY <1>1, <1>4, <1>5, <2>4, <3>2, SMTT(60) DEF PassInv
    <2>5. CASE n \in {4, 7}
      BY <1>1, <1>4, <1>5, <2>5, SMTT(60) DEF PassInv
    <2> QED
      BY <2>2, <2>3, <2>4, <2>5, SMTT(60) DEF Phases
  <1>6. PlannedRules(cfg) \subseteq rules' \cup pass'.ops[4]
    <2>1. CASE n = 4
      BY <1>1, <2>1, SMTT(60) DEF PassInv
    <2>2. CASE n = 7
      BY <1>0, <1>1, <1>4, <2>2, SMTT(60) DEF PassInv
    <2>3. CASE n \in {1, 2, 3, 8}
      BY <1>1, <1>4, <2>3, SMTT(60) DEF PassInv
    <2> QED
      BY <2>1, <2>2, <2>3, SMTT(60) DEF Phases
  <1>7. pass'.ops[5] = {} => /\ pass'.ops[6] = {}
                             /\ pass'.ops[7] # {} => flight = None /\ installed = cfg
    BY <1>1, <1>4, SMTT(60) DEF PassInv
  <1>8. \A t \in MarkedTables : t \in pass'.ops[2] => pass'.before[t] = {}
    BY <1>1, <1>4, SMTT(60) DEF PassInv
  <1>9. /\ pass'.ops[3] \cup pass'.ops[8] \subseteq PathTables
        /\ pass'.ops[7] \cap PlannedRules(cfg) = {}
    BY <1>1, <1>4, SMTT(60) DEF PassInv
  <1>10. \A t \in MarkedTables :
           /\ pass'.before[t] \subseteq cfg
           /\ Surviving # None => pass'.before[t] \subseteq Surviving
    BY <1>1 DEF PassInv
  <1> QED
    BY <1>2, <1>3, <1>5, <1>6, <1>7, <1>8, <1>9, <1>10 DEF PassInv

LEMMA NextPass ==
    ASSUME IInv, [Next]_vars
    PROVE  PassInv'
  <1>0. Typed /\ TypeOK /\ PassInv
    BY DEF IInv, Typed
  <1> SUFFICES ASSUME pass' # None PROVE PassInv'
    BY DEF PassInv
  <1>1. ASSUME UNCHANGED <<routes, rules, cfg, flight, installed, nft_adopted, pass>>
        PROVE  PassInv'
    BY <1>0, <1>1 DEF PassInv, Surviving, PlannedRules
  <1>2. CASE step
    BY <1>0, <1>2, StepPass
  <1>3. CASE Operation
    <2>0. pass # None
      BY <1>3 DEF Operation
    <2>1. ASSUME NEW n \in {1, 6}, NEW t, replace_route(n, t)
          PROVE  PassInv'
      <3>1. First(pass.ops, n, t) /\ Succeeds(n, t)
        BY <2>1 DEF replace_route, IsNext
      <3>2. n = 1
        <4> SUFFICES ASSUME n = 6 PROVE FALSE
          BY <2>1
        <4>1. pass.ops[5] = {} /\ t \in pass.ops[6]
          BY <3>1, SMTT(60) DEF First
        <4> QED
          BY <1>0, <2>0, <4>1 DEF PassInv
      <3>3. rules' = rules /\ routes' = [routes EXCEPT ![t] = pass.before[t]]
        BY <2>1, <3>2 DEF replace_route
      <3>4. /\ \A y \in Tables \ {t} : routes'[y] = routes[y]
            /\ t \in Tables => routes'[t] = pass.before[t]
        BY <1>0, <3>3 DEF TypeOK, Routes
      <3> QED
        BY <1>0, <2>0, <3>1, <3>2, <3>3, <3>4, OperationPass, SMTT(60) DEF Phases
    <2>2. ASSUME NEW n \in {2, 3, 8}, NEW t, delete_route(n, t)
          PROVE  PassInv'
      <3>1. First(pass.ops, n, t) /\ Succeeds(n, t) /\ rules' = rules
        BY <2>2 DEF delete_route, IsNext
      <3>2. /\ \A y \in Tables \ {t} : routes'[y] = routes[y]
            /\ t \in Tables => routes'[t] = {}
        BY <1>0, <2>2 DEF delete_route, TypeOK, Routes
      <3> QED
        BY <1>0, <2>0, <3>1, <3>2, OperationPass, SMTT(60) DEF Phases
    <2>3. ASSUME NEW r, add_rule(r)
          PROVE  PassInv'
      BY <1>0, <2>0, <2>3, OperationPass, SMTT(60) DEF add_rule, IsNext, Phases
    <2>4. ASSUME NEW r, delete_rule(r)
          PROVE  PassInv'
      BY <1>0, <2>0, <2>4, OperationPass, SMTT(60) DEF delete_rule, IsNext, Phases
    <2>5. ~queue_nft
      BY DEF queue_nft
    <2> QED
      BY <1>3, <2>1, <2>2, <2>3, <2>4, <2>5 DEF Operation
  <1>4. UNCHANGED vars \/ (\E ok : nft_inspect(ok) \/ nft_lane(ok)) => PassInv'
    BY <1>1 DEF vars, nft_inspect, nft_lane, kernelVars, nftVars, passVars
  <1>5. Idle => pass = None
    BY DEF Idle
  <1>6. \/ nft_applied \/ check_nft \/ retry_due \/ full_reconciliation
        \/ (\E in : health_changes(in)) \/ (\E c, in : reload_bound(c, in))
        => pass' = pass /\ Idle
    BY DEF nft_applied, check_nft, retry_due, full_reconciliation, health_changes,
           reload_bound, passVars
  <1>7. (\E n, x : operation_fails(n, x)) \/ (\E c, b : Crash(c, b)) => pass' = None
    BY DEF operation_fails, Crash, Start
  <1> QED
    BY <1>2, <1>3, <1>4, <1>5, <1>6, <1>7 DEF Next, StateTask, Lane, Environment

-----------------------------------------------------------------------------
(* The theorems. *)

LEMMA CommittedIsInFlight ==
    ASSUME LaneInv, Committed
    PROVE  flight # None
  BY DEF LaneInv, Committed

LEMMA InitIInv == Init => IInv
  <1> SUFFICES ASSUME Init PROVE IInv
    OBVIOUS
  <1>1. Typed
    BY InitTyped
  <1>2. PassInv
    BY DEF Init, PassInv
  <1>3. \A t \in MarkedTables : routes[t] = {}
    BY TablesApart DEF Init
  <1>4. table = None /\ flight = None /\ installed = None /\ nft_adopted = None
        /\ done = <<>>
    BY DEF Init
  <1>5. ~Committed
    BY <1>1, <1>4, NoFlight DEF Typed
  <1>6. TableInv
    BY <1>4, <1>5 DEF TableInv
  <1>7. RouteInv
    BY <1>3, <1>4 DEF RouteInv, Surviving
  <1>8. RuleInv
    BY <1>4, <1>5 DEF RuleInv
  <1> QED
    BY <1>1, <1>2, <1>6, <1>7, <1>8 DEF IInv

LEMMA NextIInv ==
    ASSUME Reliable, IInv, [Next]_vars
    PROVE  IInv'
  BY NextTyped, NextTable, NextRoutes, NextRules, NextPass DEF IInv

\* When nft reports faithfully whether it committed (Reliable), and the table
\* is known before the first reload, every route that carries new connections
\* only uses paths whose mark assignment the kernel's table holds: for every
\* number of uplinks, interfaces, reloads, failures and crashes.
THEOREM Balanced ==
    ASSUME Reliable
    PROVE  Spec => []BalancedIsAssigned
  <1>1. Init => IInv
    BY InitIInv
  <1>2. IInv /\ [Next]_vars => IInv'
    BY NextIInv
  <1>3. IInv => BalancedIsAssigned
    BY CommittedIsInFlight DEF IInv, Typed, TableInv, RouteInv, BalancedIsAssigned
  <1> QED
    BY <1>1, <1>2, <1>3, PTL DEF Spec

\* Under the same assumptions the table never assigns a path mark that the
\* rules do not interpret: rules are added before a table that needs them is
\* queued, and removed only when the table without them is known installed.
THEOREM LookedUpMarks ==
    ASSUME Reliable
    PROVE  Spec => []AssignedIsLookedUp
  <1>1. Init => IInv
    BY InitIInv
  <1>2. IInv /\ [Next]_vars => IInv'
    BY NextIInv
  <1>3. IInv => AssignedIsLookedUp
    BY CommittedIsInFlight
       DEF IInv, Typed, TableInv, RuleInv, Interpreted, AssignedIsLookedUp
  <1> QED
    BY <1>1, <1>2, <1>3, PTL DEF Spec

-----------------------------------------------------------------------------
(* The guards.  Nothing is assumed of nft or of reloads here: the order of *)
(* the operations of a pass is enough.                                     *)

\* The rules that are planned whatever paths the configuration has.
Guards == ClassGuards \cup {MainBypass, Balance, FinalGuard}

\* What the pass in progress still has to do to the rules.
GuardPass ==
    pass # None =>
        /\ pass.ops[4] \subseteq PlannedRules(cfg)
        /\ PlannedRules(cfg) \subseteq rules \cup pass.ops[4]
        /\ pass.ops[7] \cap PlannedRules(cfg) = {}
        /\ pass.ops[7] = {} \/ rules \subseteq PlannedRules(cfg) \cup pass.ops[7]

GuardInv == Typed /\ Covered /\ GuardPass

LEMMA RuleRanks ==
    /\ ClassGuards \subseteq Rules
    /\ MainBypass \in Rules /\ Balance \in Rules /\ FinalGuard \in Rules
    /\ \A g \in ClassGuards : install_rank(g) = 0
    /\ \A r \in Rules \ ClassGuards : install_rank(r) > 0
    /\ install_rank(MainBypass) = 2 /\ MainBypass \notin ClassGuards
    /\ install_rank(Balance) = 6 /\ Balance \notin ClassGuards
    /\ install_rank(FinalGuard) = 7 /\ FinalGuard \notin ClassGuards
    /\ \A r \in Rules : install_rank(r) \in Nat
  <1>1. ClassGuards \subseteq Rules /\ MainBypass \in Rules
        /\ Balance \in Rules /\ FinalGuard \in Rules
    BY DEF Rules
  <1>2. ASSUME NEW g \in ClassGuards
        PROVE  install_rank(g) = 0
    <2>1. /\ g \notin 1..63 /\ g # MainBypass /\ g \notin 201..263
          /\ g \notin 301..363 \cup 401..463 /\ g # Balance
      BY SMTT(60) DEF ClassGuards, ProbeGuard, PathGuard, PolicyBlockGuard, MainBypass,
                      Balance
    <2> QED
      BY <2>1 DEF install_rank
  <1>3. MainBypass \notin ClassGuards /\ Balance \notin ClassGuards
        /\ FinalGuard \notin ClassGuards
    BY SMTT(60) DEF ClassGuards, ProbeGuard, PathGuard, PolicyBlockGuard, MainBypass,
                    Balance, FinalGuard
  <1>4. install_rank(MainBypass) = 2 /\ install_rank(Balance) = 6
        /\ install_rank(FinalGuard) = 7
    BY <1>3, SMTT(60) DEF install_rank, MainBypass, Balance, FinalGuard
  <1>5. \A r : r \notin ClassGuards => install_rank(r) \in {1, 2, 3, 4, 6, 7}
    BY SMTT(60) DEF install_rank
  <1> QED
    BY <1>1, <1>2, <1>3, <1>4, <1>5, SMTT(60)

LEMMA PlannedGuards ==
    ASSUME NEW c
    PROVE  /\ c = {} => PlannedRules(c) = {}
           /\ c # {} => Guards \subseteq PlannedRules(c)
  BY DEF PlannedRules, Guards

\* A rule is added when the planned ones of lower rank are installed.
LEMMA AddCovers ==
    ASSUME GuardInv, NEW r, add_rule(r)
    PROVE  Covered'
  <1>0. pass # None /\ r \in pass.ops[4] /\ rules' = rules \cup {r}
    BY DEF add_rule, IsNext, First
  <1>1. Covered /\ cfg \in Configs /\ rules \subseteq Rules
        /\ r \in PlannedRules(cfg) /\ PlannedRules(cfg) \subseteq rules \cup pass.ops[4]
    BY <1>0 DEF GuardInv, GuardPass, Typed, TypeOK
  <1>2. Guards \subseteq PlannedRules(cfg) /\ PlannedRules(cfg) \subseteq Rules
    BY <1>1, PlannedGuards, PlannedRulesType
  <1>3. \A y \in pass.ops[4] : install_rank(r) <= install_rank(y)
    <2>1. \A y \in pass.ops[4] : \/ install_rank(r) < install_rank(y)
                                  \/ install_rank(r) = install_rank(y)
      BY SMTT(60) DEF add_rule, IsNext, First
    <2>2. pass.ops[4] \subseteq Rules
      BY <1>0, <1>2 DEF GuardInv, GuardPass
    <2> QED
      BY <1>0, <2>1, <2>2, RuleRanks, SMTT(60)
  <1>4. \A y \in PlannedRules(cfg) : install_rank(y) < install_rank(r) => y \in rules
    <2>1. \A y \in PlannedRules(cfg) : install_rank(y) \in Nat
      BY <1>2, RuleRanks
    <2> QED
      BY <1>1, <1>3, <2>1, SMTT(60)
  <1>5. rules' \ ClassGuards # {} => ClassGuards \subseteq rules'
    <2>1. CASE r \in ClassGuards
      BY <1>0, <1>1, <2>1 DEF Covered
    <2>2. CASE r \notin ClassGuards
      <3>1. \A g \in ClassGuards : install_rank(g) < install_rank(r) /\ g \in PlannedRules(cfg)
        BY <1>1, <1>2, <2>2, RuleRanks, SMTT(60) DEF Guards
      <3> QED
        BY <1>0, <1>4, <3>1
    <2> QED
      BY <2>1, <2>2
  <1>6. Balance \in rules' => MainBypass \in rules'
    <2>1. r = Balance => MainBypass \in rules
      BY <1>2, <1>4, RuleRanks, SMTT(60) DEF Guards
    <2> QED
      BY <1>0, <1>1, <2>1 DEF Covered
  <1>7. FinalGuard \in rules' => Balance \in rules'
    <2>1. r = FinalGuard => Balance \in rules
      BY <1>2, <1>4, RuleRanks, SMTT(60) DEF Guards
    <2> QED
      BY <1>0, <1>1, <2>1 DEF Covered
  <1> QED
    BY <1>5, <1>6, <1>7 DEF Covered

\* A rule is deleted when the planned ones are installed: it is none of the
\* guards, or nothing is planned and all that is left has no higher rank.
LEMMA DeleteCovers ==
    ASSUME GuardInv, NEW r, delete_rule(r)
    PROVE  Covered' /\ (FinalGuard \in rules \ rules' => cfg = {})
  <1>0. pass # None /\ r \in pass.ops[7] /\ rules' = rules \ {r}
    BY DEF delete_rule, IsNext, First
  <1>1. pass.ops[4] = {}
    BY SMTT(60) DEF delete_rule, IsNext, First
  <1>2. /\ Covered /\ rules \subseteq Rules
        /\ PlannedRules(cfg) \subseteq rules
        /\ r \notin PlannedRules(cfg)
        /\ rules \subseteq PlannedRules(cfg) \cup pass.ops[7]
    BY <1>0, <1>1 DEF GuardInv, GuardPass, Typed, TypeOK
  <1>3. CASE cfg # {}
    <2>1. Guards \subseteq PlannedRules(cfg)
      BY <1>3, PlannedGuards
    <2>2. Guards \subseteq rules'
      BY <1>0, <1>2, <2>1
    <2>3. /\ ClassGuards \subseteq rules' /\ MainBypass \in rules'
          /\ Balance \in rules' /\ FinalGuard \in rules'
      BY <2>2 DEF Guards
    <2> QED
      BY <2>3 DEF Covered
  <1>4. CASE cfg = {}
    <2>1. rules \subseteq pass.ops[7]
      BY <1>2, <1>4, PlannedGuards
    <2>2. CASE r \in rules
      <3>1. \A y \in rules : \/ removal_rank(r) < removal_rank(y)
                             \/ removal_rank(r) = removal_rank(y)
        BY <2>1, SMTT(60) DEF delete_rule, IsNext, First
      <3>2. \A y \in rules : install_rank(y) <= install_rank(r)
        BY <1>2, <2>2, <3>1, RuleRanks, SMTT(60) DEF removal_rank
      <3>3. r \in ClassGuards => rules \subseteq ClassGuards
        BY <1>2, <3>2, RuleRanks, SMTT(60)
      <3>4. r = MainBypass => Balance \notin rules
        BY <3>2, RuleRanks, SMTT(60)
      <3>5. r = Balance => FinalGuard \notin rules
        BY <3>2, RuleRanks, SMTT(60)
      <3> QED
        BY <1>0, <1>2, <1>4, <3>3, <3>4, <3>5 DEF Covered
    <2>3. CASE r \notin rules
      <3>1. rules' = rules
        BY <1>0, <2>3
      <3> QED
        BY <1>2, <3>1 DEF Covered
    <2> QED
      BY <2>2, <2>3
  <1> QED
    BY <1>3, <1>4

\* The steps that do not touch the rules.
LEMMA RulesKept ==
    ASSUME [Next]_vars
    PROVE  \/ rules' = rules
           \/ pass # None /\ \E r \in pass.ops[4] : add_rule(r)
           \/ pass # None /\ \E r \in pass.ops[7] : delete_rule(r)
  <1> DEFINE U == rules' = rules
  <1>1. UNCHANGED vars \/ step \/ retry_due \/ nft_applied \/ check_nft
           \/ full_reconciliation \/ queue_nft => U
    BY DEF vars, step, retry_due, nft_applied, check_nft, full_reconciliation,
           queue_nft, kernelVars
  <1>2. \A n, x : replace_route(n, x) \/ delete_route(n, x) \/ operation_fails(n, x) => U
    BY DEF replace_route, delete_route, operation_fails
  <1>3. \A ok : nft_lane(ok) \/ nft_inspect(ok) => U
    BY DEF nft_lane, nft_inspect, kernelVars
  <1>4. \A i : health_changes(i) => U
    BY DEF health_changes, kernelVars
  <1>5. \A c, i : reload_bound(c, i) => U
    BY DEF reload_bound, kernelVars
  <1>6. \A c, b : Crash(c, b) => U
    BY DEF Crash
  <1> HIDE DEF U
  <1>7. CASE Operation
    BY <1>1, <1>2, <1>7 DEF Operation, U
  <1>8. CASE Environment
    BY <1>1, <1>2, <1>3, <1>4, <1>5, <1>6, <1>8 DEF Environment, U
  <1> QED
    BY <1>1, <1>3, <1>7, <1>8 DEF Next, StateTask, Lane, U

\* A step keeps the rules covered, and removes the final guard only for a
\* configuration without paths.
LEMMA NextCovered ==
    ASSUME GuardInv, [Next]_vars
    PROVE  Covered' /\ (FinalGuard \in rules \ rules' => cfg = {})
  <1>1. CASE rules' = rules
    BY <1>1 DEF GuardInv, Covered
  <1>2. ASSUME NEW r, add_rule(r)
        PROVE  FinalGuard \notin rules \ rules'
    BY <1>2 DEF add_rule
  <1> QED
    BY <1>1, <1>2, AddCovers, DeleteCovers, RulesKept

LEMMA NextGuardPass ==
    ASSUME GuardInv, [Next]_vars
    PROVE  GuardPass'
  <1>0. TypeOK /\ GuardPass
    BY DEF GuardInv, Typed
  <1> SUFFICES ASSUME pass' # None PROVE GuardPass'
    BY DEF GuardPass
  <1>1. ASSUME UNCHANGED <<rules, cfg, pass>>
        PROVE  GuardPass'
    BY <1>0, <1>1 DEF GuardPass, PlannedRules
  <1>2. CASE step
    <2>1. /\ pass'.ops[4] = PlannedRules(cfg) \ rules
          /\ pass'.ops[7] = {} \/ pass'.ops[7] = rules \ PlannedRules(cfg)
      BY <1>0, <1>2, StepOps
    <2>2. UNCHANGED <<rules, cfg>>
      BY <1>2 DEF step, kernelVars
    <2>3. PlannedRules(cfg)' = PlannedRules(cfg)
      BY <2>2 DEF PlannedRules
    <2> QED
      BY <2>1, <2>2, <2>3 DEF GuardPass
  <1>3. ASSUME pass # None, NEW n \in Phases, NEW x, Succeeds(n, x),
               n # 4 /\ n # 7 => rules' = rules,
               n = 4 => rules' = rules \cup {x} /\ x \in pass.ops[4],
               n = 7 => rules' = rules \ {x} /\ x \in pass.ops[7]
        PROVE  GuardPass'
    <2>1. /\ pass'.ops[n] = pass.ops[n] \ {x}
          /\ \A m \in Phases \ {n} : pass'.ops[m] = pass.ops[m]
      BY <1>0, <1>3, SucceedsPass
    <2>2. cfg' = cfg /\ PlannedRules(cfg)' = PlannedRules(cfg)
      BY <1>3 DEF Succeeds, PlannedRules
    <2>3. 4 \in Phases /\ 7 \in Phases /\ 4 # 7
      BY SMTT(60) DEF Phases
    <2>4. CASE n = 4
      <3>1. pass'.ops[4] = pass.ops[4] \ {x} /\ pass'.ops[7] = pass.ops[7]
            /\ rules' = rules \cup {x} /\ x \in pass.ops[4]
        BY <1>3, <2>1, <2>3, <2>4
      <3> QED
        BY <1>0, <1>3, <2>2, <2>4, <3>1 DEF GuardPass
    <2>5. CASE n = 7
      <3>1. pass'.ops[7] = pass.ops[7] \ {x} /\ pass'.ops[4] = pass.ops[4]
            /\ rules' = rules \ {x} /\ x \in pass.ops[7]
        BY <1>3, <2>1, <2>3, <2>5
      <3> QED
        BY <1>0, <1>3, <2>2, <3>1 DEF GuardPass
    <2>6. CASE n # 4 /\ n # 7
      <3>1. pass'.ops[4] = pass.ops[4] /\ pass'.ops[7] = pass.ops[7] /\ rules' = rules
        BY <1>3, <2>1, <2>3, <2>6
      <3> QED
        BY <1>0, <1>3, <2>2, <3>1 DEF GuardPass
    <2> QED
      BY <2>4, <2>5, <2>6
  <1>4. CASE Operation
    <2>0. pass # None /\ ~queue_nft
      BY <1>4 DEF Operation, queue_nft
    <2>1. ASSUME NEW n \in {1, 6}, NEW t, replace_route(n, t)
          PROVE  GuardPass'
      <3>1. n \in Phases /\ n # 4 /\ n # 7
        BY <2>1, SMTT(60) DEF Phases
      <3> QED
        BY <1>3, <2>0, <2>1, <3>1 DEF replace_route
    <2>2. ASSUME NEW n \in {2, 3, 8}, NEW t, delete_route(n, t)
          PROVE  GuardPass'
      <3>1. n \in Phases /\ n # 4 /\ n # 7
        BY <2>2, SMTT(60) DEF Phases
      <3> QED
        BY <1>3, <2>0, <2>2, <3>1 DEF delete_route
    <2>3. 4 \in Phases /\ 7 \in Phases /\ 4 # 7
      BY SMTT(60) DEF Phases
    <2>4. ASSUME NEW r \in pass.ops[4], add_rule(r)
          PROVE  GuardPass'
      BY <1>3, <2>0, <2>3, <2>4 DEF add_rule
    <2>5. ASSUME NEW r \in pass.ops[7], delete_rule(r)
          PROVE  GuardPass'
      BY <1>3, <2>0, <2>3, <2>5 DEF delete_rule
    <2> QED
      BY <1>4, <2>0, <2>1, <2>2, <2>4, <2>5 DEF Operation
  <1>5. UNCHANGED vars \/ (\E ok : nft_inspect(ok) \/ nft_lane(ok)) => GuardPass'
    BY <1>1 DEF vars, nft_inspect, nft_lane, kernelVars, passVars
  <1>6. \/ nft_applied \/ check_nft \/ retry_due \/ full_reconciliation
        \/ (\E in : health_changes(in)) \/ (\E c, in : reload_bound(c, in))
        => pass' = pass /\ Idle
    BY DEF nft_applied, check_nft, retry_due, full_reconciliation, health_changes,
           reload_bound, passVars
  <1>7. Idle => pass = None
    BY DEF Idle
  <1>8. (\E n, x : operation_fails(n, x)) \/ (\E c, b : Crash(c, b)) => pass' = None
    BY DEF operation_fails, Crash, Start
  <1> QED
    BY <1>2, <1>4, <1>5, <1>6, <1>7, <1>8 DEF Next, StateTask, Lane, Environment

\* For every number of uplinks, and whatever nft reports, no operation,
\* failure, crash or reload ever leaves a lookup rule without the guards that
\* stand behind it, and no pass for a configuration with paths removes the
\* final guard (FR-REC-4, INV-3).
THEOREM Guarded == Spec => GuardsCover
  <1>1. Init => GuardInv
    BY InitTyped DEF Init, GuardInv, Covered, GuardPass
  <1>2. GuardInv /\ [Next]_vars => GuardInv'
    BY NextTyped, NextCovered, NextGuardPass DEF GuardInv
  <1>3. GuardInv /\ [Next]_vars
           => [Covered' /\ (FinalGuard \in rules \ rules' => cfg = {})]_vars
    BY NextCovered
  <1> QED
    BY <1>1, <1>2, <1>3, PTL DEF Spec, GuardsCover
=============================================================================
