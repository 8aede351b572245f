----------------------------- MODULE MCObserve ------------------------------
(***************************************************************************)
(* What the daemon knows of the kernel, on small instances: the view that  *)
(* dumps and notifications keep (View), and what is discovered from        *)
(* addresses and routes whose lifetimes end unannounced (Discovery).  In a *)
(* behaviour one of the two, the focus, moves.                             *)
(***************************************************************************)
EXTENDS View

CONSTANTS
  Family, Uplinks, discovery_tables, Foreign, Systems, Advertised, Lifetimes, MaxTime,  \* of Discovery
  MaxDisturbances   \* bound: events, advertisements and changes of settings

VARIABLES
  focus,
  now, wan, system, handling, pending, due, ra, overdue, expiry_checked, dirty, stage,
  unapplied, discovered, missed,   \* of Discovery
  disturbances

D == INSTANCE Discovery WITH kernel <- wan, reread <- overdue, pass <- stage

Up(i, source, gateway, onlink) == [interface |-> i, source |-> source, gateway |-> gateway, gateway_onlink |-> onlink]
MCUplinks == <<Up(1, {}, {}, FALSE), Up(2, {12}, {21}, FALSE)>>
MCTables == <<254, 9>>

Link(usable, ptp) == [usable |-> usable, point_to_point |-> ptp]
Addr(a, i) == [address |-> a, index |-> i, usable |-> TRUE, deprecated |-> FALSE, temporary |-> FALSE,
               permanent |-> TRUE, secondary |-> FALSE]
Hop(i, g) == [index |-> i, gateway |-> {g}, onlink |-> FALSE, alive |-> TRUE]
Default(table, metric, hops) ==
  [table |-> table, metric |-> metric, preference |-> 1, unicast |-> TRUE, own |-> FALSE, ra |-> FALSE,
   expires |-> {}, nexthops |-> hops, nexthop_id |-> {}]
Ra(i) == [Default(254, 100, {Hop(i, 10 + i)}) EXCEPT !.ra = TRUE]
MCAdvertised == [i \in {1} |-> Ra(i)]

Nexthops == [id \in {1, 2} |-> [group |-> IF id = 2 THEN {1} ELSE {}, index |-> {1}, gateway |-> {22}, onlink |-> TRUE, alive |-> TRUE]]

TwoLinks == [i \in {1, 2} |-> Link(TRUE, FALSE)]

\* The first uplink prefers its permanent address.
Base == [links |-> TwoLinks, addresses |-> {Addr(11, 1), [Addr(9, 1) EXCEPT !.permanent = FALSE], Addr(12, 2)},
         connected |-> {<<2, 21>>}, routes |-> {}, nexthops |-> Nexthops]

\* The addresses of the first uplink: deprecated and temporary, which it cannot use; on
\* both links.
Addresses ==
  {{[Addr(11, 1) EXCEPT !.deprecated = TRUE], [Addr(10, 1) EXCEPT !.temporary = TRUE], Addr(12, 2)},
   {Addr(11, 1), Addr(11, 2), Addr(12, 2)}}

\* Default routes that are not advertised: in either table, with a metric above the
\* advertised one's or below; of a nexthop object.  The second uplink loses its own.
Routes ==
  {{Default(254, 200, {Hop(1, 20)}), Default(9, 1, {[Hop(1, 19) EXCEPT !.alive = FALSE], Hop(1, 30)})},
   {[Default(254, 1, {Hop(1, 22)}) EXCEPT !.nexthop_id = {1}]}}

\* The first uplink has its route from advertisements, or none.
Timed == {[Base EXCEPT !.routes = r] : r \in {{}, {[Ra(1) EXCEPT !.expires = {2}]}}}

MCSystems ==
  Timed \cup {[Base EXCEPT !.links[1].usable = FALSE]}
        \cup {[Base EXCEPT !.addresses = a] : a \in Addresses}
        \cup {[Base EXCEPT !.routes = r, !.connected = {}] : r \in Routes}

-----------------------------------------------------------------------------
discovery == <<now, wan, system, handling, pending, due, ra, overdue, expiry_checked, dirty, stage,
               unapplied, discovered, missed, disturbances>>
all == <<focus, vars, discovery>>

ObserveInit ==
  /\ focus \in {"view", "discovery"}
  /\ Init /\ (focus # "view" => kernel = {})
  /\ D!Init /\ wan \in (IF focus = "discovery" THEN Timed ELSE {Base})
  /\ disturbances = 0

ViewNext == focus = "view" /\ Next /\ UNCHANGED <<focus, discovery>>

DiscoveryNext ==
  /\ focus = "discovery" /\ UNCHANGED <<focus, vars>>
  /\ \/ /\ disturbances < MaxDisturbances /\ disturbances' = disturbances + 1
        /\ \/ \E s \in Systems : D!Change(s)
           \/ \E i \in DOMAIN Advertised, lifetime \in Lifetimes, heard \in BOOLEAN :
                D!Advertise(i, lifetime, heard)
           \/ D!Unapplied
     \/ /\ UNCHANGED disturbances
        /\ \/ \E a \in handling : D!Handled(a)
           \/ \E i \in ra : D!router_advertisement(i)
           \/ D!Collect \/ D!WindowEnds \/ D!Step \/ D!full_reconciliation \/ D!Tick

\* A pass, a dump and the kernel's handling go on; the event loop takes each kind of
\* event in the end.
ObserveFairness ==
  /\ WF_vars(focus = "view" /\ DaemonNext)
  /\ SF_vars(focus = "view" /\ receive) /\ SF_vars(focus = "view" /\ full_reconciliation)
  /\ WF_discovery(focus = "discovery" /\ UNCHANGED disturbances /\ D!Step)
  /\ SF_discovery(focus = "discovery" /\ UNCHANGED disturbances /\ D!full_reconciliation)
  /\ WF_discovery(focus = "discovery" /\ UNCHANGED disturbances /\ \E a \in handling : D!Handled(a))

ObserveSpec ==
  ObserveInit /\ [][ViewNext \/ DiscoveryNext]_all /\ ObserveFairness

-----------------------------------------------------------------------------
(* The properties of the parts; the safety properties of View keep their   *)
(* names.                                                                  *)

\* FR-DISC-5: when time passes and no advertisement was missed, what the daemon has
\* discovered is what the kernel's own lifetimes give.
DiscoveryIsAccurate == D!DiscoveryIsAccurate

\* FR-REC-6, FR-COEX-3, FR-COEX-4: once others stop, the view becomes exact, PolyWAN's
\* routes are all installed and the conflict is over; and what is discovered is what the
\* kernel has, also after missed advertisements.
ObservationSettles ==
  <>[]/\ focus = "view" => Settled
      /\ focus = "discovery" => D!Accurate
=============================================================================
