------------------------------ MODULE Discovery -----------------------------
(***************************************************************************)
(* Discovery of the paths of a family (discover.rs): which are ready, with *)
(* which source and next hop, from the observed system; and the lifetimes  *)
(* of advertised routes, which the kernel changes without a notification   *)
(* (ra.rs; daemon.rs, router_advertisement, reread_expired, step).         *)
(*                                                                         *)
(* An optional value is a set: empty, or with the value.  An interface is  *)
(* known by its index, addresses and gateways by numbers.  Notified        *)
(* changes reach the view at once: module View is about notifications.     *)
(* Time counts in units longer than a pass and the listener's window, and  *)
(* than the clock tick within which a dump shows an expiry as none         *)
(* (keep_expiry).  Advertisements are IPv6's and the listener's interfaces *)
(* are the uplinks', so that those two tests of router_advertisement are   *)
(* always true.                                                            *)
(***************************************************************************)
EXTENDS Naturals, Sequences, FiniteSets

CONSTANTS
  Family,            \* v4 or v6
  Uplinks,           \* settings of the path of each uplink
  discovery_tables,  \* sequence of tables
  Foreign,           \* gateways of the other family
  Systems,           \* what the links, addresses and routes may be
  Advertised,        \* the default route that an interface's advertisements set
  Lifetimes,         \* the lifetimes they announce
  MaxTime            \* bound

VARIABLES
  now,
  kernel, system,    \* what is, and what the daemon has observed
  handling,          \* advertisements that the kernel has not handled yet
  pending, due,      \* the listener: interfaces of its window, whether one is open
  ra,                \* the reports that wait for the daemon
  reread,            \* the tables to read again
  expiry_checked,
  dirty, pass,       \* what the daemon does
  unapplied,         \* global settings wait for their lane
  discovered,
  missed    \* history: whether the last read may lack an advertisement

vars == <<now, kernel, system, handling, pending, due, ra, reread, expiry_checked, dirty, pass, unapplied, discovered, missed>>

Keys == DOMAIN Uplinks

-----------------------------------------------------------------------------
(* discover.rs                                                             *)

\* a before b, by their first difference.
Precedes(a, b) ==
  a = b \/ \E i \in DOMAIN a : a[i] < b[i] /\ \A j \in 1..(i - 1) : a[j] = b[j]

Bit(b) == IF b THEN 1 ELSE 0

\* The value of S with the least key, if any.
Least(S, key) ==
  IF S = {} THEN {} ELSE {CHOOSE a \in S : \A b \in S : Precedes(key[a], key[b])}

static_source_elsewhere(s, p, index) ==
  {a.address : a \in {a \in s.addresses : a.address \in p.source /\ a.index \notin index /\ a.usable}}

auto_source(on_link) ==
  LET steady == {a \in on_link : ~a.temporary /\ ~a.deprecated}
      key    == [a \in steady |-> <<Bit(~a.permanent), Bit(a.secondary), a.address>>]
  IN  {a.address : a \in Least(steady, key)}

\* FR-DISC-4: a connected route of the interface in the main table covers the gateway.
connected(s, index, gw) == <<index, gw>> \in s.connected

expired(r, time) == \E t \in r.expires : t <= time

candidates(s, table, time) ==
  {r \in s.routes : r.table = table /\ r.unicast /\ ~r.own /\ ~expired(r, time)}

\* The gateways of a default route on the interface: of its nexthop object, or of its own
\* next hops.
all_gateways(s, r, index) ==
  IF r.nexthop_id # {}
  THEN {[gateway |-> g, onlink |-> s.nexthops[id].onlink] :
          <<id, g>> \in {<<id, g>> \in r.nexthop_id \X UNION {s.nexthops[i].gateway : i \in DOMAIN s.nexthops} :
            /\ id \in DOMAIN s.nexthops /\ g \in s.nexthops[id].gateway
            /\ s.nexthops[id].group = {} /\ s.nexthops[id].alive /\ s.nexthops[id].index = {index}}}
  ELSE UNION {{[gateway |-> g, onlink |-> h.onlink] : g \in h.gateway} :
                h \in {h \in r.nexthops : h.index = index /\ h.alive}}

route_gateways(s, r, index) == {h \in all_gateways(s, r, index) : h.gateway \notin Foreign}

auto_gateway(s, index, time) ==
  LET hops == UNION {UNION {{[metric |-> r.metric, preference |-> r.preference, order |-> i, hop |-> h] :
                               h \in route_gateways(s, r, index)} :
                              r \in candidates(s, discovery_tables[i], time)} : i \in DOMAIN discovery_tables}
      key  == [c \in hops |-> <<c.metric, 2 - c.preference, c.order, c.hop.gateway>>]
  IN  {c.hop : c \in Least(hops, key)}

\* A default route through a group of nexthops uses the interface.
group_routes(s, index, time) ==
  \E i \in DOMAIN discovery_tables : \E r \in candidates(s, discovery_tables[i], time) : \E id \in r.nexthop_id :
    /\ id \in DOMAIN s.nexthops /\ s.nexthops[id].group # {}
    /\ \/ \E h \in r.nexthops : h.index = index
       \/ \E m \in s.nexthops[id].group \cap DOMAIN s.nexthops : s.nexthops[m].index = {index}

NotReady(reason, local) ==
  [ready |-> {}, reason |-> reason, local |-> local, gateway_missing |-> FALSE, group_only |-> FALSE]

discover_path(p, s, time) ==
  IF p.interface \notin DOMAIN s.links
  THEN NotReady("interface_removed", static_source_elsewhere(s, p, {}))
  ELSE LET link == s.links[p.interface]
           index == p.interface
           on_link == {a \in s.addresses : a.index = index /\ a.usable}
           local == {a.address : a \in on_link} \cup static_source_elsewhere(s, p, {index})
           point_to_point == Family = "v4" /\ link.point_to_point
           automatic == p.gateway = {} /\ ~point_to_point
           auto_hop == IF automatic /\ link.usable THEN auto_gateway(s, index, time) ELSE {}
           gateway_missing == automatic /\ link.usable /\ auto_hop = {}
           source == IF p.source = {} THEN auto_source(on_link)
                     ELSE {a.address : a \in {a \in s.addresses : a.address \in p.source /\ a.usable /\ ~a.deprecated}}
           hop == IF p.gateway # {}
                  THEN {[gateway |-> g, onlink |-> p.gateway_onlink] :
                          g \in {g \in p.gateway : p.gateway_onlink \/ connected(s, index, g)}}
                  ELSE IF point_to_point THEN {[gateway |-> 0, onlink |-> FALSE]} ELSE auto_hop
           reason == IF ~link.usable THEN "carrier_lost"
                     ELSE IF source = {} THEN "address_lost"
                     ELSE IF hop = {} THEN "gateway_lost" ELSE "none"
       IN  [NotReady(reason, local) EXCEPT
              !.ready = IF reason = "none" THEN {[source |-> a, hop |-> h] : a \in source, h \in hop} ELSE {},
              !.gateway_missing = gateway_missing,
              !.group_only = gateway_missing /\ group_routes(s, index, time)]

\* Two paths with the same address: neither is ready.
conflicted(paths) == {k \in Keys : \E j \in Keys \ {k} : paths[j].local \cap paths[k].local # {}}

discover(s, time) ==
  LET paths == [k \in Keys |-> discover_path(Uplinks[k], s, time)]
  IN  [k \in Keys |-> IF k \in conflicted(paths)
                      THEN [paths[k] EXCEPT !.ready = {}, !.reason = "address_conflict"] ELSE paths[k]]

-----------------------------------------------------------------------------
(* The kernel and the listener.                                            *)

Tables == {discovery_tables[i] : i \in DOMAIN discovery_tables}

\* The advertised routes that links carry.
Carried(routes, links) ==
  {r \in routes : r.ra /\ \A h \in r.nexthops : h.index \in DOMAIN links /\ links[h.index].usable}

\* Links, addresses and other routes change, with notifications.  The advertised routes of
\* a link that is lost go without, and a change of links or addresses has the discovery
\* tables read again.
Change(s) ==
  /\ kernel' = [s EXCEPT !.routes = {r \in @ : ~r.ra} \cup Carried(kernel.routes, s.links)]
  /\ system' = [s EXCEPT !.routes = {r \in @ : ~r.ra} \cup {r \in system.routes : r.ra}]
  /\ reread' = IF <<s.links, s.addresses>> = <<system.links, system.addresses>> THEN reread ELSE Tables
  /\ dirty' = TRUE
  /\ UNCHANGED <<now, handling, pending, due, ra, expiry_checked, pass, unapplied, discovered, missed>>

\* An advertisement arrives.  The listener's socket gets its copy, unless its buffer is
\* full, before the kernel handles it.
Advertise(i, lifetime, heard) ==
  /\ i \in DOMAIN kernel.links
  /\ handling' = handling \cup {[index |-> i, lifetime |-> lifetime, first |-> heard /\ ~due]}
  /\ pending' = IF heard THEN pending \cup {i} ELSE pending
  /\ due' = (due \/ heard)
  /\ missed' = (missed \/ ~heard)
  /\ UNCHANGED <<now, kernel, system, ra, reread, expiry_checked, dirty, pass, unapplied, discovered>>

Of(routes, i) == {r \in routes : r.ra /\ \E h \in r.nexthops : h.index = i}

Renewed(i, lifetime) == [Advertised[i] EXCEPT !.expires = {now + lifetime}]

\* The kernel handles it: the creation of the route and its deletion are notified, another
\* lifetime is not.
Handled(a) ==
  LET old == Of(kernel.routes, a.index)
      new == IF a.lifetime = 0 THEN {} ELSE {Renewed(a.index, a.lifetime)}
      notified == (old = {}) # (new = {})
  IN  /\ handling' = handling \ {a}
      /\ kernel' = [kernel EXCEPT !.routes = (@ \ old) \cup new]
      /\ system' = IF notified THEN [system EXCEPT !.routes = (@ \ Of(@, a.index)) \cup new] ELSE system
      /\ dirty' = (dirty \/ notified)
      /\ UNCHANGED <<now, pending, due, ra, reread, expiry_checked, pass, unapplied, discovered, missed>>

\* An expired route is collected without a notification.
Collect ==
  /\ \E r \in kernel.routes : expired(r, now) /\ kernel' = [kernel EXCEPT !.routes = @ \ {r}]
  /\ UNCHANGED <<now, system, handling, pending, due, ra, reread, expiry_checked, dirty, pass, unapplied, discovered, missed>>

\* Mutant: what arrives is reported at once.
Elapsed_early == due

\* WINDOW after the first advertisement, which the kernel has handled by then; later ones
\* of the window it may not have.
Elapsed == due /\ \A a \in handling : ~a.first

WindowEnds ==
  /\ Elapsed
  /\ due' = FALSE /\ pending' = {} /\ ra' = ra \cup pending
  /\ missed' = (missed \/ \E a \in handling : ~a.first)
  /\ UNCHANGED <<now, kernel, system, handling, reread, expiry_checked, dirty, pass, unapplied, discovered>>

-----------------------------------------------------------------------------
(* The daemon.                                                             *)

discovery_defaults == {r \in system.routes : r.table \in Tables /\ ~r.own}

router_advertisement(i) ==
  LET tables == {r.table : r \in {r \in discovery_defaults :
                   (r.ra \/ r.expires # {}) /\ \E h \in r.nexthops : h.index = i}}
  IN  /\ pass = "idle" /\ i \in ra /\ ra' = ra \ {i}
      /\ reread' = reread \cup tables
      /\ dirty' = (dirty \/ tables # {})
      /\ UNCHANGED <<now, kernel, system, handling, pending, due, expiry_checked, pass, unapplied, discovered, missed>>

\* The global settings are found changed, and applied again.
Unapplied ==
  /\ pass = "idle" /\ unapplied' = ~unapplied /\ dirty' = TRUE
  /\ UNCHANGED <<now, kernel, system, handling, pending, due, ra, reread, expiry_checked, pass, discovered, missed>>

\* An expiry that is not handled yet (next_expiry), or an event.
Woken == dirty \/ \E r \in discovery_defaults : \E t \in r.expires : expiry_checked < t /\ t <= now

\* The tables with an expiry passed since the last check.
Overdue ==
  {r.table : r \in {r \in discovery_defaults : expired(r, now) /\ \E t \in r.expires : t > expiry_checked}}

\* step, up to reread_expired: the pass ends early if global settings wait.
Begin ==
  /\ pass = "idle" /\ Woken /\ dirty' = FALSE
  /\ IF unapplied
     THEN /\ pass' = "blocked" /\ UNCHANGED <<reread, expiry_checked>>
     ELSE /\ pass' = "reading"
          /\ reread' = reread \cup Overdue /\ expiry_checked' = now
  /\ UNCHANGED <<now, kernel, system, handling, pending, due, ra, unapplied, discovered, missed>>

\* observer::reread, without a failure (module View).
Read ==
  /\ pass = "reading" /\ pass' = "evaluating"
  /\ system' = [system EXCEPT !.routes = {r \in @ : r.table \notin reread} \cup {r \in kernel.routes : r.table \in reread}]
  /\ missed' = (missed /\ (handling # {} \/ reread # Tables))
  /\ reread' = {}
  /\ UNCHANGED <<now, kernel, handling, pending, due, ra, expiry_checked, dirty, unapplied, discovered>>

evaluate ==
  /\ pass \in {"blocked", "evaluating"} /\ pass' = "idle"
  /\ discovered' = discover(system, now)
  /\ UNCHANGED <<now, kernel, system, handling, pending, due, ra, reread, expiry_checked, dirty, unapplied, missed>>

\* Mutant: the timer is never set again.
full_reconciliation_never == FALSE

\* Every reconcile_interval.
full_reconciliation ==
  /\ pass = "idle" /\ system' = kernel /\ dirty' = TRUE
  /\ missed' = (missed /\ handling # {})
  /\ UNCHANGED <<now, kernel, handling, pending, due, ra, reread, expiry_checked, pass, unapplied, discovered>>

\* Time passes while a pass runs, or once all is done.
Tick ==
  /\ now < MaxTime /\ now' = now + 1
  /\ handling = {} /\ ~due /\ (pass = "idle" => ra = {} /\ ~Woken)
  /\ UNCHANGED <<kernel, system, handling, pending, due, ra, reread, expiry_checked, dirty, pass, unapplied, discovered, missed>>

-----------------------------------------------------------------------------
Init ==
  /\ now = 0 /\ kernel \in Systems /\ system = kernel
  /\ handling = {} /\ pending = {} /\ due = FALSE /\ ra = {} /\ reread = {} /\ expiry_checked = 0
  /\ dirty = FALSE /\ pass = "idle" /\ unapplied = FALSE
  /\ discovered = discover(system, now) /\ missed = FALSE

Step == Begin \/ Read \/ evaluate

Next ==
  \/ \E s \in Systems : Change(s)
  \/ \E i \in DOMAIN Advertised, lifetime \in Lifetimes, heard \in BOOLEAN : Advertise(i, lifetime, heard)
  \/ \E a \in handling : Handled(a)
  \/ Collect \/ WindowEnds
  \/ \E i \in ra : router_advertisement(i)
  \/ Unapplied \/ Step \/ full_reconciliation \/ Tick

Spec == Init /\ [][Next]_vars

-----------------------------------------------------------------------------
(* Properties.                                                             *)

\* FR-DISC-5: when time passes and no advertisement escaped the listener, what the daemon
\* has discovered is what the kernel's own lifetimes give, although it is told neither of
\* their refresh nor of their shortening nor of their end.
DiscoveryIsAccurate ==
  [][now' # now /\ pass = "idle" /\ ~missed /\ ~unapplied => discovered = discover(kernel, now)]_vars

\* FR-REC-6: in the end what is discovered is what is, also after missed advertisements.
Accurate == discovered = discover(kernel, now)
=============================================================================
