----------------------------- MODULE Forwarding -----------------------------
(***************************************************************************)
(* What the rules, routes and marks that PolyWAN installs do to the        *)
(* packets of a connection: the chains of nft.rs, the rules and tables of  *)
(* plan.rs and the active set of select.rs, while paths come and go and    *)
(* reloads add and remove uplinks and policies.  A packet enters, is       *)
(* routed and leaves in separate steps, with others of the same connection *)
(* under way.                                                              *)
(*                                                                         *)
(* Simplifications.  One family and one connection: connections meet only  *)
(* in the kernel's tables.  A pass is three steps: what comes before the   *)
(* replacement of the nftables table, the replacement and what comes after *)
(* (Reconcile has each operation, and failures).  An uplink keeps its      *)
(* interface and has one address.  Untracked packets, multicast and        *)
(* broadcast are not marked; source NAT does not change the path.          *)
(***************************************************************************)
EXTENDS Layout, FiniteSets

CONSTANTS
  Ids,            \* uplinks
  Slots,          \* packets under way
  Kinds,          \* of connections: from, uplink
  Configs,        \* uplinks, priority (0 for none), policy of the connection, all_down
  TableBase, PriorityBase,
  MaxChanges,     \* bound: changes of paths, configuration and main
  Free, Early, Pinned, Bypassed

ASSUME ForwardingAssumption ==
  /\ Ids \subseteq UplinkIds
  /\ accepts_table_base(TableBase) /\ accepts_priority_base(PriorityBase)
  /\ MaxChanges \in Nat
  /\ Free \notin {Early, Pinned, Bypassed} /\ Early \notin {Pinned, Bypassed} /\ Pinned # Bypassed

\* Connections through, to or from an uplink have one.
ASSUME KindsAssumption ==
  Kinds \subseteq [from : {"lan", "router"}, uplink : {0}]
                    \cup [from : {"in", "served", "bound", "probe"}, uplink : Ids]

ASSUME ConfigsAssumption ==
  Configs \subseteq
    [uplinks : SUBSET Ids, priority : [Ids -> Nat],
     policy : [uplink : {0} \cup Ids, fallback : {"balance", "block"}],
     all_down : {"ready", "keep"}]

VARIABLES
  kind,       \* the connection's
  config,     \* the running configuration
  nft,        \* the configuration of the nftables table
  ruled,      \* the uplinks with lookup rules
  addressed,  \* the uplinks with source rules
  paths,      \* each path: absent, unready (with an address), drained, down or up
  active,     \* the active set
  installed,  \* paths and active set as routes, by table
  covered,    \* 0, or the uplink of main's route to the destination (not a default route)
  ct,         \* the field of the connection's mark
  packet,     \* under way: field, egress, and when it entered (history)
  out,        \* history: how the last packet left
  changes     \* so far

vars == <<kind, config, nft, ruled, addressed, paths, active, installed, covered, ct, packet, out, changes>>
kernel == <<nft, ruled, addressed, installed, covered>>
daemon == <<config, paths, active>>

PathStates == {"absent", "unready", "drained", "down", "up"}

-----------------------------------------------------------------------------
(* select.rs                                                               *)

Eligible(c, states) == {u \in c.uplinks : c.priority[u] > 0 /\ states[u] \in {"down", "up"}}

active_set(c, states, previous) ==
  LET candidates == Eligible(c, states)
      healthy == {u \in candidates : states[u] = "up"}
      BestGroup(pool) == {u \in pool : \A v \in pool : c.priority[u] <= c.priority[v]}
  IN  CASE healthy # {} -> BestGroup(healthy)
        [] healthy = {} /\ c.all_down = "ready" -> BestGroup(candidates)
        [] healthy = {} /\ c.all_down = "keep" -> candidates \cap previous

-----------------------------------------------------------------------------
(* plan.rs: routes and rules.                                              *)

Tables == {[purpose |-> p, id |-> u] : p \in Purposes, u \in Ids} \cup {[purpose |-> "balancing", id |-> 0]}

\* Mutant: the path tables follow the policy tables.
HasRoute_up(u, purpose) == paths[u] = "up"

\* Mutant: drained uplinks keep their policy routes.
HasRoute_drained(u, purpose) == paths[u] \in (IF purpose = "path" THEN {"drained", "down", "up"} ELSE {"drained", "up"})

HasRoute(u, purpose) == paths[u] \in (IF purpose = "path" THEN {"drained", "down", "up"} ELSE {"up"})

\* The next hops of each table.
plan ==
  [t \in Tables |-> IF t.purpose = "balancing" THEN active
                    ELSE IF t.id \in config.uplinks /\ HasRoute(t.id, t.purpose) THEN {t.id} ELSE {}]

\* The routes of a pass before the table is replaced: without the paths not assigned
\* in it; path routes go after their rules.
before ==
  [t \in Tables |-> IF t.purpose # "path" THEN plan[t] \cap nft.uplinks
                    ELSE IF t.id \in config.uplinks THEN plan[t] ELSE installed[t]]

\* The bits of a value of the field.
Bits == [v \in 0..255 |-> {k \in 0..7 : (v \div 2^k) % 2 = 1}]
AllBits == 0..7
HighBits == {6, 7}

Rule(name, id, mask, mark, from, lookup) ==
  [priority |-> Priority(PriorityBase, name, id), name |-> name, mask |-> mask, mark |-> mark,
   from |-> from, table |-> lookup]

None == [purpose |-> "none", id |-> 0]
Main == [purpose |-> "main", id |-> 0]
Table(purpose, id) == [purpose |-> purpose, id |-> id]

LookupRules(u) ==
  {Rule("probe", u, AllBits, Bits[FieldValue("probe", u)], 0, Table("path", u)),
   Rule("path", u, AllBits, Bits[FieldValue("path", u)], 0, Table("path", u)),
   Rule("balance", u, AllBits, Bits[FieldValue("balance", u)], 0, Table("balance", u)),
   Rule("block", u, AllBits, Bits[FieldValue("block", u)], 0, Table("block", u))}

\* Mutant: one rule for the ids that fit in five bits.
PathGuards_five == {Rule("path guard", 0, HighBits \cup {k}, {k}, 0, None) : k \in 0..4}

\* Any path value, as one rule for each of its bits.
PathGuards == {Rule("path guard", 0, HighBits \cup {k}, {k}, 0, None) : k \in 0..5}

\* Mutant: packets of the block class go on.
Guards_path == {Rule("probe guard", 0, HighBits, Bits[ClassBits("probe")], 0, None)} \cup PathGuards

Guards ==
  {Rule("probe guard", 0, HighBits, Bits[ClassBits("probe")], 0, None),
   Rule("block guard", 0, HighBits, Bits[ClassBits("block")], 0, None)} \cup PathGuards

LastRules ==
  {Rule("balancing", 0, {}, {}, 0, Table("balancing", 0)), Rule("final guard", 0, {}, {}, 0, None)}

\* Source rule and guard of the uplink's address.
source_rules(u) ==
  {Rule("source", u, AllBits, {}, u, Table("path", u)), Rule("source guard", 0, AllBits, {}, u, None)}

rules ==
  (UNION {LookupRules(u) : u \in ruled}) \cup (UNION {source_rules(u) : u \in addressed}) \cup Guards \cup LastRules
    \cup {Rule("main bypass", 0, {}, {}, 0, Main)}

-----------------------------------------------------------------------------
(* The kernel: the first rule that matches and finds a route, or rejects.  *)

Nexthops(t) == IF t = Main THEN (IF covered = 0 THEN {} ELSE {covered}) ELSE installed[t]

Decides(r, field, from) ==
  /\ r.from \in {0, from}
  /\ Bits[field] \cap r.mask = r.mark
  /\ r.table = None \/ Nexthops(r.table) # {}

\* The ways out: an uplink, "rejected", or main's default route.
Routes(field, from) ==
  LET deciding == {r \in rules : Decides(r, field, from)}
      first == CHOOSE r \in deciding : \A q \in deciding : r.priority <= q.priority
  IN  IF deciding = {} THEN {[via |-> "default", to |-> 0]}
      ELSE IF first.table = None THEN {[via |-> "rejected", to |-> 0]}
      ELSE {[via |-> first.table.purpose, to |-> u] : u \in Nexthops(first.table)}

-----------------------------------------------------------------------------
(* nft.rs: the chains.                                                     *)

\* restore_all: the path value of the connection, for every id.
Restored == ct

\* The policy of a new connection from a downlink.
policy ==
  IF nft.policy.uplink = 0 THEN 0 ELSE FieldValue(nft.policy.fallback, nft.policy.uplink)

\* Chain prerouting, for a packet from a downlink.
Prerouting == IF Restored # 0 THEN Restored ELSE IF kind.from = "lan" THEN policy ELSE 0

IsProbe(field) == Bits[field] \cap HighBits = Bits[ClassBits("probe")]

\* Chain output, for a packet of a socket with this mark.
Output(mark) == IF IsProbe(mark) THEN mark ELSE Restored

\* The sockets of the router: probes set the mark; a connection has the address that
\* it is bound to, was reached at or left from first.
Local == kind.from \in {"router", "bound", "served", "probe"}
Mark == IF kind.from = "probe" THEN FieldValue("probe", kind.uplink) ELSE 0
Source == IF kind.from = "router" THEN ct ELSE IF Local THEN kind.uplink ELSE 0

\* The value that a connection is assigned.
Assigned(u) == FieldValue("path", u)

\* Packets to the outside are replies.
Inbound == kind.from \in {"in", "served"}

\* Chain postrouting: the first packet assigns the path that it leaves through.
Assigns(field, u) == ~IsProbe(field) /\ ct = 0 /\ ~Inbound /\ u \in nft.uplinks

-----------------------------------------------------------------------------
(* The daemon.                                                             *)

Change == changes < MaxChanges /\ changes' = changes + 1

\* A path changes, and the State task selects the active set.
Observe(u, state) ==
  /\ paths[u] # state
  /\ paths' = [paths EXCEPT ![u] = state]
  /\ active' = active_set(config, paths', active)
  /\ Change
  /\ UNCHANGED <<kind, config, kernel, ct, packet, out>>

\* A reload, also before the last one is applied.
Reload(c) ==
  /\ c # config
  /\ config' = c
  /\ paths' = [u \in Ids |-> IF u \in c.uplinks THEN paths[u] ELSE "absent"]
  /\ active' = active_set(c, paths', active)
  /\ Change
  /\ UNCHANGED <<kind, kernel, ct, packet, out>>

\* The phases of a pass: up to the nftables step, the step, and the others.
Addressed == {u \in config.uplinks : paths[u] # "absent"}

Prepare ==
  /\ nft # config
  /\ installed' = before /\ ruled' = ruled \cup config.uplinks /\ addressed' = addressed \cup Addressed
  /\ UNCHANGED <<kind, daemon, nft, covered, ct, packet, out, changes>>

Replace ==
  /\ nft # config
  /\ installed = before /\ config.uplinks \subseteq ruled /\ Addressed \subseteq addressed
  /\ nft' = config
  /\ UNCHANGED <<kind, daemon, ruled, addressed, installed, covered, ct, packet, out, changes>>

Complete ==
  /\ nft = config
  /\ installed' = plan /\ ruled' = config.uplinks /\ addressed' = Addressed
  /\ UNCHANGED <<kind, daemon, nft, covered, ct, packet, out, changes>>

\* Another program adds or removes a route to the destination in main.
MainChanges(u) ==
  /\ covered # u /\ covered' = u
  /\ Change
  /\ UNCHANGED <<kind, daemon, nft, ruled, addressed, installed, ct, packet, out>>

-----------------------------------------------------------------------------
(* Packets.                                                                *)

NoPacket == [at |-> Free, field |-> 0, to |-> 0, via |-> "none"]

\* A connection that comes in through its uplink.
Arrive ==
  /\ Inbound /\ ct = 0 /\ kind.uplink \in nft.uplinks
  /\ ct' = Assigned(kind.uplink)
  /\ UNCHANGED <<kind, daemon, kernel, packet, out, changes>>

\* A packet to the outside gets its mark: forwarded in prerouting; of the router in
\* output, after a first lookup that may already reject it.
Enter(s) ==
  /\ packet[s].at = Free
  /\ Inbound /\ ct = 0 => kind.uplink \notin nft.uplinks
  /\ Local => \E r \in Routes(Mark, Source) : r.via # "rejected"
  /\ packet' = [packet EXCEPT ![s] =
       [at |-> IF ct = 0 THEN Early ELSE Pinned,
        field |-> IF Local THEN Output(Mark) ELSE Prerouting, to |-> 0, via |-> "none"]]
  /\ UNCHANGED <<kind, daemon, kernel, ct, out, changes>>

Route(s) ==
  /\ packet[s].at # Free /\ packet[s].via = "none"
  /\ \E r \in Routes(packet[s].field, Source) :
       packet' = [packet EXCEPT ![s] =
         [at |-> IF r.via = "main" THEN Bypassed ELSE packet[s].at, field |-> packet[s].field,
          to |-> r.to, via |-> r.via]]
  /\ UNCHANGED <<kind, daemon, kernel, ct, out, changes>>

Leave(s) ==
  /\ packet[s].via # "none"
  /\ packet' = [packet EXCEPT ![s] = NoPacket]
  /\ out' = packet[s].to
  /\ ct' = IF packet[s].via # "rejected" /\ Assigns(packet[s].field, packet[s].to)
           THEN Assigned(packet[s].to) ELSE ct
  /\ UNCHANGED <<kind, daemon, kernel, changes>>

-----------------------------------------------------------------------------
\* Any paths, with what is planned for them installed.
Init ==
  /\ kind \in Kinds /\ config \in Configs
  /\ paths \in {p \in [Ids -> PathStates] : \A u \in Ids \ config.uplinks : p[u] = "absent"}
  /\ active = active_set(config, paths, {})
  /\ nft = config /\ ruled = config.uplinks /\ addressed = Addressed /\ installed = plan
  /\ covered = 0 /\ ct = 0 /\ out = 0 /\ changes = 0
  /\ packet = [s \in Slots |-> NoPacket]

Daemon ==
  \/ \E u \in config.uplinks, state \in PathStates : Observe(u, state)
  \/ \E c \in Configs : Reload(c)
  \/ Prepare \/ Replace \/ Complete

Next ==
  \/ Daemon \/ Arrive
  \/ \E u \in {0} \cup Ids : MainChanges(u)
  \/ \E s \in Slots : Enter(s) \/ Route(s) \/ Leave(s)

Spec == Init /\ [][Next]_vars

-----------------------------------------------------------------------------
(* Properties.                                                             *)

TypeOK ==
  /\ active \subseteq Ids /\ ruled \subseteq Ids /\ covered \in {0} \cup Ids
  /\ ct \in {0} \cup Ids
  /\ \A s \in Slots : packet[s].field \in 0..255 /\ packet[s].to \in {0} \cup Ids

\* INV-2 and INV-5: marks, rules and routes implement Pinning: a packet that enters
\* after the assignment leaves through its path or is rejected, whatever happens
\* to health, active set, drains, policies and configured uplinks meanwhile.
P == INSTANCE Pinning WITH
       path <- ct,
       packets <- [s \in Slots |-> packet[s].at],
       out <- out

ImplementsPinning == P!PSpec

\* FR-POL-1: a packet with the value of a policy that blocks leaves through the uplink
\* of that policy or not at all, also while the policy is removed.
BlockHolds ==
  \A s \in Slots, u \in Ids :
    packet[s].field = FieldValue("block", u) => packet[s].via \in {"none", "rejected", "main"} \/ packet[s].to = u

\* INV-6: probes leave through their uplink only, main's routes included, and
\* their connection is never assigned a path.
ProbesStay ==
  kind.from = "probe" =>
    /\ ct = 0
    /\ \A s \in Slots : packet[s].via \in {"none", "rejected"} \/ packet[s].to = kind.uplink

HasPath(u) == paths[u] \in {"drained", "down", "up"}

\* INV-5: a packet of an assigned path is not rejected while the path is ready and
\* its rules and route are installed, drained and unhealthy paths included.
ReadyPathServes ==
  [][\A s \in Slots :
       LET u == packet[s].field IN
       ( /\ u \in ruled /\ covered = 0
         /\ HasPath(u) /\ installed = plan
         /\ packet[s].via = "none" /\ packet'[s].via # "none")
       => packet'[s].to = u]_vars

\* FR-SEL-3: once its routes are updated, a drained uplink takes no packet of a new
\* connection that is not bound to it, neither by balancing nor by a policy.
DrainTakesNone ==
  [][\A s \in Slots :
       ( /\ kind.from \in {"lan", "router"} /\ packet[s].at = Early /\ ct = 0
         /\ installed = plan /\ covered = 0
         /\ packet[s].via = "none" /\ packet'[s].via \notin {"none", "rejected"})
       => paths[packet'[s].to] # "drained"]_vars
=============================================================================
