------------------------------- MODULE Config -------------------------------
(***************************************************************************)
(* The configuration file: what validation refuses, what the settings      *)
(* resolve to (config/validate.rs), and the files that a start and a       *)
(* reload take up (config/mod.rs, worker.rs).                              *)
(*                                                                         *)
(* An optional key is a set: empty, or with its value.  Texts are what     *)
(* their checks tell apart: a name is well formed or not, an address has a *)
(* family and a scope, a path a length.  A diagnostic is the name of its   *)
(* key; what counts is whether there is one.  Durations are numbers of a   *)
(* unit, ratios percentages.                                               *)
(***************************************************************************)
EXTENDS Layout, Integers, Sequences, FiniteSets

CONSTANTS
  Files,        \* the contents the file may have
  WellFormed,   \* names of interfaces, uplinks and accounts, mailboxes, event types
  Own, Lan(_),  \* the router's addresses, and those within the prefixes of an interface
  MaxDuration,  \* the largest Duration
  MaxEdits      \* bound

VARIABLES
  file,      \* the configuration file
  config,    \* of the running daemon
  daemon,    \* stopped, running, refused (exit status 78), failed (1) or panicked
  edits

-----------------------------------------------------------------------------
(* The keys of the file, as raw.rs has them.                               *)

Option(S) == {o \in SUBSET S : Cardinality(o) <= 1}
Families == {"v4", "v6"}
Address == [family : Families, scope : {"global", "private", "link", "special"}, n : Nat]
Target == [kind : {"icmp", "tcp", "unknown"}, addr : Address]
SocketPath == [n : Nat, plain : BOOLEAN, parent : Nat, length : Nat]

Routing ==
  [table_base : Option(Int), rule_priority_base : Option(Int), route_protocol : Option(Int),
   fwmark_mask : Option(SUBSET (0..31)), discovery_tables : SUBSET Int, reconcile_interval : Option(Nat)]

Firewall == [mode : {"managed", "external"}, nat_priority : Option(Int), nft_absolute : BOOLEAN]

PathKeys ==
  [source : Option(Address), gateway : Option(Address), gateway_onlink : BOOLEAN,
   nat : Option({"masquerade", "snat", "none"})]

HealthKeys ==
  [interval : Option(Nat), timeout : Option(Nat), attempts : Option(Int), required_reachable : Option(Int),
   fall : Option(Int), rise : Option(Int), v4 : Option(Seq(Target)), v6 : Option(Seq(Target)),
   max_rtt : Option(Nat), max_jitter : Option(Nat), max_loss : Option(Int),
   quality_window : Option(Int), quality_min_samples : Option(Int)]

Uplink ==
  [id : Int, name : Nat, interface : Nat, priority : Option(Int), weight : Option(Int),
   paths : [{} -> PathKeys] \cup [{"v4"} -> PathKeys] \cup [{"v6"} -> PathKeys] \cup [Families -> PathKeys],
   health : Option(HealthKeys)]

Policy ==
  [name : Nat, family : Families, input_interface : Option(Nat), source : Option(Address),
   destination : Option(Address), protocol : Option({"tcp", "udp", "sctp", "icmp", "icmpv6"}),
   ports : Option(Int \X Int), uplink : Nat]

Email ==
  [from : Nat, to : SUBSET Nat, sendmail_absolute : BOOLEAN, max_per_hour : Option(Int), events : Option(SUBSET Nat)]

Hook == [absolute : BOOLEAN, events : Option(SUBSET Nat), timeout : Option(Nat)]

Notify == [email : Option(Email), hooks : SUBSET Hook, hook_user : Nat]

Api == [socket : SocketPath, status_socket : Option(SocketPath), group : Nat, status_group : Option(Nat)]

File ==
  [routing : Routing, firewall : Firewall, api : Api, notify : Notify, downlinks : Seq(Nat), uplinks : Seq(Uplink),
   health : HealthKeys, policies : Seq(Policy), metrics_address : BOOLEAN, state_dir : [n : Nat, plain : BOOLEAN]]

\* A file with other keys, or values of other types, is refused by the parser.
ASSUME FilesAssumption == Files \subseteq File

-----------------------------------------------------------------------------
Given(option, default) == IF option = {} THEN default ELSE CHOOSE v \in option : TRUE

\* Ctx::int and Ctx::duration_in: a value out of its range is a diagnostic, and the
\* checks that follow use the default.
Ranged(option, default, range) == IF option \subseteq range THEN Given(option, default) ELSE default

When(key, wrong) == IF wrong THEN {key} ELSE {}

Outside(key, option, range) == When(key, ~(option \subseteq range))

\* Two places of a sequence with the same value.
Repeats(s) == \E i, j \in DOMAIN s : i < j /\ s[i] = s[j]

Names(s) == {s[i] : i \in DOMAIN s}

Each(s, Value(_)) == [i \in DOMAIN s |-> Value(s[i])]

-----------------------------------------------------------------------------
(* Sections without references to others.                                  *)

\* FwMask::new, with the mask as the set of its bits.
FwMask_new(bits) == \E shift \in bits : bits = shift..(shift + 7)

table_base(r) == Ranged(r.table_base, 1000, 1..(MaxTable - 191))

routing(r) ==
  When("table_base", \E b \in r.table_base : ~accepts_table_base(b))
    \cup When("rule_priority_base", \E b \in r.rule_priority_base : ~accepts_priority_base(b))
    \cup Outside("route_protocol", r.route_protocol, 5..255)
    \cup When("fwmark_mask", \E m \in r.fwmark_mask : ~FwMask_new(m))
    \cup When("discovery_tables", \E t \in r.discovery_tables : ~accepts_discovery_table(table_base(r), t))
    \cup Outside("reconcile_interval", r.reconcile_interval, 10..3600)

firewall(f) ==
  Outside("nat_priority", f.nat_priority, (-149)..400) \cup When("nft_path", ~f.nft_absolute)

\* check_socket_path: the socket, and where it is staged in its directory.
SUN_PATH_MAX == 107
STAGING_SUFFIX_MAX == 1 + 17 + 10 + 1 + 1

check_socket_path(p) ==
  p.plain /\ p.length <= SUN_PATH_MAX /\ p.parent + STAGING_SUFFIX_MAX <= SUN_PATH_MAX

api(a) ==
  When("socket", ~check_socket_path(a.socket))
    \cup When("status_socket", \E p \in a.status_socket : ~check_socket_path(p) \/ p = a.socket)
    \cup When("group", a.group \notin WellFormed)
    \cup When("status_group", ~(a.status_group \subseteq WellFormed))

check_events(events) == \A list \in events : list # {} /\ list \subseteq WellFormed

notify_section(n) ==
  When("email.from", \E e \in n.email : e.from \notin WellFormed)
    \cup When("email.to", \E e \in n.email : e.to = {} \/ ~(e.to \subseteq WellFormed))
    \cup When("email.sendmail", \E e \in n.email : ~e.sendmail_absolute)
    \cup When("email.max_per_hour", \E e \in n.email : ~(e.max_per_hour \subseteq 1..10000))
    \cup When("email.events", \E e \in n.email : ~check_events(e.events))
    \cup When("hook", \E h \in n.hooks : ~h.absolute \/ ~check_events(h.events) \/ h.timeout = {0})
    \cup When("hook_user", n.hook_user \notin WellFormed)

-----------------------------------------------------------------------------
(* Uplinks.                                                                *)

FamiliesOf(u) == DOMAIN u.paths

is_usable_source(a) == a.scope \in {"global", "private"}
is_global_unicast(a) == a.scope = "global"

path(p, family) ==
  When("source", \E a \in p.source : a.family # family \/ ~is_usable_source(a))
    \cup When("gateway", \E a \in p.gateway : a.family # family)
    \cup When("gateway_onlink", p.gateway_onlink /\ p.gateway = {})
    \cup When("nat", p.nat = {} /\ family = "v6")
    \cup When("snat", p.nat = {"snat"} /\ p.source = {})

\* Key by key, the gates included.
merge_health(global, local) == [k \in DOMAIN global |-> IF local[k] # {} THEN local[k] ELSE global[k]]

Merged(c, u) ==
  IF u.health = {} THEN c.health ELSE merge_health(c.health, CHOOSE h \in u.health : TRUE)

enabled(h) == h.max_rtt \cup h.max_jitter \cup h.max_loss # {}

\* The built-in targets: anycast resolvers of several operators.
DefaultTargets(family) ==
  [i \in 1..(IF family = "v4" THEN 4 ELSE 3) |->
     [kind |-> "icmp", addr |-> [family |-> family, scope |-> "global", n |-> 100 + i]]]

Targets(h, family) == Given(h[family], DefaultTargets(family))

Bad(t, family) == t.kind = "unknown" \/ t.addr.family # family \/ ~is_global_unicast(t.addr)

distinct_addresses(targets) == Cardinality({targets[i].addr : i \in DOMAIN targets})

Interval(h) == Ranged(h.interval, 50, 10..3000)
Timeout(h) == Given(h.timeout, 10)
Attempts(h) == Ranged(h.attempts, 2, 1..5)
Required(h) == Ranged(h.required_reachable, 2, 1..255)
Window(h) == Ranged(h.quality_window, 6, 2..100)
MinSamples(h) == Ranged(h.quality_min_samples, 10, 1..10000)

\* The samples a full window holds, of the family with the fewest targets.
Capacity(h, families) ==
  LET n == {distinct_addresses(Targets(h, f)) : f \in families}
  IN  Window(h) * CHOOSE m \in n : \A k \in n : m <= k

\* A round would not end before the next one.
Lasting(h) == Timeout(h) * Attempts(h) >= Interval(h)

health(h, families) ==
  Outside("interval", h.interval, 10..3000)
    \cup When("timeout", h.timeout = {0} \/ Lasting(h))
    \cup Outside("attempts", h.attempts, 1..5)
    \cup Outside("fall", h.fall, 1..20) \cup Outside("rise", h.rise, 1..20)
    \cup When("targets", \E f \in Families :
           LET targets == Targets(h, f) IN
           \/ \E i \in DOMAIN targets : Bad(targets[i], f)
           \/ Repeats(targets)
           \/ targets = <<>> /\ f \in families)
    \cup Outside("required_reachable", h.required_reachable, 1..255)
    \cup When("required_reachable", \E f \in families :
           Targets(h, f) # <<>> /\ Required(h) > distinct_addresses(Targets(h, f)))
    \cup Outside("max_loss", h.max_loss, 0..100)
    \cup Outside("quality_window", h.quality_window, 2..100)
    \cup Outside("quality_min_samples", h.quality_min_samples, 1..10000)
    \cup When("quality_min_samples",
           enabled(h) /\ families # {} /\ MinSamples(h) > Capacity(h, families))

Id(u) == IF u.id \in UplinkIds THEN u.id ELSE 1

uplink(c, u) ==
  When("id", u.id \notin UplinkIds)
    \cup When("name", u.name \notin WellFormed)
    \cup Outside("priority", u.priority, 1..1000) \cup Outside("weight", u.weight, 1..256)
    \cup When("families", FamiliesOf(u) = {})
    \cup UNION {path(u.paths[f], f) : f \in FamiliesOf(u)}
    \cup health(Merged(c, u), FamiliesOf(u))

\* The static source of a path, if it has one.
StaticSource(c, i, f) == IF f \in FamiliesOf(c.uplinks[i]) THEN c.uplinks[i].paths[f].source ELSE {}

Interfaces(c) == c.downlinks \o Each(c.uplinks, LAMBDA u : u.interface)

\* What must differ between uplinks, and between all interfaces.
Collisions(c) ==
  When("id", Repeats(Each(c.uplinks, Id)))
    \cup When("name", Repeats(Each(c.uplinks, LAMBDA u : u.name)))
    \cup When("interface", Repeats(Interfaces(c)))
    \cup When("interface name", \E i \in DOMAIN Interfaces(c) : Interfaces(c)[i] \notin WellFormed)
    \cup When("source", \E i, j \in DOMAIN c.uplinks, f, g \in Families :
           <<i, f>> # <<j, g>> /\ StaticSource(c, i, f) \cap StaticSource(c, j, g) # {})

-----------------------------------------------------------------------------
(* Policies.                                                               *)

Named(c, name) == {i \in DOMAIN c.uplinks : c.uplinks[i].name = name}

\* The uplink exists and has the family.
Usable(c, p) ==
  \E i \in Named(c, p.uplink) : (\A j \in Named(c, p.uplink) : i <= j) /\ p.family \in FamiliesOf(c.uplinks[i])

policy(c, p) ==
  When("policy.uplink", ~Usable(c, p))
    \cup When("policy.input_interface", ~(p.input_interface \subseteq Names(c.downlinks)))
    \cup When("policy.prefix", \E a \in p.source \cup p.destination : a.family # p.family)
    \cup When("policy.protocol", p.protocol = {IF p.family = "v4" THEN "icmpv6" ELSE "icmp"})
    \cup When("policy.ports", \E r \in p.ports :
           \/ p.protocol \notin {{"tcp"}, {"udp"}, {"sctp"}}
           \/ ~(1 <= r[1] /\ r[1] <= r[2] /\ r[2] <= 65535))

-----------------------------------------------------------------------------
validate(c) ==
  routing(c.routing) \cup firewall(c.firewall) \cup api(c.api) \cup notify_section(c.notify)
    \cup When("downlink", c.downlinks = <<>>) \cup When("uplink", c.uplinks = <<>>)
    \cup Collisions(c)
    \cup UNION {uplink(c, c.uplinks[i]) : i \in DOMAIN c.uplinks}
    \cup UNION {policy(c, c.policies[i]) : i \in DOMAIN c.policies}
    \cup When("policy.name", Repeats(Each(c.policies, LAMBDA p : p.name)))
    \cup When("metrics.listen", ~c.metrics_address) \cup When("state_dir", ~c.state_dir.plain)

\* The product of validation (Duration * u32) has no room.
Overflows(c) ==
  \E i \in DOMAIN c.uplinks :
    LET h == Merged(c, c.uplinks[i]) IN Timeout(h) * Attempts(h) > MaxDuration

Local(c) == Own \cup UNION {Lan(d) : d \in Names(c.downlinks)}

\* checks::targets: no target is the router itself or in a downlink's network.
Reachable(c) ==
  \A i \in DOMAIN c.uplinks, f \in Families :
    LET targets == Targets(Merged(c, c.uplinks[i]), f) IN
    f \in FamiliesOf(c.uplinks[i]) => \A j \in DOMAIN targets : targets[j].addr \notin Local(c)

structural(c) ==
  [fwmark_mask |-> Given(c.routing.fwmark_mask, 16..23), table_base |-> table_base(c.routing),
   rule_priority_base |-> Given(c.routing.rule_priority_base, 1000),
   route_protocol |-> Given(c.routing.route_protocol, 249), mode |-> c.firewall.mode]

-----------------------------------------------------------------------------
Edit(f) ==
  /\ edits < MaxEdits /\ edits' = edits + 1
  /\ file # f /\ file' = f
  /\ UNCHANGED <<config, daemon>>

\* run: the file is loaded; a start that is refused ends with status 78, one that the
\* checks of the system stop with 1.
Start ==
  /\ daemon # "running"
  /\ daemon' = IF Overflows(file) THEN "panicked"
               ELSE IF validate(file) # {} THEN "refused"
               ELSE IF Reachable(file) THEN "running" ELSE "failed"
  /\ config' = IF daemon' = "running" THEN file ELSE config
  /\ UNCHANGED <<file, edits>>

\* validate of worker.rs.  A panic is caught, as the task is another one.
Reloads(new) ==
  /\ ~Overflows(new) /\ validate(new) = {} /\ Reachable(new)
  /\ structural(new) = structural(config) /\ new.state_dir = config.state_dir

Reload ==
  /\ daemon = "running"
  /\ config' = IF Reloads(file) THEN file ELSE config
  /\ UNCHANGED <<file, daemon, edits>>

Init == file \in Files /\ config = file /\ daemon = "stopped" /\ edits = 0

Next == Start \/ Reload \/ \E f \in Files : Edit(f)

cvars == <<file, config, daemon, edits>>

Spec == Init /\ [][Next]_cvars

-----------------------------------------------------------------------------
(* Properties: what the other modules count on in a running configuration. *)

Running == daemon = "running"
Base == table_base(config.routing)
Owned == {UplinkTable(Base, p, config.uplinks[i].id) : p \in Purposes, i \in DOMAIN config.uplinks}

\* FR-ROUTE-3: every path and policy of every uplink has a table of its own, apart from
\* the tables of the system, from the ones discovery reads and from the balancing table.
TablesAreApart ==
  /\ Cardinality(Owned) = 3 * Len(config.uplinks)
  /\ Owned \cap (Reserved \cup {Base} \cup config.routing.discovery_tables) = {}

\* FR-PROBE-4: rounds can pass and never overlap: each family has as many addresses as
\* must reply, none the router's, and the last attempt times out before the next round.
RoundsCanPass ==
  \A i \in DOMAIN config.uplinks :
    LET u == config.uplinks[i]
        h == Merged(config, u)
    IN  /\ Timeout(h) > 0 /\ Timeout(h) * Attempts(h) < Interval(h)
        /\ \A f \in FamiliesOf(u) :
             LET targets == Targets(h, f) IN
             Cardinality({targets[j].addr : j \in DOMAIN targets} \ Local(config)) >= Required(h)

\* FR-NAT-1, FR-POL-1: the ruleset names each interface once, as an uplink's or a
\* downlink's; snat has its address and a policy the path that it leads to (nft.rs).
RulesetIsDefinite ==
  /\ \A i \in DOMAIN config.uplinks : \A f \in FamiliesOf(config.uplinks[i]) :
       config.uplinks[i].paths[f].nat = {"snat"} => config.uplinks[i].paths[f].source # {}
  /\ \A i \in DOMAIN config.policies : \E j \in DOMAIN config.uplinks :
       /\ config.uplinks[j].name = config.policies[i].uplink
       /\ config.policies[i].family \in FamiliesOf(config.uplinks[j])
  /\ \A i \in DOMAIN config.uplinks :
       /\ \A j \in DOMAIN config.downlinks : config.downlinks[j] # config.uplinks[i].interface
       /\ \A j \in DOMAIN config.uplinks \ {i} : config.uplinks[j].interface # config.uplinks[i].interface

\* FR-API-1: the staged path of each socket fits sun_path, whatever the process id.
StagedFits ==
  \A p \in {config.api.socket} \cup config.api.status_socket, digits \in 1..10 :
    p.parent + Len("/.polywan-staging-") + digits + Len("/s") <= 107

\* config/validate.rs: what validate accepts can be run: the daemon's tables, rounds, ruleset and
\* sockets are as the other parts count on, whichever start or reload took the file up.
AcceptedIsUsable ==
  Running => TablesAreApart /\ RoundsCanPass /\ RulesetIsDefinite /\ StagedFits
=============================================================================
