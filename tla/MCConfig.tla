------------------------------ MODULE MCConfig ------------------------------
(* Configuration files and rounds of probes for Config and Quality. *)
EXTENDS Quality

\* A name that is well formed is a number below 100.
MCWellFormed == 0..99
Addr(family, scope, n) == [family |-> family, scope |-> scope, n |-> n]
MCOwn == {Addr("v4", "global", 9)}
MCLan(d) == {Addr("v4", "global", 8)} \cap (IF d = 1 THEN {Addr("v4", "global", 8)} ELSE {})

Icmp(n) == [kind |-> "icmp", addr |-> Addr("v4", "global", n)]
Tcp(n) == [kind |-> "tcp", addr |-> Addr("v4", "global", n)]

NoHealth ==
  [interval |-> {}, timeout |-> {}, attempts |-> {}, fall |-> {}, rise |-> {}, required_reachable |-> {},
   v4 |-> {}, v6 |-> {}, max_rtt |-> {}, max_jitter |-> {}, max_loss |-> {},
   quality_window |-> {}, quality_min_samples |-> {}]

OnePath == [source |-> {}, gateway |-> {}, gateway_onlink |-> FALSE, nat |-> {}]
OnePath6 == [OnePath EXCEPT !.nat = {"none"}]
V4 == [f \in {"v4"} |-> OnePath]

OneUplink(id) ==
  [id |-> id, name |-> id, interface |-> 10 + id, priority |-> {1}, weight |-> {}, paths |-> V4, health |-> {}]

OnePolicy ==
  [name |-> 1, family |-> "v4", uplink |-> 1, input_interface |-> {}, source |-> {}, destination |-> {},
   protocol |-> {}, ports |-> {}]

Socket(n, parent) == [n |-> n, plain |-> TRUE, parent |-> parent, length |-> parent + 5]

Minimal ==
  [routing |-> [table_base |-> {}, rule_priority_base |-> {}, route_protocol |-> {}, fwmark_mask |-> {},
                discovery_tables |-> {254}, reconcile_interval |-> {}],
   firewall |-> [mode |-> "managed", nat_priority |-> {}, nft_absolute |-> TRUE],
   api |-> [socket |-> Socket(1, 12), status_socket |-> {Socket(2, 12)}, group |-> 1, status_group |-> {}],
   notify |-> [email |-> {}, hooks |-> {}, hook_user |-> 1],
   downlinks |-> <<1>>, uplinks |-> <<OneUplink(1)>>, health |-> NoHealth, policies |-> <<>>,
   metrics_address |-> TRUE, state_dir |-> [n |-> 1, plain |-> TRUE]]

OneEmail == [from |-> 1, to |-> {2}, sendmail_absolute |-> TRUE, max_per_hour |-> {}, events |-> {}]
OneHook == [absolute |-> TRUE, events |-> {}, timeout |-> {}]

Optional(values) == {{}} \cup {{v} : v \in values}

\* Variations of each section.
RoutingFiles ==
  {[Minimal EXCEPT !.routing.table_base = b, !.routing.discovery_tables = t] :
      b \in Optional({0, 1, 61, 62, 126, 190, 254, 255, 256, 1000, 1809, 1810}), t \in {{}, {254}, {253, 254}, {255}, {0}, {1192, 1000}, {1191}}}
    \cup {[Minimal EXCEPT !.routing.rule_priority_base = b] : b \in Optional({0, 1, 32066, 32067})}
    \cup {[Minimal EXCEPT !.routing.fwmark_mask = {m}] : m \in {{}, 0..7, 24..31, 16..23, 16..22, {1, 3}}}
    \cup {[Minimal EXCEPT !.routing.route_protocol = {p}, !.firewall.nat_priority = {n}, !.routing.reconcile_interval = {i}] :
            p \in {4, 5}, n \in {-150, -149}, i \in {9, 10}}

UplinkFiles ==
  {[Minimal EXCEPT !.uplinks = <<OneUplink(1), [OneUplink(id) EXCEPT !.name = n, !.interface = i, !.paths = p]>>] :
      id \in {0, 1, 2, 63, 64}, n \in {1, 2, 100}, i \in {1, 11, 12, 100},
      p \in {V4, [f \in {"v6"} |-> OnePath], [f \in {"v6"} |-> OnePath6], [f \in {} |-> OnePath]}}
    \cup {[Minimal EXCEPT !.uplinks = <<OneUplink(1), [OneUplink(2) EXCEPT !.paths = [f \in {"v4"} |->
             [source |-> s, gateway |-> g, gateway_onlink |-> o, nat |-> n]]]>>] :
            s \in Optional({Addr("v4", "private", 1), Addr("v4", "special", 1), Addr("v6", "global", 1)}),
            g \in Optional({Addr("v4", "global", 2), Addr("v6", "link", 2)}), o \in BOOLEAN, n \in Optional({"snat", "none"})}
    \cup {[Minimal EXCEPT !.uplinks = <<[OneUplink(1) EXCEPT !.paths["v4"].source = {Addr("v4", "global", 3)}],
                                        [OneUplink(2) EXCEPT !.paths["v4"].source = {Addr("v4", "global", n)}]>>] : n \in {3, 4}}
    \cup {[Minimal EXCEPT !.uplinks = <<>>], [Minimal EXCEPT !.downlinks = <<>>], [Minimal EXCEPT !.downlinks = <<1, 1>>]}

HealthFiles ==
  {[Minimal EXCEPT !.health.interval = i, !.health.timeout = t, !.uplinks[1].health = {[NoHealth EXCEPT !.attempts = a]}] :
      i \in Optional({9, 10, 30}), t \in Optional({0, 5, 15, 60000}), a \in Optional({1, 2, 3, 6})}
    \cup {[Minimal EXCEPT !.health.v4 = {v}, !.health.required_reachable = q, !.downlinks = d] :
            v \in {<<>>, <<Icmp(1)>>, <<Icmp(1), Icmp(1)>>, <<Icmp(1), Tcp(1)>>, <<Icmp(1), Tcp(2)>>, <<Icmp(1), Icmp(8)>>,
                   <<Icmp(1), Icmp(9)>>, <<Icmp(1), [Icmp(2) EXCEPT !.kind = "unknown"]>>,
                   <<[kind |-> "icmp", addr |-> Addr("v4", "private", 1)]>>},
            q \in Optional({0, 1, 2, 256}), d \in {<<1>>, <<2>>}}
    \cup {[Minimal EXCEPT !.uplinks[1].paths = [f \in Families |-> IF f = "v4" THEN OnePath ELSE OnePath6],
                          !.health.max_loss = {l}, !.health.quality_window = w, !.health.quality_min_samples = m] :
            l \in {50, 101}, w \in Optional({1, 2, 3}), m \in Optional({6, 7, 8, 9})}

OtherFiles ==
  {[Minimal EXCEPT !.policies = <<[OnePolicy EXCEPT !.uplink = u, !.family = f, !.protocol = p, !.ports = r]>>] :
      u \in {1, 3}, f \in Families, p \in Optional({"tcp", "icmp", "icmpv6"}), r \in Optional({<<1, 1>>, <<2, 1>>, <<1, 65536>>})}
    \cup {[Minimal EXCEPT !.policies = <<OnePolicy, [OnePolicy EXCEPT !.name = n, !.input_interface = i, !.source = s]>>] :
            n \in {1, 2}, i \in Optional({1, 11}), s \in Optional({Addr("v4", "private", 1), Addr("v6", "global", 1)})}
    \cup {[Minimal EXCEPT !.api.socket = Socket(1, n), !.api.status_socket = s, !.api.status_group = g] :
            n \in {76, 77, 78}, s \in Optional({Socket(1, 77), Socket(2, 77)}), g \in Optional({1, 100})}
    \cup {[Minimal EXCEPT !.notify.email = {[OneEmail EXCEPT !.to = t, !.events = e, !.from = f]},
                          !.notify.hooks = {[OneHook EXCEPT !.timeout = h, !.events = e]}] :
            t \in {{}, {2}, {2, 100}}, e \in Optional({{}, {1}, {100}}), f \in {1, 100}, h \in Optional({0, 5})}
    \cup {[Minimal EXCEPT !.state_dir.n = n, !.state_dir.plain = b, !.metrics_address = m] : n \in {1, 2}, b, m \in BOOLEAN}

\* One, two or three rounds of one or two targets, with gates and without.
Gates == [NoHealth EXCEPT !.v4 = {<<Icmp(1), Tcp(2)>>}, !.max_loss = {30}, !.max_rtt = {2}, !.max_jitter = {1},
                          !.attempts = {1}, !.quality_window = {3}, !.quality_min_samples = {6}]
QualityFiles ==
  {[Minimal EXCEPT !.health = h] :
     h \in {Gates, [Gates EXCEPT !.quality_window = {2}, !.quality_min_samples = {4}],
            [Gates EXCEPT !.max_loss = {}, !.max_rtt = {}, !.max_jitter = {}],
            [Gates EXCEPT !.v4 = {<<Icmp(1)>>}, !.attempts = {2}, !.required_reachable = {1}, !.quality_min_samples = {3}]}}

MCFiles == RoutingFiles \cup UplinkFiles \cup HealthFiles \cup OtherFiles \cup QualityFiles

MCNext ==
  \/ QStart \/ QReload
  \/ \E f \in IF file \in QualityFiles THEN QualityFiles ELSE {Minimal} : QEdit(f)
  \/ Running /\ config \in QualityFiles /\ \E samples \in RoundsOf : Round(samples)
=============================================================================
