---- MODULE MCForwarding ----
EXTENDS Forwarding, TLC
Sym == Permutations(Slots)
Conf(us, p1, p2, u, f, a) == [uplinks |-> us, priority |-> [i \in Ids |-> IF i = 1 THEN p1 ELSE p2],
                          policy |-> [uplink |-> u, fallback |-> f], all_down |-> a]
MCConfigs == {Conf({1,32}, 1, 1, 0, "balance", "ready"), Conf({1,32}, 1, 2, 32, "block", "keep"), Conf({1}, 1, 0, 1, "balance", "ready")}
MCKinds == {[from |-> f, uplink |-> 0] : f \in {"lan", "router"}}
            \cup {[from |-> f, uplink |-> 32] : f \in {"in", "served", "bound", "probe"}}
====
