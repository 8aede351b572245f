---------------------------- MODULE MCPathHealth ----------------------------
(***************************************************************************)
(* PathHealth on two small instances, one of them in each behaviour: the   *)
(* path of one address, found or not by each start, while rise and fall    *)
(* are reloaded and the daemon restarts ("counts"), and the path that      *)
(* moves between two addresses, or is lost, by a daemon that is not        *)
(* restarted, so that a checkpoint, which nothing reads, is left out       *)
(* ("moves").                                                              *)
(***************************************************************************)
EXTENDS PathHealth

CONSTANTS i1, i2, g1, p1

VARIABLE focus

MCIdentities == {i1, i2}
MCGateways == {g1}
MCProbings == {p1}
MCHystereses == {[rise |-> 2, fall |-> 2], [rise |-> 1, fall |-> 1]}

\* What the environment keeps in either instance.
Within(found, h, file) ==
    \/ focus = "counts" /\ found \in {None, <<i1, g1>>}
    \/ focus = "moves" /\ h = [rise |-> 2, fall |-> 2] /\ file = None

MCInit ==
    /\ focus \in {"counts", "moves"}
    /\ Init /\ Within(view, hysteresis, disk)

MCNext ==
    /\ Next /\ UNCHANGED focus /\ Within(view', hysteresis', disk')
    /\ focus = "counts" /\ restarts' = restarts => view' = view
    /\ focus = "moves" => restarts' = 0 /\ queued' = None

MCSpec == MCInit /\ [][MCNext]_<<vars, focus>> /\ Fairness
=============================================================================
