------------------------------ MODULE MCParts -------------------------------
(***************************************************************************)
(* Parts with safety properties only, each on a small instance: files and  *)
(* the configurations that run (Config, Quality), starts and cleanups over *)
(* the state directory (Startup), and the socket files over reloads, kills *)
(* and interventions of others (Sockets).  In a behaviour one of them, the *)
(* focus, moves and the others stay as they began.                         *)
(***************************************************************************)
EXTENDS MCConfig

CONSTANTS Procs, Absent, Corrupt

VARIABLES
  focus,
  start_config, lock, manifest, drain, checkpoint, tmp, rules, table, proc, runs, damages,
  orphans,                                                     \* of Startup
  object, record, manager, known, serving, prepared, next, cut, stopped, accepting, conn,
  preparations, faults, endpoints, unsaved                     \* of Sockets

\* Two priority ranges and marks that clash or not, with and without firewall.
Structures ==
  {[range |-> 1, marks |-> 1, managed |-> TRUE, uplinks |-> {1}],
   [range |-> 1, marks |-> 2, managed |-> FALSE, uplinks |-> {1}],
   [range |-> 2, marks |-> 1, managed |-> TRUE, uplinks |-> {2}]}

Endpoint(r, p, a) == [role |-> r, path |-> p, access |-> a]

\* A reload changes the access of a path, closes one, or gives it another role.
Apis ==
  {{Endpoint("control", "a", 1), Endpoint("status", "b", 1)}, {Endpoint("control", "a", 2)},
   {Endpoint("control", "b", 1)}}

SU == INSTANCE Startup WITH Configs <- Structures, config <- start_config, MaxRuns <- 3, MaxDamages <- 1

SK == INSTANCE Sockets
        WITH config <- endpoints, reloads <- preparations, Paths <- {"a", "b"}, Configs <- Apis,
             Conns <- {1}, Limit <- 1, MaxIds <- 6, MaxReloads <- 2, MaxFaults <- 1

Symmetric == Permutations(Procs)

startup == <<start_config, lock, manifest, drain, checkpoint, tmp, rules, table, proc, runs, damages, orphans>>
sockets == <<object, record, manager, known, serving, prepared, next, cut, stopped, accepting, conn,
             preparations, faults, endpoints, unsaved>>

\* Three starts and cleanups, or two and a damaged file.
StartupBound == damages' = 0 \/ runs' < 3

PartsInit ==
  /\ focus \in {"config", "startup", "sockets"}
  /\ QInit /\ (focus # "config" => file = Minimal)
  /\ SU!Init /\ (focus # "startup" => start_config = CHOOSE c \in Structures : TRUE)
  /\ SK!Init

ConfigNext  == focus = "config" /\ UNCHANGED <<focus, startup, sockets>> /\ MCNext
StartupNext == focus = "startup" /\ UNCHANGED <<focus, qvars, sockets>> /\ SU!Next /\ StartupBound
SocketsNext == focus = "sockets" /\ UNCHANGED <<focus, qvars, startup>> /\ SK!Next

PartsSpec ==
  PartsInit /\ [][ConfigNext \/ StartupNext \/ SocketsNext]_<<focus, qvars, startup, sockets>>

-----------------------------------------------------------------------------
(* The properties of the parts; those of Config and Quality keep their     *)
(* names.                                                                  *)

\* IMPL-5: whatever is installed, the manifest on disk records it, across crashes, failed
\* commands, edits of the configuration and interrupted cleanups.
InstalledIsRecorded == focus = "startup" => SU!InstalledIsRecorded

\* IMPL-6: when a start is refused for what it read, the kernel and the manifest are what
\* they were when it took the lock, and no more is discarded than was asked for.
RefusedChangesNothing == SU!RefusedChangesNothing

\* FR-API-1: a manager that waits serves the endpoints of the running configuration, with
\* its access.
ServedAsConfigured == focus = "sockets" => SK!ServedAsConfigured

\* FR-API-1: an object that PolyWAN did not publish is never replaced or removed.
ForeignIsLeft == SK!ForeignIsLeft
=============================================================================
