-------------------------------- MODULE View --------------------------------
(***************************************************************************)
(* The Observer's view of the kernel's routes and the repair of PolyWAN's  *)
(* own (observer.rs, system.rs, netlink/mod.rs, and the notification,      *)
(* ownership and full-reconciliation parts of daemon.rs).  The kernel and  *)
(* other programs change routes while the State task reads them with       *)
(* dumps, which are no snapshots, and notifications wait in a queue that   *)
(* may overflow.                                                           *)
(*                                                                         *)
(* Simplifications.                                                        *)
(*  - A route is its identity.  PolyWAN's tables hold one route each, which *)
(*    the plan always wants; the routes of Found are routes of the         *)
(*    discovery table of one destination and metric, on one uplink.        *)
(*    Rules, addresses and links are read and notified in the same way and *)
(*    left out.                                                            *)
(*  - The daemon deletes none of its own routes here (the plan wants them  *)
(*    all), so that every deletion of one is a third party's: the test of  *)
(*    the notification's port (daemon.rs:1022) is always true.  Routes the *)
(*    kernel drops with a link go without a notification.                  *)
(*  - A full reconciliation may come at any time between two passes; the   *)
(*    earlier one that a failed dump or an overrun schedules (resync_due)  *)
(*    is one of those times.                                               *)
(*  - A dump resumes by position, one route at a time (the worst batch);   *)
(*    the confirming read of one table is one batch, as the code assumes.  *)
(*  - Removals older than the 5 minutes of FR-COEX-4 may be forgotten      *)
(*    whenever one is counted; failing operations are in Reconcile.        *)
(***************************************************************************)
EXTENDS Naturals, Sequences, FiniteSets

CONSTANTS
  Own,        \* PolyWAN's routes: naturals, in the order of dumps
  Found,      \* routes of the discovery table: naturals
  Objects,    \* those of Found that use a nexthop object
  Removals,   \* third-party removals that are repaired at once
  MaxQueue,   \* bound: notifications the socket's buffer holds
  Tries,      \* bound: retries of a dump
  MaxChanges  \* bound: changes by others, failed and restarted dumps

Entries == Own \cup Found
Main == 0
Unkept == 0   \* a route that Scope::keeps leaves out of the view

ASSUME ViewAssumption ==
  /\ Entries \subseteq Nat \ {Main} /\ Own \cap Found = {}
  /\ Objects \subseteq Found
  /\ {Removals, MaxQueue, Tries, MaxChanges} \subseteq Nat

VARIABLES
  kernel,     \* the kernel's routes
  queue,      \* notifications not yet handled
  view,       \* System.routes
  reread,     \* tables to read again before the next evaluation
  task,       \* what the State task is awaiting
  pass,       \* "idle"; "left": dirty after a pass; "batch": within a batch of
              \* notifications; "due": a pass comes before any event
  removals, conflict, clean_reconciliations,  \* struct Ownership
  held_routes, full_pass,
  lost,       \* history: notifications were lost or a re-read failed, and no full
              \* dump has succeeded since that no older notification follows
  contested,  \* history: own routes removed in a conflict, since the last full
              \* reconciliation
  left        \* what is left of MaxChanges

ownership == <<removals, conflict, clean_reconciliations, held_routes, full_pass>>
vars == <<kernel, queue, view, reread, task, pass, ownership, lost, contested, left>>

Table(e) == IF e \in Own THEN e ELSE Main
Tables == {Table(e) : e \in Entries}
In(tables) == {e \in Entries : Table(e) \in tables}

Idle == [kind |-> "idle"]

-----------------------------------------------------------------------------
(* The kernel and other programs.                                          *)

Overrun == [op |-> "overrun"]
Waiting == {queue[i] : i \in DOMAIN queue}

\* The receive buffer: a notification that does not fit is lost, and the reader
\* is told once, before or after those that wait.
Notify(n) ==
  IF Len(queue) < MaxQueue
  THEN queue' = Append(queue, n) /\ UNCHANGED lost
  ELSE /\ lost' = TRUE
       /\ IF Overrun \in Waiting THEN UNCHANGED queue
          ELSE \E i \in 0..Len(queue) :
                 queue' = SubSeq(queue, 1, i) \o <<Overrun>> \o SubSeq(queue, i + 1, Len(queue))

Changed(routes, n) ==
  /\ left > 0 /\ left' = left - 1
  /\ kernel' = routes
  /\ Notify(n)
  /\ UNCHANGED <<view, reread, task, pass, ownership, contested>>

RouteAdded(e) ==
  e \in Found \ kernel /\ Changed(kernel \cup {e}, [op |-> "new", e |-> e, how |-> "create"])

\* A replacement drops another route of the same destination and metric without
\* a notification of its deletion; an append merges a route into one of several
\* nexthops, another identity.
RouteReplaced(a, e, how) ==
  /\ a \in Found \cap kernel /\ e \in Found \ kernel
  /\ Changed((kernel \ {a}) \cup {e}, [op |-> "new", e |-> e, how |-> how])

\* The replacement is a route that the view does not keep.
RouteHidden(a) ==
  /\ a \in Found \cap kernel
  /\ Changed(kernel \ {a}, [op |-> "new", e |-> Unkept, how |-> "replace"])

RouteDeleted(e) ==
  e \in kernel /\ Changed(kernel \ {e}, [op |-> "del", e |-> e])

\* The uplink's link goes down and up: its IPv4 routes go without notification.
LinkFlaps == Changed({}, [op |-> "link"])

NexthopDeleted == Changed(kernel \ Objects, [op |-> "nexthop"])

KernelNext ==
  \/ \E e \in Entries : RouteAdded(e) \/ RouteDeleted(e)
  \/ \E a, e \in Found, how \in {"replace", "append"} : RouteReplaced(a, e, how)
  \/ \E a \in Found : RouteHidden(a)
  \/ LinkFlaps \/ NexthopDeleted

-----------------------------------------------------------------------------
(* Notifications.                                                          *)

\* Mutant: a replacement is taken for exact.
stale_after_never(n) == FALSE

\* Whether a notification can leave a stale entry in the view.
stale_after(n) ==
  \/ n.op = "del" /\ n.e \in Found \ view
  \/ n.op = "new" /\ n.how = "append" /\ n.e \in Found
  \/ n.op = "new" /\ n.how = "replace" /\ (view \cap Found) \ {n.e} # {}

\* Mutant: the removal that begins a conflict is repaired at once.
count_removal_late(e) ==
  \E kept \in 0..removals :
    /\ removals' = kept + 1
    /\ clean_reconciliations' = 0
    /\ conflict' = (conflict \/ kept + 1 > Removals)
    /\ held_routes' = IF conflict THEN held_routes \cup {e} ELSE held_routes

\* A third party removed a route of PolyWAN's.
count_removal(e) ==
  \E kept \in 0..removals :
    /\ removals' = kept + 1
    /\ clean_reconciliations' = 0
    /\ conflict' = (conflict \/ kept + 1 > Removals)
    /\ held_routes' = IF conflict' THEN held_routes \cup {e} ELSE held_routes

\* The event loop takes an event between two passes; notifications may follow
\* each other in one batch.
Received(dirty) ==
  /\ task = Idle /\ pass # "due"
  /\ pass' = IF dirty \/ pass # "idle" THEN "batch" ELSE "idle"

notification(n) ==
  /\ \/ /\ n.op = "new"
        /\ Received(n.e # Unkept)
        /\ view' = view \cup ({n.e} \ {Unkept})
        /\ reread' = IF stale_after(n) THEN reread \cup {Main} ELSE reread
        /\ UNCHANGED ownership
     \/ /\ n.op = "del"
        /\ Received(TRUE)
        /\ view' = view \ {n.e}
        /\ reread' = IF stale_after(n) THEN reread \cup {Main} ELSE reread
        /\ IF n.e \in Own THEN count_removal(n.e) /\ UNCHANGED full_pass
           ELSE UNCHANGED ownership
     \/ /\ n.op = "link"
        /\ Received(TRUE)
        /\ reread' = Tables
        /\ UNCHANGED <<view, ownership>>
  /\ UNCHANGED task

nexthop_notification ==
  /\ Received(view \cap Objects # {})
  /\ reread' = IF view \cap Objects # {} THEN reread \cup {Main} ELSE reread
  /\ UNCHANGED <<view, task, ownership>>

\* A dump of tables, and whether a notification could be older than it.
Dump(kind, tables, older) ==
  [kind |-> kind, tables |-> tables, cursor |-> 0, got |-> {}, tries |-> Tries,
   reading |-> TRUE, confirm |-> {}, older |-> older, then |-> {}]

StartFull(q) ==
  /\ task' = Dump("full", Tables, q # << >>)
  /\ pass' = "idle"
  /\ UNCHANGED <<view, reread, ownership>>

receive ==
  /\ queue # << >>
  /\ queue' = Tail(queue)
  /\ LET n == Head(queue) IN
     \/ n.op \in {"new", "del", "link"} /\ notification(n)
     \/ n.op = "nexthop" /\ nexthop_notification
     \/ n.op = "overrun" /\ task = Idle /\ pass # "due" /\ StartFull(Tail(queue))
  /\ contested' = IF Head(queue).op = "del" /\ Head(queue).e \in Own /\ conflict'
                  THEN contested \cup {Head(queue).e} ELSE contested
  /\ UNCHANGED <<kernel, lost, left>>

full_reconciliation ==
  /\ task = Idle /\ pass \in {"idle", "left"}
  /\ StartFull(queue)
  /\ UNCHANGED <<kernel, queue, lost, contested, left>>

-----------------------------------------------------------------------------
(* Dumps.                                                                  *)

\* The route at a position of what the kernel lists now.
At(tables, position) ==
  LET listed == kernel \cap In(tables)
  IN {e \in listed : Cardinality({x \in listed : x < e}) = position}

\* Tables of the view's routes that the dump lacks are read a second time.
Unconfirmed(missing) == {Table(e) : e \in missing}

ReadBatch ==
  /\ task.kind \in {"full", "reread"} /\ task.reading
  /\ LET next == At(task.tables, task.cursor) IN
     task' = IF next # {}
             THEN [task EXCEPT !.got = @ \cup next, !.cursor = @ + 1]
             ELSE [task EXCEPT !.reading = FALSE,
                    !.confirm = Unconfirmed((view \cap In(task.tables)) \ task.got)]
  /\ UNCHANGED <<kernel, queue, view, reread, pass, ownership, lost, contested, left>>

\* A dump flagged as interrupted, or past its deadline, begins again.
RetryDump ==
  /\ task.kind \in {"full", "reread"} /\ task.reading /\ task.tries > 0
  /\ left > 0 /\ left' = left - 1
  /\ task' = [task EXCEPT !.got = {}, !.cursor = 0, !.tries = @ - 1]
  /\ UNCHANGED <<kernel, queue, view, reread, pass, ownership, lost, contested>>

ConfirmTable(t) ==
  /\ task.kind \in {"full", "reread"} /\ t \in task.confirm
  /\ task' = [task EXCEPT !.got = @ \cup (kernel \cap In({t})), !.confirm = @ \ {t}]
  /\ UNCHANGED <<kernel, queue, view, reread, pass, ownership, lost, contested, left>>

\* Full reconciliations without a removal, in this conflict.
clean == IF conflict THEN clean_reconciliations + 1 ELSE clean_reconciliations

\* The rest of full_reconciliation, whether or not its dump succeeded.
Reconciled ==
  /\ conflict' = (conflict /\ clean < 2)
  /\ clean_reconciliations' = clean
  /\ full_pass' = TRUE
  /\ contested' = {}
  /\ UNCHANGED <<removals, held_routes>>

FullEnds ==
  /\ task.kind = "full" /\ ~ task.reading /\ task.confirm = {}
  /\ view' = task.got
  /\ lost' = (lost /\ (task.older \/ Overrun \in Waiting))
  /\ Reconciled
  /\ task' = Idle /\ pass' = "due"
  /\ UNCHANGED <<kernel, queue, reread, left>>

FullFails ==
  /\ task.kind = "full" /\ left > 0 /\ left' = left - 1
  /\ Reconciled
  /\ task' = Idle /\ pass' = "due"
  /\ UNCHANGED <<kernel, queue, view, reread, lost>>

-----------------------------------------------------------------------------
(* The pass.                                                               *)

\* The pass of a full reconciliation ends the holding back.
Release == IF full_pass THEN {} ELSE held_routes

\* diff: PolyWAN's routes that the view lacks, but for those held.
Plan(routes) == (Own \ routes) \ Release

Planned(routes) ==
  /\ task' = IF Plan(routes) = {} THEN Idle ELSE [kind |-> "execute", ops |-> Plan(routes)]
  /\ held_routes' = Release
  /\ full_pass' = FALSE
  /\ UNCHANGED <<removals, conflict, clean_reconciliations>>

Least(S) == CHOOSE x \in S : \A y \in S : x <= y

Reread(tables) ==
  [Dump("reread", {Least(tables)}, FALSE) EXCEPT !.then = tables \ {Least(tables)}]

step ==
  /\ task = Idle /\ pass \in {"due", "batch"}
  /\ pass' = "idle"
  /\ reread' = {}
  /\ IF reread = {}
     THEN Planned(view)
     ELSE /\ task' = Reread(reread)
          /\ UNCHANGED ownership
  /\ UNCHANGED <<kernel, queue, view, lost, contested, left>>

\* replace_table: the table holds what either read saw.
RereadEnds ==
  /\ task.kind = "reread" /\ ~ task.reading /\ task.confirm = {}
  /\ LET routes == (view \ In(task.tables)) \cup task.got IN
     /\ view' = routes
     /\ IF task.then = {}
        THEN Planned(routes)
        ELSE /\ task' = Reread(task.then)
             /\ UNCHANGED ownership
  /\ UNCHANGED <<kernel, queue, reread, pass, lost, contested, left>>

\* An error of a re-read ends it; the pass goes on with what was read before.
RereadFails ==
  /\ task.kind = "reread" /\ left > 0 /\ left' = left - 1
  /\ Planned(view)
  /\ lost' = TRUE
  /\ UNCHANGED <<kernel, queue, view, reread, pass, contested>>

\* execute: a successful operation changes the view at once.
Execute ==
  /\ task.kind = "execute"
  /\ LET e == Least(task.ops) IN
     /\ kernel' = kernel \cup {e}
     /\ view' = view \cup {e}
     /\ Notify([op |-> "new", e |-> e, how |-> "create"])
     /\ IF task.ops = {e} THEN task' = Idle /\ pass' = "left"
        ELSE task' = [task EXCEPT !.ops = @ \ {e}] /\ UNCHANGED pass
  /\ UNCHANGED <<reread, ownership, contested, left>>

-----------------------------------------------------------------------------
Init ==
  /\ kernel \in SUBSET Entries
  /\ queue = << >> /\ view = kernel /\ reread = {}
  /\ task = Idle
  /\ pass = "due"
  /\ removals = 0 /\ conflict = FALSE /\ clean_reconciliations = 0
  /\ held_routes = {} /\ full_pass = FALSE
  /\ lost = FALSE /\ contested = {}
  /\ left = MaxChanges

DaemonNext ==
  \/ step \/ ReadBatch
  \/ \E t \in Tables : ConfirmTable(t)
  \/ FullEnds \/ RereadEnds \/ Execute

Next ==
  \/ KernelNext \/ DaemonNext
  \/ receive \/ full_reconciliation
  \/ RetryDump \/ FullFails \/ RereadFails

Spec == Init /\ [][Next]_vars

\* The State task goes on; its select starves neither the notifications nor the
\* timer of full reconciliations.
Fairness == WF_vars(DaemonNext) /\ SF_vars(receive) /\ SF_vars(full_reconciliation)

FairSpec == Spec /\ Fairness

-----------------------------------------------------------------------------
(* Properties.                                                             *)

\* Types of the variables; the queue holds at most the overrun marker more than
\* its bound.
TypeOK ==
  /\ kernel \subseteq Entries /\ view \subseteq Entries
  /\ reread \subseteq Tables
  /\ Len(queue) <= MaxQueue + 1
  /\ task.kind \in {"idle", "full", "reread", "execute"}
  /\ task.kind = "execute" => task.ops # {} /\ task.ops \subseteq Own
  /\ pass \in {"idle", "left", "batch", "due"}
  /\ clean_reconciliations \in 0..2 /\ held_routes \subseteq Own
  /\ conflict \in BOOLEAN /\ full_pass \in BOOLEAN

\* Section 12.2: when nothing is queued, scheduled or in progress, the view
\* holds no route that the kernel has dropped, with or without a notification,
\* at whatever moment of a dump.  (After an overrun, older notifications that
\* are delivered later may undo part of the resynchronisation, and a failed
\* re-read is not repeated, until the next full reconciliation.)
NoGhost ==
  (queue = << >> /\ task = Idle /\ reread = {} /\ pass \in {"idle", "left"} /\ ~ lost)
    => view \subseteq kernel

\* FR-COEX-4: in a conflict, a route removed by a third party is added again
\* only by the pass of a full reconciliation.
HeldInConflict ==
  [][(kernel' \ kernel) \cap contested = {}]_vars

\* FR-REC-6, FR-COEX-3, FR-COEX-4: once others stop, the view becomes exact,
\* PolyWAN's routes are all installed and the conflict is over, for good.
Settled == view = kernel /\ Own \subseteq kernel /\ ~ conflict
=============================================================================
