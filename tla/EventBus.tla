------------------------------ MODULE EventBus ------------------------------
(***************************************************************************)
(* The event bus (events.rs) and its readers: the State task emits events  *)
(* into the history (the ring) and offers them to the bounded queues of    *)
(* the notifiers without waiting, on another thread than the notifiers and *)
(* the API's readers; `polywan events --follow` (cli.rs) reads the history *)
(* with long polls (api/mod.rs, events) over evictions and restarts.       *)
(*                                                                         *)
(* An event is its sequence number, its type and its serialised size.      *)
(***************************************************************************)
EXTENDS Integers, Sequences, SequencesExt, FiniteSetsExt, Functions

CONSTANTS
    RING_EVENTS, RING_BYTES,    \* the bounds of the ring
    Kinds,                      \* the types of the events
    Sizes,                      \* their sizes
    Selections,                 \* the types that a configuration selects
    Notifiers,                  \* the number of notifiers
    Capacity, MaxBytes,         \* the bounds of a notifier's queue
    Limits,                     \* the limits a client may ask for
    MaxEvents,                  \* bound: events of an instance
    MaxRestarts                 \* bound: restarts of the daemon

VARIABLES
    instance,   \* the running daemon
    seq,        \* Bus::seq
    ring,       \* Ring::events
    latest,     \* the watch channel of the long polls
    emitting,   \* where emit is: the event, the notifier, the step; or <<>>
    select,     \* the types each notifier receives
    queue,      \* the queues of the notifiers
    bytes,      \* their shared byte counters
    taken,      \* events received whose bytes are not subtracted yet
    dropped,    \* the events dropped for each notifier
    cursor,     \* the follower's position: the instance that answered, and
                \* the sequence number of the last event it got, or 0
    request,    \* its request that waits: its limit; or <<>>
    got,        \* history: the events it got since the last reset
    told,       \* history: those it was told to be without
    hollow      \* history: the last reset brought no event for an old position

busVars    == <<instance, seq, ring, latest, emitting, select>>
queueVars  == <<queue, bytes, taken, dropped>>
clientVars == <<cursor, request, got, told, hollow>>
vars       == <<busVars, queueVars, clientVars>>

Size(events) == FoldSeq(LAMBDA e, n : e.size + n, 0, events)

Event == [seq : Nat, kind : Kinds, size : Sizes]

Init ==
    /\ instance = 0
    /\ seq = 0
    /\ ring = <<>>
    /\ latest = 0
    /\ emitting = <<>>
    /\ select = [n \in 1..Notifiers |-> Kinds]
    /\ queue = [n \in 1..Notifiers |-> <<>>]
    /\ bytes = [n \in 1..Notifiers |-> 0]
    /\ taken = [n \in 1..Notifiers |-> 0]
    /\ dropped = [n \in 1..Notifiers |-> 0]
    /\ cursor = [instance |-> 0, after |-> 0]
    /\ request = <<>>
    /\ got = <<>>
    /\ told = {}
    /\ hollow = FALSE

-----------------------------------------------------------------------------
(* The State task: Bus::emit, one step per access to shared state. *)

\* Ring::push evicts the oldest events beyond the bounds.
Evicted(events) ==
    LET fits(i) == LET rest == SubSeq(events, i, Len(events))
                   IN  Len(rest) <= RING_EVENTS /\ Size(rest) <= RING_BYTES
        first   == Min({i \in 1..(Len(events) + 1) : fits(i)})
    IN  SubSeq(events, first, Len(events))

emit(kind, size) ==
    /\ emitting = <<>>
    /\ seq < MaxEvents
    /\ seq' = seq + 1
    /\ LET event == [seq |-> seq', kind |-> kind, size |-> size]
       IN  emitting' = <<event, 0, "ring">>
    /\ UNCHANGED <<instance, ring, latest, select, queueVars, clientVars>>

\* What emit does next, after notifier n.
After(event, n) ==
    IF n = Notifiers THEN <<event, n, "tell">> ELSE <<event, n + 1, "count">>

ring_push ==
    /\ emitting # <<>> /\ emitting[3] = "ring"
    /\ ring' = Evicted(Append(ring, emitting[1]))
    /\ emitting' = After(emitting[1], 0)
    /\ UNCHANGED <<instance, seq, latest, select, queueVars, clientVars>>

\* The event's bytes are counted before it is sent.
count_bytes ==
    /\ emitting # <<>> /\ emitting[3] = "count"
    /\ LET event == emitting[1]
           n     == emitting[2]
       IN  IF event.kind \notin select[n]
             THEN emitting' = After(event, n) /\ UNCHANGED bytes
             ELSE /\ bytes' = [bytes EXCEPT ![n] = @ + event.size]
                  /\ emitting' = <<event, n,
                                   IF bytes'[n] > MaxBytes THEN "drop" ELSE "send">>
    /\ UNCHANGED <<instance, seq, ring, latest, select, queue, taken, dropped,
                   clientVars>>

try_send ==
    /\ emitting # <<>> /\ emitting[3] = "send"
    /\ LET event == emitting[1]
           n     == emitting[2]
       IN  IF Len(queue[n]) < Capacity
             THEN /\ queue' = [queue EXCEPT ![n] = Append(@, event)]
                  /\ emitting' = After(event, n)
             ELSE /\ emitting' = <<event, n, "drop">>
                  /\ UNCHANGED queue
    /\ UNCHANGED <<instance, seq, ring, latest, select, bytes, taken, dropped,
                   clientVars>>

\* Mutant: emit returns after a drop, and the long polls are not told.
drop_event_untold ==
    /\ emitting # <<>> /\ emitting[3] = "drop"
    /\ LET n == emitting[2]
       IN  /\ bytes' = [bytes EXCEPT ![n] = @ - emitting[1].size]
           /\ dropped' = [dropped EXCEPT ![n] = @ + 1]
    /\ emitting' = <<>>
    /\ UNCHANGED <<instance, seq, ring, latest, select, queue, taken, clientVars>>

drop_event ==
    /\ emitting # <<>> /\ emitting[3] = "drop"
    /\ LET n == emitting[2]
       IN  /\ bytes' = [bytes EXCEPT ![n] = @ - emitting[1].size]
           /\ dropped' = [dropped EXCEPT ![n] = @ + 1]
           /\ emitting' = After(emitting[1], n)
    /\ UNCHANGED <<instance, seq, ring, latest, select, queue, taken, clientVars>>

send_replace ==
    /\ emitting # <<>> /\ emitting[3] = "tell"
    /\ latest' = emitting[1].seq
    /\ emitting' = <<>>
    /\ UNCHANGED <<instance, seq, ring, select, queueVars, clientVars>>

\* A reload changes what a notifier receives from now on.
select_types(n, kinds) ==
    /\ emitting = <<>>
    /\ kinds # select[n]
    /\ select' = [select EXCEPT ![n] = kinds]
    /\ UNCHANGED <<instance, seq, ring, latest, emitting, queueVars, clientVars>>

-----------------------------------------------------------------------------
(* The notifiers: Queue::recv and try_recv. *)

recv(n) ==
    /\ taken[n] = 0 /\ queue[n] # <<>>
    /\ taken' = [taken EXCEPT ![n] = Head(queue[n]).size]
    /\ queue' = [queue EXCEPT ![n] = Tail(@)]
    /\ UNCHANGED <<busVars, bytes, dropped, clientVars>>

subtract_bytes(n) ==
    /\ taken[n] # 0
    /\ bytes' = [bytes EXCEPT ![n] = @ - taken[n]]
    /\ taken' = [taken EXCEPT ![n] = 0]
    /\ UNCHANGED <<busVars, queue, dropped, clientVars>>

-----------------------------------------------------------------------------
(* The follower and the API's reader (api/mod.rs, events; Ring::page). *)

RingLatest == IF ring = <<>> THEN 0 ELSE Last(ring).seq

\* Mutant: history evicted since the cursor is not reported.
Truncated_never(after, oldest) == FALSE

Truncated(after, oldest) == after # 0 /\ after + 1 < oldest

\* The reply to the cursor: events from the start of the history if it is of
\* another instance or beyond the latest event.
page(limit) ==
    LET reset  == cursor.instance # instance \/ cursor.after > RingLatest
        after  == IF reset THEN 0 ELSE cursor.after
        oldest == IF ring = <<>> THEN RingLatest + 1 ELSE Head(ring).seq
        newer  == SelectSeq(ring, LAMBDA e : e.seq > after)
        fits(n) == n <= limit /\ (n > 1 => Size(SubSeq(newer, 1, n)) <= RING_BYTES)
    IN  [reset |-> reset,
         truncated |-> Truncated(after, oldest),
         events |-> SubSeq(newer, 1, Max({n \in 0..Len(newer) : fits(n)}))]

\* The follower continues after the last event it ever got.
Replied(p) ==
    LET new   == [i \in DOMAIN p.events |-> p.events[i].seq]
        start == p.reset \/ cursor.after = 0
        first == IF new = <<>> THEN 1 ELSE new[1]
    IN  /\ cursor' = [instance |-> instance,
                      after |-> IF new = <<>> THEN cursor.after ELSE Last(new)]
        /\ request' = <<>>
        /\ got' = IF p.reset THEN new ELSE got \o new
        /\ told' = IF start THEN 1..(first - 1)
                   ELSE told \cup (IF p.truncated THEN (cursor.after + 1)..(first - 1)
                                                  ELSE {})
        /\ hollow' = IF p.reset THEN new = <<>> /\ cursor.after # 0 ELSE hollow

\* A request that finds news, or a reset, is answered at once; another waits.
get_events(limit) ==
    /\ request = <<>>
    /\ LET p == page(limit)
       IN  IF p.events = <<>> /\ ~p.reset
             THEN request' = <<limit>> /\ UNCHANGED <<cursor, got, told, hollow>>
             ELSE Replied(p)
    /\ UNCHANGED <<busVars, queueVars>>

wake_up ==
    /\ request # <<>>
    /\ latest > cursor.after
    /\ Replied(page(request[1]))
    /\ UNCHANGED <<busVars, queueVars>>

wait_ends ==
    /\ request # <<>>
    /\ Replied(page(request[1]))
    /\ UNCHANGED <<busVars, queueVars>>

-----------------------------------------------------------------------------

\* The daemon restarts: a new instance with an empty history.  A request
\* that waits fails; the follower keeps its cursor and asks again.
Restart ==
    /\ instance < MaxRestarts
    /\ instance' = instance + 1
    /\ seq' = 0
    /\ ring' = <<>>
    /\ latest' = 0
    /\ emitting' = <<>>
    /\ queue' = [n \in 1..Notifiers |-> <<>>]
    /\ bytes' = [n \in 1..Notifiers |-> 0]
    /\ taken' = [n \in 1..Notifiers |-> 0]
    /\ dropped' = [n \in 1..Notifiers |-> 0]
    /\ request' = <<>>
    /\ UNCHANGED <<select, cursor, got, told, hollow>>

Emission == ring_push \/ count_bytes \/ try_send \/ drop_event \/ send_replace

Client == (\E limit \in Limits : get_events(limit)) \/ wake_up \/ wait_ends

Next ==
    \/ \E kind \in Kinds, size \in Sizes : emit(kind, size)
    \/ Emission
    \/ \E n \in 1..Notifiers, kinds \in Selections : select_types(n, kinds)
    \/ \E n \in 1..Notifiers : recv(n) \/ subtract_bytes(n)
    \/ Client
    \/ Restart

Spec == Init /\ [][Next]_vars

\* emit never waits; the follower asks again after every answer, and a request
\* that is woken is answered.  Nothing is assumed of the end of a wait.
Fairness ==
    /\ WF_vars(Emission)
    /\ WF_vars(\E limit \in Limits : get_events(limit))
    /\ WF_vars(wake_up)

FairSpec == Spec /\ Fairness

-----------------------------------------------------------------------------
(* Properties. *)

\* The bus and its readers keep their types; in particular the byte counters,
\* which are unsigned in the code and updated by two threads, never fall
\* below zero.
TypeOK ==
    /\ instance \in 0..MaxRestarts
    /\ seq \in 0..MaxEvents
    /\ latest \in 0..seq
    /\ \A i \in DOMAIN ring : ring[i] \in Event
    /\ \A n \in 1..Notifiers :
         /\ bytes[n] \in Nat /\ taken[n] \in Nat /\ dropped[n] \in Nat
         /\ Len(queue[n]) <= Capacity
    /\ cursor \in [instance : 0..MaxRestarts, after : Nat]

\* The follower was told of every event that it is past and did not get.
Accounted ==
    cursor.instance = instance /\ cursor.after <= RingLatest =>
        Range(got) \cup told = 1..cursor.after

\* FR-API-2: the follower misses no event unless a reply says that history
\* was evicted or that the daemon restarted, and gets none twice; provided
\* that the daemon, when it answers for the first time, has a history.
NoSilentGap ==
    /\ ~hollow => Accounted
    /\ \A i, j \in DOMAIN got : i < j => got[i] < got[j]

\* docs/api.md: across a restart the follower prints the new daemon's history
\* from the start.
RestartIsFollowed == Accounted

\* FR-API-2: the follower gets to the end of the history of the daemon that
\* runs, over evictions, limits and restarts.
CaughtUp ==
    \/ emitting # <<>> \/ seq = 0
    \/ cursor = [instance |-> instance, after |-> seq]
=============================================================================
