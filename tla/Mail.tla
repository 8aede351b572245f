-------------------------------- MODULE Mail --------------------------------
(***************************************************************************)
(* Email notifications (mail.rs): events are coalesced into batches,       *)
(* batches are admitted by a rolling-hour limit, messages wait for         *)
(* sendmail, are retried, and get a last attempt when the daemon stops;    *)
(* meanwhile reloads change or remove the configuration of email, and      *)
(* notification tests (notifytest.rs) take turns with the submissions.     *)
(*                                                                         *)
(* An email configuration is its max_per_hour; NoEmail is a configuration  *)
(* without email.  Of a message only its kind, its number, its failures    *)
(* and when it is due are kept; the bound on the bytes that wait is out of *)
(* reach of WAITING bodies of BODY_BYTES.                                  *)
(***************************************************************************)
EXTENDS Integers, Sequences, SequencesExt, FiniteSetsExt

CONSTANTS
    Emails,         \* the email configurations: values of max_per_hour
    QUEUE,          \* events in the notifier's queue
    BATCH_CHANGES,  \* changes that a batch retains
    WAITING,        \* messages that wait
    Hour,
    Coalesce,
    Retries,        \* the delays of the retries
    None,
    MaxTime,        \* bound: the time
    MaxEvents,      \* bound: events emitted
    MaxReloads,     \* bound: reloads
    MaxTests        \* bound: notification tests

NoEmail == 0

VARIABLES
    now,
    config,      \* the configuration of email last published
    fresh,       \* the notifier has not seen it yet
    notify,      \* the configuration that the notifier works with
    events,      \* events in its queue
    batch,       \* Mail::batch, or None
    admission,   \* Mail::admission
    waiting,     \* Mail::waiting
    ids,         \* the Message-IDs given so far
    running,     \* the message being submitted, or None
    turn,        \* who holds the sendmail turn: "mail", "test" or "free"
    line,        \* who waits for it, in the order of the semaphore
    test,        \* the notification test: "none", "waits" or "runs"
    phase,       \* "drive", "stop" (requested), "flush" or "ended"
    polled,      \* the select found neither a reload nor a stop and goes
                 \* on to its other branches
    pending,     \* the messages that flush still submits
    emitted, reloads, tests,    \* what the bounds count
    log,         \* history: the batches admitted and the notices
    story        \* history: the submissions of each message

mailVars  == <<batch, admission, waiting>>
sendVars  == <<running, turn, line, pending>>
confVars  == <<config, fresh, notify>>
bounds    == <<emitted, reloads, tests>>
history   == <<log, story>>
vars == <<now, confVars, events, mailVars, ids, sendVars, test, phase, polled, bounds, history>>

Messages == [kind : {"notification", "suppressed"}, id : Nat, failures : Nat, due : Nat]

Init ==
    /\ now = 0
    /\ config \in Emails \cup {NoEmail} /\ notify = config
    /\ fresh = FALSE
    /\ events = 0
    /\ batch = None
    /\ admission = [admitted |-> <<>>, notice |-> None, suppressed |-> 0]
    /\ waiting = <<>>
    /\ ids = 0
    /\ running = None
    /\ turn = "free"
    /\ line = <<>>
    /\ test = "none"
    /\ phase = "drive"
    /\ polled = FALSE
    /\ pending = <<>>
    /\ emitted = 0 /\ reloads = 0 /\ tests = 0
    /\ log = <<>>
    /\ story = <<>>

-----------------------------------------------------------------------------
(* The decisions (struct Mail): functions of its state. *)

\* Batch::add of n changes to the open batch, or to a new one.
Added(b, n) ==
    LET old  == IF b = None
                  THEN [deadline |-> now + Coalesce, changes |-> 0, omitted |-> 0]
                  ELSE b
        kept == Min({n, BATCH_CHANGES - old.changes})
    IN  IF n = 0 THEN b
        ELSE [old EXCEPT !.changes = @ + kept, !.omitted = @ + n - kept]

InHour(times) == SelectSeq(times, LAMBDA t : now - t < Hour)

\* Admission::admit: the new state, and what is to be sent.
admit(a, max) ==
    LET admitted == InHour(a.admitted)
        notice   == a.notice = None \/ now - a.notice >= Hour
    IN  IF Len(admitted) < max
          THEN [state |-> [a EXCEPT !.admitted = Append(admitted, now), !.suppressed = 0],
                sends |-> <<"notification">>]
          ELSE [state |-> [admitted |-> admitted,
                           notice |-> IF notice THEN now ELSE a.notice,
                           suppressed |-> a.suppressed + 1],
                sends |-> IF notice THEN <<"suppressed">> ELSE <<>>]

\* Mail::wait evicts the oldest message beyond the bound.
Queued(messages, new) ==
    LET all == messages \o new
    IN  IF Len(all) > WAITING THEN Tail(all) ELSE all

\* Mail::close_batch of batch b: what it does to the rest.
Closed(b) ==
    IF b = None
      THEN [admission |-> admission, waiting |-> waiting, ids |-> ids, log |-> log,
            story |-> story]
      ELSE LET a   == admit(admission, notify)
               new == [i \in DOMAIN a.sends |->
                         [kind |-> a.sends[i], id |-> ids + 1, failures |-> 0, due |-> now]]
           IN  [admission |-> a.state,
                waiting |-> Queued(waiting, new),
                ids |-> ids + Len(new),
                log |-> log \o [i \in DOMAIN new |->
                                  [kind |-> new[i].kind, at |-> now, max |-> notify]],
                story |-> IF new = <<>> THEN story
                          ELSE story \o [i \in 1..(ids + 1 - Len(story)) |-> <<>>]]

\* Mail::take_due: the index of the first message due earliest.
NextDue ==
    LET due == {i \in DOMAIN waiting : waiting[i].due <= now}
    IN  {i \in due : \A j \in due : \/ waiting[i].due < waiting[j].due
                                    \/ waiting[i].due = waiting[j].due /\ i <= j}

\* Mutant: removing email also forgets what was admitted.
discard_all ==
    /\ waiting' = <<>> /\ batch' = None
    /\ admission' = [admitted |-> <<>>, notice |-> None, suppressed |-> 0]

discard == waiting' = <<>> /\ batch' = None /\ UNCHANGED admission

\* Mail::failed: the message to wait for its retry, if there is one.
Retried(m) ==
    IF m.failures < Len(Retries)
      THEN <<[m EXCEPT !.failures = @ + 1, !.due = now + Retries[m.failures + 1]]>>
      ELSE <<>>

\* finished: only a failed submission is retried, and only if it may be.
Finished(m, result, retry) ==
    IF result = "failed" /\ retry THEN Retried(m) ELSE <<>>

Note(m, what) == [story EXCEPT ![m.id] = Append(@, [what |-> what, at |-> now])]

-----------------------------------------------------------------------------
(* The sendmail turn: a fair semaphore of one permit. *)

Available(who) == turn = "free" /\ (line # <<>> => Head(line) = who)

Without(who) == SelectSeq(line, LAMBDA w : w # who)

\* The notifier's wait for the turn ends with every other branch it takes.
LeaveLine == line' = Without("mail")

-----------------------------------------------------------------------------
(* The notifier's loop (drive).  Its select polls the branches in order, on *)
(* another thread than the State task, which may publish a reload or the    *)
(* stop between two of them: poll is the first half, that found neither.    *)

\* The branch with the turn, the one with the batch's deadline.
DueReady   == running = None /\ NextDue # {} /\ Available("mail")
CloseReady == batch # None /\ batch.deadline <= now

\* The notifier has to wait in line for the turn.
MustQueue == NextDue # {} /\ running = None /\ ~Available("mail") /\ ~Contains(line, "mail")

Ready == running # None \/ DueReady \/ MustQueue \/ CloseReady \/ events > 0

config_changed ==
    /\ phase \in {"drive", "stop"} /\ ~polled
    /\ fresh
    /\ fresh' = FALSE
    /\ notify' = config
    /\ IF notify # NoEmail /\ config = NoEmail THEN discard ELSE UNCHANGED mailVars
    /\ LeaveLine
    /\ UNCHANGED <<now, config, events, ids, running, turn, test, phase, polled, pending,
                   bounds, history>>

\* Mutant: flush submits everything that waits.
Due_all(messages) == messages

\* What flush tries: the messages that are due; the others are discarded.
Due(messages) == SelectSeq(messages, LAMBDA m : m.due <= now)

\* The stop: the queue and the batch are closed, and flush begins.
stop_received ==
    /\ phase = "stop" /\ ~polled
    /\ ~fresh
    /\ LET c == Closed(Added(batch, events))
       IN  IF notify # NoEmail
             THEN /\ batch' = None
                  /\ admission' = c.admission
                  /\ waiting' = <<>>
                  /\ pending' = Due(c.waiting)
                  /\ ids' = c.ids /\ log' = c.log /\ story' = c.story
             ELSE UNCHANGED <<mailVars, pending, ids, history>>
    /\ events' = 0
    /\ phase' = "flush"
    /\ LeaveLine
    /\ UNCHANGED <<now, confVars, running, turn, test, polled, bounds>>

\* Neither a reload nor a stop is there, and another branch may be ready.
poll ==
    /\ phase = "drive" /\ ~polled
    /\ ~fresh
    /\ Ready
    /\ polled' = TRUE
    /\ UNCHANGED <<now, confVars, events, mailVars, ids, sendVars, test, phase, bounds,
                   history>>

submission_ends(result) ==
    /\ polled /\ running # None
    /\ waiting' = Queued(waiting, Finished(running, result, notify # NoEmail))
    /\ story' = Note(running, result)
    /\ running' = None
    /\ turn' = "free"
    /\ polled' = FALSE
    /\ UNCHANGED <<now, confVars, events, batch, admission, ids, line, test, phase,
                   pending, bounds, log>>

\* A message is due and the turn is there: it is taken and submitted.
submit_due ==
    /\ polled /\ DueReady
    /\ \E i \in NextDue :
         /\ running' = waiting[i]
         /\ waiting' = RemoveAt(waiting, i)
         /\ story' = Note(waiting[i], "start")
    /\ turn' = "mail"
    /\ polled' = FALSE
    /\ LeaveLine
    /\ UNCHANGED <<now, confVars, events, batch, admission, ids, test, phase, pending,
                   bounds, log>>

close_batch ==
    /\ polled /\ ~DueReady /\ CloseReady
    /\ LET c == Closed(batch)
       IN  /\ admission' = c.admission
           /\ waiting' = c.waiting
           /\ ids' = c.ids /\ log' = c.log /\ story' = c.story
    /\ batch' = None
    /\ polled' = FALSE
    /\ LeaveLine
    /\ UNCHANGED <<now, confVars, events, running, turn, test, phase, pending, bounds>>

recv ==
    /\ polled /\ ~DueReady /\ ~CloseReady
    /\ events > 0
    /\ events' = events - 1
    /\ batch' = IF notify # NoEmail THEN Added(batch, 1) ELSE batch
    /\ polled' = FALSE
    /\ LeaveLine
    /\ UNCHANGED <<now, confVars, admission, waiting, ids, running, turn, test, phase,
                   pending, bounds, history>>

\* No branch was ready: the select sleeps, in line for the turn if a message
\* is due.
sleep ==
    /\ polled /\ ~DueReady /\ ~CloseReady /\ events = 0
    /\ polled' = FALSE
    /\ line' = IF MustQueue THEN Append(line, "mail") ELSE line
    /\ UNCHANGED <<now, confVars, events, mailVars, ids, running, turn, test, phase,
                   pending, bounds, history>>

-----------------------------------------------------------------------------
(* The last submissions (flush), within SHUTDOWN. *)

flush_ends(result) ==
    /\ phase = "flush" /\ running # None
    /\ story' = Note(running, result)
    /\ running' = None
    /\ turn' = "free"
    /\ UNCHANGED <<now, confVars, events, mailVars, ids, line, test, phase, polled,
                   pending, bounds, log>>

flush_waits ==
    /\ phase = "flush" /\ running = None /\ pending # <<>>
    /\ ~Available("mail") /\ ~Contains(line, "mail")
    /\ line' = Append(line, "mail")
    /\ UNCHANGED <<now, confVars, events, mailVars, ids, running, turn, test, phase,
                   polled, pending, bounds, history>>

flush_next ==
    /\ phase = "flush" /\ running = None /\ pending # <<>>
    /\ Available("mail")
    /\ running' = Head(pending)
    /\ pending' = Tail(pending)
    /\ story' = Note(Head(pending), "start")
    /\ turn' = "mail"
    /\ LeaveLine
    /\ UNCHANGED <<now, confVars, events, mailVars, ids, test, phase, polled, bounds, log>>

\* All is done, or SHUTDOWN is over and a submission that still runs is
\* killed; the turn is closed, which ends a test that waits for it.
flush_over ==
    /\ phase = "flush"
    /\ phase' = "ended"
    /\ running' = None
    /\ pending' = <<>>
    /\ turn' = IF turn = "mail" THEN "free" ELSE turn
    /\ line' = <<>>
    /\ test' = IF test = "waits" THEN "none" ELSE test
    /\ UNCHANGED <<now, confVars, events, mailVars, ids, polled, bounds, history>>

-----------------------------------------------------------------------------
(* Notification tests (Tester::begin, run): one at a time. *)

begin_test ==
    /\ tests < MaxTests
    /\ test = "none" /\ phase # "ended" /\ config # NoEmail
    /\ tests' = tests + 1
    /\ ids' = ids + 1
    /\ test' = "waits"
    /\ line' = Append(line, "test")
    /\ UNCHANGED <<now, confVars, events, mailVars, running, turn, phase, polled, pending,
                   emitted, reloads, history>>

test_turn ==
    /\ test = "waits" /\ turn = "free" /\ Head(line) = "test"
    /\ test' = "runs"
    /\ turn' = "test"
    /\ line' = Tail(line)
    /\ UNCHANGED <<now, confVars, events, mailVars, ids, running, phase, polled, pending,
                   bounds, history>>

\* The attempt ends, or the budget does.
test_ends ==
    /\ test # "none"
    /\ turn' = IF test = "runs" THEN "free" ELSE turn
    /\ line' = Without("test")
    /\ test' = "none"
    /\ UNCHANGED <<now, confVars, events, mailVars, ids, running, phase, polled, pending,
                   bounds, history>>

-----------------------------------------------------------------------------
(* The State task and time. *)

emit ==
    /\ phase = "drive" /\ emitted < MaxEvents
    /\ config # NoEmail
    /\ emitted' = emitted + 1
    /\ events' = Min({events + 1, QUEUE})
    /\ UNCHANGED <<now, confVars, mailVars, ids, sendVars, test, phase, polled, reloads,
                   tests, history>>

reload(email) ==
    /\ phase = "drive" /\ reloads < MaxReloads
    /\ email # config
    /\ reloads' = reloads + 1
    /\ config' = email
    /\ fresh' = TRUE
    /\ UNCHANGED <<now, notify, events, mailVars, ids, sendVars, test, phase, polled,
                   emitted, tests, history>>

stop ==
    /\ phase = "drive"
    /\ phase' = "stop"
    /\ UNCHANGED <<now, confVars, events, mailVars, ids, sendVars, test, polled, bounds,
                   history>>

Tick ==
    /\ now < MaxTime
    /\ now' = now + 1
    /\ UNCHANGED <<confVars, events, mailVars, ids, sendVars, test, phase, polled, bounds,
                   history>>

\* A message that cannot be rendered within its bound is not submitted.
Rendered == {"built", "unbuildable"}

\* A run of sendmail exits with success, or does not within its deadline.
Ran == {"accepted", "failed"}

Results == Ran \cup (Rendered \ {"built"})

Notifier ==
    \/ config_changed
    \/ stop_received
    \/ poll
    \/ \E result \in Results : submission_ends(result) \/ flush_ends(result)
    \/ submit_due
    \/ close_batch
    \/ recv
    \/ sleep
    \/ flush_waits
    \/ flush_next
    \/ flush_over

Next ==
    \/ Notifier
    \/ begin_test
    \/ test_turn
    \/ test_ends
    \/ emit
    \/ \E email \in Emails \cup {NoEmail} : reload(email)
    \/ stop
    \/ Tick

Spec == Init /\ [][Next]_vars

-----------------------------------------------------------------------------
(* Properties. *)

\* The notifier keeps its types and its bounds: its batch and the messages
\* that wait are limited, whatever arrives and fails.
TypeOK ==
    /\ now \in 0..MaxTime
    /\ {config, notify} \subseteq Emails \cup {NoEmail}
    /\ fresh \in BOOLEAN
    /\ events \in 0..QUEUE
    /\ batch # None => batch.changes \in 1..BATCH_CHANGES /\ batch.omitted \in Nat
    /\ waiting \in Seq(Messages) /\ Len(waiting) <= WAITING
    /\ pending \in Seq(Messages) /\ Len(pending) <= WAITING
    /\ running = None \/ running \in Messages
    /\ turn \in {"free", "mail", "test"}
    /\ test \in {"none", "waits", "runs"}
    /\ phase \in {"drive", "stop", "flush", "ended"}

\* FR-MAIL-2: at most max_per_hour notifications are admitted in any rolling
\* hour, and at most one suppression notice, over reloads that change, remove
\* and restore email.
RollingHour ==
    \A i \in DOMAIN log :
        LET same == {j \in 1..i : log[j].kind = log[i].kind /\ log[i].at - log[j].at < Hour}
        IN  Cardinality(same) <= IF log[i].kind = "notification" THEN log[i].max ELSE 1

\* FR-MAIL-3: a message is submitted again only after a failure and after the
\* delay of that retry, at most as often as there are delays, also while the
\* daemon stops and over reloads.
RetriesAreSpaced ==
    \A m \in DOMAIN story : \A i \in DOMAIN story[m] :
        story[m][i].what = "start" /\ i > 1 =>
            /\ story[m][i - 1].what = "failed"
            /\ i \div 2 <= Len(Retries)
            /\ story[m][i].at >= story[m][i - 1].at + Retries[i \div 2]
=============================================================================
