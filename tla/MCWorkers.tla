----------------------------- MODULE MCWorkers -----------------------------
(***************************************************************************)
(* Users of child processes, each on a small instance: the                 *)
(* reconciliation with its worker, over reloads that end and begin the     *)
(* family or move a path (Reconcile), the mail notifier (Mail), and the    *)
(* hooks' notifier with the notification test (Hooks).  In a behaviour one *)
(* of them, the focus, moves and the others stay as they began.            *)
(***************************************************************************)
EXTENDS Reconcile

CONSTANTS
    QUEUE, BATCH_CHANGES, WAITING, Hour, Coalesce,               \* of Mail
    Users, NoUser                                                \* of Hooks

VARIABLES
    focus,
    now, config, fresh, notify, events, batch, admission, waiting, ids, running,
    turn, line, test, phase, polled, pending, emitted, reloads, tests, log,
    story,                                                       \* of Mail
    arrivals, settings, notifier, hook_user, free, acquiring, job, testing, busy,
    offered, republished                                         \* of Hooks

\* The family ends or begins; the path moves while another one takes its
\* interface, or comes back alone.
FamilyConfigs == {{}, {<<1, "a">>}, {<<1, "b">>, <<2, "a">>}}

M == INSTANCE Mail WITH Emails <- {1}, Retries <- <<1>>,
                        MaxTime <- 3, MaxEvents <- 3, MaxReloads <- 2, MaxTests <- 1
H == INSTANCE Hooks
       WITH notify <- settings, test <- testing, emitted <- offered, reloads <- republished,
            HookNames <- {1, 2}, Slots <- 1, MaxEvents <- 2, MaxTests <- 1, MaxReloads <- 2

mail  == <<now, config, fresh, notify, events, batch, admission, waiting, ids, running,
           turn, line, test, phase, polled, pending, emitted, reloads, tests, log, story>>
hooks == <<arrivals, settings, notifier, hook_user, free, acquiring, job, testing, busy,
           offered, republished>>

\* Three events, or two and a test.
MailBound == tests' = 0 \/ emitted' < 3

\* Two events over two reloads, or one over one and a test.
HooksBound == testing'.n = 2 \/ (offered' < 2 /\ republished' < 2)

WorkersInit ==
    /\ focus \in {"reconcile", "mail", "hooks"}
    /\ Init /\ (focus # "reconcile" => cfg = {})
    /\ M!Init /\ (focus # "mail" => config = M!NoEmail)
    /\ H!Init /\ (focus # "hooks" => settings = CHOOSE s \in H!Notifies : TRUE)

ReconcileNext == focus = "reconcile" /\ UNCHANGED <<focus, mail, hooks>> /\ Next
MailNext      == focus = "mail" /\ UNCHANGED <<focus, vars, hooks>> /\ M!Next /\ MailBound
HooksNext     == focus = "hooks" /\ UNCHANGED <<focus, vars, mail>> /\ H!Next /\ HooksBound

WorkersSpec ==
    WorkersInit /\ [][ReconcileNext \/ MailNext \/ HooksNext]_<<focus, vars, mail, hooks>>

-----------------------------------------------------------------------------
(* The properties of Mail and Hooks; those of Reconcile keep their names. *)

\* FR-MAIL-2: at most max_per_hour notifications, and one notice, are admitted
\* in any rolling hour, over reloads that remove and restore email.
RollingHour == focus = "mail" => M!RollingHour

\* FR-MAIL-3: a message is submitted again only after the delay of its retry.
RetriesAreSpaced == focus = "mail" => M!RetriesAreSpaced

\* A hook runs as the user of the very settings that selected it, over reloads.
RunsAsConfigured == focus = "hooks" => H!RunsAsConfigured
=============================================================================
