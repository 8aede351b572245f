------------------------------- MODULE Probe --------------------------------
(***************************************************************************)
(* The prober of one path (probe.rs): rounds of concurrent attempts, each  *)
(* ended by its reply or its deadline, and the reader of the raw socket    *)
(* that matches replies to open attempts.  The network delays, duplicates, *)
(* damages and loses packets, and a raw socket also sees the replies to    *)
(* the prober before it.                                                   *)
(*                                                                         *)
(* Simplifications.  A token is the number of its attempt: 16 random bytes *)
(* do not repeat.  Sequence numbers are taken modulo SeqSpace, identifiers *)
(* from Identifiers, both small so that they do repeat.  Round-trip times  *)
(* are in Quality.                                                         *)
(***************************************************************************)
EXTENDS Naturals, FiniteSets, Functions

CONSTANTS
  Icmp, Tcp,    \* the targets, by kind
  MaxTries,     \* Spec.attempts
  SeqSpace,     \* 2^16 in the code
  Identifiers,  \* identifiers of echo requests
  MaxAttempts   \* bound: attempts in a behaviour

Targets == Icmp \cup Tcp

VARIABLES
  prober,      \* "tick": between rounds; "round"; "report": the channel is full
  spec,        \* Spec: required_reachable and run_to_completion
  icmp,        \* struct Icmp: id, the last sequence number, the waiters
  attempt,     \* what each target's future is at
  started, samples,
  reachable, done,
  network,     \* packets that may still arrive, any number of times
  report,      \* the last RoundReport
  tokens,      \* attempts made
  first,       \* history: the first attempt of the round
  answered     \* history: attempts whose own reply came while they were open

vars == <<prober, spec, icmp, attempt, started, samples, reachable, done,
          network, report, tokens, first, answered>>

\* A target's future: "idle" before an attempt, "open" while it waits,
\* "replied" once the reader took its reply, "failed" until the deadline of an
\* attempt that ended early; "over" with the result of the target.
Future == [at : {"idle", "open", "replied", "failed", "over"},
           n : 0..MaxTries, token : 0..MaxAttempts, seq : 0..SeqSpace - 1]

Settings == [required : 1..Cardinality(Targets), run_to_completion : BOOLEAN]

Unstarted == [at |-> "idle", n |-> 0, token |-> 0, seq |-> 0]
NoReport == [passed |-> FALSE, reachable |-> 0, canceled |-> 0, none |-> TRUE]

Init ==
  /\ prober = "tick"
  /\ spec \in Settings
  /\ icmp \in [id : Identifiers, seq : 0..SeqSpace - 1, waiters : {<< >>}]
  /\ attempt = [t \in Targets |-> Unstarted]
  /\ started = 0 /\ samples = 0 /\ reachable = 0 /\ done = {}
  /\ network = {} /\ report = NoReport
  /\ tokens = 0 /\ first = 1 /\ answered = {}

-----------------------------------------------------------------------------
(* Rounds.                                                                 *)

\* ticker.tick(): the rate is fixed, missed ticks are skipped.
StartRound ==
  /\ prober = "tick"
  /\ prober' = "round"
  /\ attempt' = [t \in Targets |-> Unstarted]
  /\ started' = 0 /\ samples' = 0 /\ reachable' = 0 /\ done' = {}
  /\ first' = tokens + 1
  /\ UNCHANGED <<spec, icmp, network, report, tokens, answered>>

\* The outcome no longer depends on the targets that are left.
certain(reached, over) ==
  reached >= spec.required \/ reached + (Cardinality(Targets) - over) < spec.required

Ends(reached, over) ==
  \/ over = Targets
  \/ certain(reached, Cardinality(over)) /\ ~ spec.run_to_completion

\* Unregister: an attempt that ends, in whatever way, has no waiter.
Unregister(waiters, seqs) == Restrict(waiters, DOMAIN waiters \ seqs)

\* The result ok of target t, with its last attempt as f and waiters w: the
\* round goes on, or ends and drops the futures that are left.
Over(t, ok, f, w) ==
  LET reached == reachable + IF ok THEN 1 ELSE 0
      over == done \cup {t}
      ends == Ends(reached, over)
      open == {attempt[x].seq : x \in {y \in Icmp \ {t} : attempt[y].at \in {"open", "replied"}}}
  IN /\ reachable' = reached /\ done' = over
     /\ attempt' = [attempt EXCEPT ![t] = [f EXCEPT !.at = "over"]]
     /\ icmp' = [icmp EXCEPT !.waiters = IF ends THEN Unregister(w, open) ELSE w]
     /\ prober' = IF ends THEN "report" ELSE "round"
     /\ report' = IF ends
                  THEN [passed |-> reached >= spec.required, reachable |-> reached,
                        canceled |-> started' - samples', none |-> FALSE]
                  ELSE report

\* The attempt ended without reply at its deadline: the next one, or the end.
Lost(t, f) ==
  IF f.n < MaxTries
  THEN /\ attempt' = [attempt EXCEPT ![t] = [f EXCEPT !.at = "idle"]]
       /\ icmp' = [icmp EXCEPT !.waiters = Unregister(@, IF t \in Icmp THEN {f.seq} ELSE {})]
       /\ UNCHANGED <<reachable, done, prober, report>>
  ELSE Over(t, FALSE, f, Unregister(icmp.waiters, IF t \in Icmp THEN {f.seq} ELSE {}))

\* The report leaves once the channel has room; the State task may abort the
\* prober instead (Abort).
SendReport ==
  /\ prober = "report"
  /\ prober' = "tick"
  /\ UNCHANGED <<spec, icmp, attempt, started, samples, reachable, done, network,
                 report, tokens, first, answered>>

-----------------------------------------------------------------------------
(* Attempts.                                                               *)

Begin(t) ==
  /\ prober = "round" /\ attempt[t].at = "idle" /\ tokens < MaxAttempts
  /\ tokens' = tokens + 1
  /\ started' = started + 1

wrapping_add(s) == (s + 1) % SeqSpace

\* Icmp::attempt: registered under the next sequence number before it is sent.
IcmpAttempt(t) ==
  /\ t \in Icmp /\ Begin(t)
  /\ LET s == wrapping_add(icmp.seq)
         f == [at |-> "open", n |-> attempt[t].n + 1, token |-> tokens + 1, seq |-> s]
         w == [target |-> t, token |-> tokens + 1]
     IN /\ attempt' = [attempt EXCEPT ![t] = f]
        /\ icmp' = [icmp EXCEPT !.seq = s,
                     !.waiters = [x \in DOMAIN @ \cup {s} |-> IF x = s THEN w ELSE @[x]]]
        /\ network' = network \cup {[source |-> t, id |-> icmp.id, seq |-> s,
                                     token |-> tokens + 1]}
  /\ UNCHANGED <<prober, spec, samples, reachable, done, report, first, answered>>

\* A local error ends the attempt, of either kind, without a waiter.
LocalError(t) ==
  /\ Begin(t)
  /\ attempt' = [attempt EXCEPT ![t] = [at |-> "failed", n |-> @.n + 1, token |-> tokens + 1,
                                         seq |-> 0]]
  /\ icmp' = IF t \in Icmp THEN [icmp EXCEPT !.seq = wrapping_add(@)] ELSE icmp
  /\ samples' = samples + 1
  /\ UNCHANGED <<prober, spec, reachable, done, network, report, first, answered>>

TcpAttempt(t) ==
  /\ t \in Tcp /\ Begin(t)
  /\ attempt' = [attempt EXCEPT ![t] = [at |-> "open", n |-> @.n + 1, token |-> tokens + 1,
                                         seq |-> 0]]
  /\ UNCHANGED <<prober, spec, icmp, samples, reachable, done, network, report, first, answered>>

\* A SYN-ACK or a RST on the attempt's own socket.
TcpReply(t) ==
  /\ t \in Tcp /\ prober = "round" /\ attempt[t].at = "open"
  /\ answered' = answered \cup {attempt[t].token}
  /\ samples' = samples + 1
  /\ UNCHANGED started
  /\ Over(t, TRUE, attempt[t], icmp.waiters)
  /\ UNCHANGED <<spec, network, tokens, first>>

\* Any other error of the socket is a loss, before the deadline.
TcpError(t) ==
  /\ t \in Tcp /\ prober = "round" /\ attempt[t].at = "open"
  /\ attempt' = [attempt EXCEPT ![t].at = "failed"]
  /\ samples' = samples + 1
  /\ UNCHANGED <<prober, spec, icmp, started, reachable, done, network, report, tokens,
                 first, answered>>

\* The future of a target is polled with its reply there.
Poll(t) ==
  /\ prober = "round" /\ attempt[t].at = "replied"
  /\ samples' = samples + 1
  /\ UNCHANGED started
  /\ Over(t, TRUE, attempt[t], icmp.waiters)
  /\ UNCHANGED <<spec, network, tokens, first, answered>>

Expires(t) == attempt[t].at \in {"open", "failed"}

\* timeout_at looks for the reply before the deadline: an attempt that has its
\* reply does not time out.
Deadline(t) ==
  /\ prober = "round" /\ Expires(t)
  /\ IF attempt[t].at = "open" THEN samples' = samples + 1 ELSE UNCHANGED samples
  /\ UNCHANGED started
  /\ Lost(t, attempt[t])
  /\ UNCHANGED <<spec, network, tokens, first, answered>>

-----------------------------------------------------------------------------
(* The reader of the raw socket.                                           *)

\* Mutant: the token is not compared.
matches_seq(p) == /\ p.seq \in DOMAIN icmp.waiters
                  /\ icmp.waiters[p.seq].target = p.source

matches(p) == /\ p.seq \in DOMAIN icmp.waiters
              /\ icmp.waiters[p.seq].target = p.source
              /\ icmp.waiters[p.seq].token = p.token

\* icmp_filter and parse_echo_reply let echo replies of code 0 through, whole
\* and with a valid checksum; the others change nothing.
deliver(p) ==
  /\ p.id = icmp.id /\ matches(p)
  /\ icmp' = [icmp EXCEPT !.waiters = Unregister(@, {p.seq})]
  /\ LET w == icmp.waiters[p.seq] IN
     /\ attempt' = [attempt EXCEPT ![w.target].at = "replied"]
     /\ answered' = IF w.token = p.token THEN answered \cup {p.token} ELSE answered
  /\ UNCHANGED <<prober, spec, started, samples, reachable, done, network, report, tokens, first>>

\* manage_probers: the task is aborted and another one started with a new
\* socket, for another configuration or address.
Abort ==
  /\ tokens < MaxAttempts
  /\ prober' = "tick"
  /\ spec' \in Settings
  /\ icmp' \in [id : Identifiers, seq : 0..SeqSpace - 1, waiters : {<< >>}]
  /\ attempt' = [t \in Targets |-> Unstarted]
  /\ started' = 0 /\ samples' = 0 /\ reachable' = 0 /\ done' = {}
  /\ first' = tokens + 1
  /\ UNCHANGED <<network, report, tokens, answered>>

-----------------------------------------------------------------------------
Task ==
  \/ StartRound \/ SendReport
  \/ \E t \in Targets :
       \/ IcmpAttempt(t) \/ TcpAttempt(t) \/ Poll(t) \/ Deadline(t)

Environment ==
  \/ Abort
  \/ \E t \in Targets : LocalError(t) \/ TcpReply(t) \/ TcpError(t)
  \/ \E p \in network : deliver(p)

Next == Task \/ Environment

Spec == Init /\ [][Next]_vars

-----------------------------------------------------------------------------
(* Properties.                                                             *)

\* Types of the variables; waiters are those of open attempts only.
TypeOK ==
  /\ prober \in {"tick", "round", "report"} /\ spec \in Settings
  /\ icmp.id \in Identifiers /\ icmp.seq \in 0..SeqSpace - 1
  /\ DOMAIN icmp.waiters \subseteq 0..SeqSpace - 1
  /\ attempt \in [Targets -> Future]
  /\ started \in 0..MaxAttempts /\ reachable \in 0..Cardinality(Targets)
  /\ done \subseteq Targets

Replied(t) == attempt[t].token \in answered /\ attempt[t].token >= first

\* FR-PROBE-3, FR-PROBE-4: the verdict of a round is that of its own attempts.
\* It passes only on replies to them from as many targets as required, whatever
\* older replies arrive under the same identifier and sequence number; and it
\* fails, early or not, only when so many targets have lost all their attempts
\* that the others could not have been enough.
VerdictIsTrue ==
  prober = "report" =>
    IF report.passed
      THEN Cardinality({t \in Targets : Replied(t)}) >= spec.required
      ELSE LET lost == {t \in done : attempt[t].n = MaxTries /\ ~ Replied(t)}
           IN  Cardinality(Targets) - Cardinality(lost) < spec.required
=============================================================================
