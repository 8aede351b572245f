------------------------------ MODULE Quality -------------------------------
(***************************************************************************)
(* The quality gates of a path (quality.rs; daemon.rs, probe_report and    *)
(* manage_probers): the samples of the last rounds, their loss, median     *)
(* round-trip time and jitter, and the gates that they violate, while      *)
(* reloads change the gates, the window and the targets.  The path is the  *)
(* IPv4 one of the first uplink.                                           *)
(***************************************************************************)
EXTENDS Config, SequencesExt

CONSTANTS
  Rtts,        \* round-trip times
  Lost,        \* no reply: none of Rtts
  MaxRounds    \* bound: rounds that the history remembers

MIN_RTT_INPUTS == 5

VARIABLES
  spec,        \* the settings of the prober
  window,      \* the samples of the last rounds: target and time
  violating,   \* the gates violated at the last round
  good,        \* history: the last rounds in a row that were good
  full         \* history: whether each round of the window had every target

qvars == <<cvars, spec, window, violating, good, full>>

Health == Merged(config, config.uplinks[1])

\* manage_probers: the settings of its prober.
Wanted(c) ==
  LET h == Merged(c, c.uplinks[1]) IN
  [targets |-> Targets(h, "v4"), interval |-> Interval(h), timeout |-> Timeout(h), attempts |-> Attempts(h),
   required_reachable |-> Required(h), run_to_completion |-> enabled(h)]

-----------------------------------------------------------------------------
(* quality.rs                                                              *)

\* Mutant: as if the window could only grow.
push_grow(rounds, samples, capacity) ==
  IF Len(rounds) >= capacity THEN Append(Tail(rounds), samples) ELSE Append(rounds, samples)

push(rounds, samples, capacity) ==
  LET all == Append(rounds, samples)
  IN  SubSeq(all, IF Len(all) > capacity THEN Len(all) - capacity + 1 ELSE 1, Len(all))

Sorted(values) == SortSeq(values, LAMBDA a, b : a < b)

median(values) ==
  LET s == Sorted(values)
      n == Len(s)
  IN  IF n % 2 = 1 THEN s[(n \div 2) + 1] ELSE (s[n \div 2] + s[(n \div 2) + 1]) \div 2

Samples(rounds) == FlattenSeq(rounds)
Replies(rounds) == SelectSeq(Samples(rounds), LAMBDA s : s.rtt # Lost)

\* The differences between consecutive times of the same target.
Differences(rounds) ==
  LET replies == Replies(rounds)
      Previous(i) == {j \in 1..(i - 1) : replies[j].target = replies[i].target}
      Latest(i) == CHOOSE j \in Previous(i) : \A k \in Previous(i) : k <= j
      later == SetToSortSeq({i \in DOMAIN replies : Previous(i) # {}}, LAMBDA a, b : a < b)
      Distance(a, b) == IF a > b THEN a - b ELSE b - a
  IN  Each(later, LAMBDA i : Distance(replies[i].rtt, replies[Latest(i)].rtt))

LossViolated(h, rounds) ==
  \E limit \in h.max_loss :
    /\ Len(Samples(rounds)) >= MinSamples(h)
    /\ 100 * (Len(Samples(rounds)) - Len(Replies(rounds))) > limit * Len(Samples(rounds))

Exceeds(limits, values) == \E limit \in limits : Len(values) >= MIN_RTT_INPUTS /\ median(values) > limit

violations(h, rounds) ==
  When("loss", LossViolated(h, rounds))
    \cup When("rtt", Exceeds(h.max_rtt, Each(Replies(rounds), LAMBDA s : s.rtt)))
    \cup When("jitter", Exceeds(h.max_jitter, Differences(rounds)))

-----------------------------------------------------------------------------
(* Rounds: the attempts of each target end with a reply or the last loss.  *)
(* Without gates a round may end before all have (module Probe).           *)

Attempted(t, n, last) == [i \in 1..n |-> [target |-> t, rtt |-> IF i = n THEN last ELSE Lost]]

Outcomes(t) ==
  {Attempted(t, n, rtt) : n \in 1..spec.attempts, rtt \in Rtts} \cup {Attempted(t, spec.attempts, Lost)}

CompletedRounds ==
  LET each == [DOMAIN spec.targets -> UNION {Outcomes(spec.targets[i]) : i \in DOMAIN spec.targets}]
  IN  {FlattenSeq(r) : r \in {f \in each : \A i \in DOMAIN spec.targets : f[i] \in Outcomes(spec.targets[i])}}

RoundsOf ==
  IF spec.run_to_completion THEN CompletedRounds
  ELSE CompletedRounds \cup UNION {Outcomes(spec.targets[i]) : i \in DOMAIN spec.targets}

\* Good: every target replied at once, in the shortest time.
Good(samples) == \A i \in DOMAIN samples : \A rtt \in Rtts : samples[i].rtt # Lost /\ samples[i].rtt <= rtt

Complete(samples) == \A i \in DOMAIN spec.targets : \E j \in DOMAIN samples : samples[j].target = spec.targets[i]

\* probe_report
Round(samples) ==
  /\ daemon = "running"
  /\ window' = push(window, samples, Window(Health))
  /\ violating' = violations(Health, window')
  /\ good' = IF Good(samples) THEN (IF good < MaxRounds THEN good + 1 ELSE good) ELSE 0
  /\ full' = push(full, Complete(samples), Window(Health))
  /\ UNCHANGED <<cvars, spec>>

\* A prober of other settings starts an empty window.
Restarted(new) == new # spec

QStart ==
  /\ Start
  /\ spec' = IF daemon' = "running" THEN Wanted(config') ELSE spec
  /\ UNCHANGED <<window, violating, good, full>>

QReload ==
  /\ Reload
  /\ spec' = Wanted(config')
  /\ window' = IF Restarted(spec') THEN <<>> ELSE window
  /\ full' = IF Restarted(spec') THEN <<>> ELSE full
  /\ violating' = IF Restarted(spec') THEN {} ELSE violating
  /\ good' = IF Restarted(spec') THEN 0 ELSE good

QEdit(f) == Edit(f) /\ UNCHANGED <<spec, window, violating, good, full>>

QInit ==
  /\ Init
  /\ spec = [targets |-> <<>>]
  /\ window = <<>> /\ violating = {} /\ good = 0 /\ full = <<>>

QNext ==
  \/ QStart \/ QReload \/ \E f \in Files : QEdit(f)
  \/ Running /\ \E samples \in RoundsOf : Round(samples)

QSpec == QInit /\ [][QNext]_qvars

-----------------------------------------------------------------------------
(* Properties.                                                             *)

\* FR-PROBE-5: a degraded path recovers: when the last quality_window rounds were good, no
\* gate that their time meets is violated, whatever the window held before and whatever
\* reloads did to its size.
GoodRoundsRecover ==
  [][/\ window' # window /\ Running' /\ good' >= Window(Health)
     /\ \A limit \in Health.max_rtt : \E rtt \in Rtts : rtt <= limit
     => violating' = {}]_qvars
=============================================================================
