-------------------------- MODULE PathHealthProofs --------------------------
(***************************************************************************)
(* Proofs about PathHealth for all constants that satisfy its assumption:  *)
(* type correctness, UpIsWatched and StaleRoundsIgnored.                   *)
(***************************************************************************)
EXTENDS PathHealth, SequenceTheorems, TLAPS

\* Leaves that name no prover are for Zenon.
USE ZenonT(60)

-----------------------------------------------------------------------------
\* What the proofs use of the assumption on the constants.
LEMMA Widths ==
    /\ U8Max \in Nat \ {0}
    /\ \A h \in Hystereses : h.rise \in 1..U8Max /\ h.fall \in 1..U8Max
    /\ None \notin Specs
    /\ None \notin Checkpoint
    /\ None \notin Ready
  BY ConstantsAssumption DEF ConstantsAssumption, Specs, Ready

(* The machine keeps its type; a round leaves its readiness alone.         *)

\* The counters saturate within their width (health.rs, saturating_add).
LEMMA SaturatingAdd ==
    ASSUME NEW n \in 0..U8Max
    PROVE  saturating_add(n) \in 0..U8Max
  BY Widths, SMTT(60) DEF saturating_add

\* Updating one field of a machine.
LEMMA MachineUpdates ==
    /\ \A m \in Machine, n \in 0..U8Max :
         /\ [m EXCEPT !.passes = n] \in Machine
         /\ [m EXCEPT !.passes = n].ready = m.ready
         /\ [m EXCEPT !.passes = n].state = m.state
         /\ [m EXCEPT !.failures = n] \in Machine
         /\ [m EXCEPT !.failures = n].ready = m.ready
         /\ [m EXCEPT !.failures = n].state = m.state
    /\ \A m \in Machine, s \in {"up", "down"} :
         /\ [m EXCEPT !.state = s] \in Machine
         /\ [m EXCEPT !.state = s].ready = m.ready
    /\ \A m \in Machine :
         /\ [m EXCEPT !.optimistic = FALSE] \in Machine
         /\ [m EXCEPT !.optimistic = FALSE].ready = m.ready
  BY Widths DEF Machine

\* Machine::round yields a machine with the same readiness, and leaves one
\* that is not ready as it is.
LEMMA RoundType ==
    ASSUME NEW m \in Machine, NEW round \in Rounds, NEW h \in Hystereses
    PROVE  /\ Machine_round(m, round, h) \in Machine
           /\ Machine_round(m, round, h).ready = m.ready
           /\ ~m.ready => Machine_round(m, round, h) = m
  <1> DEFINE m1 == [m EXCEPT !.optimistic = FALSE]
             m2 == [m1 EXCEPT !.failures = 1]
  <1>1. FirstRound(m, round) \in Machine /\ FirstRound(m, round).ready = m.ready
    <2>0. 1 \in 0..U8Max
      BY Widths, SMTT(60)
    <2>1. m1 \in Machine /\ m1.ready = m.ready
      BY MachineUpdates
    <2>2. m2 \in Machine /\ m2.ready = m.ready
      BY <2>0, <2>1, MachineUpdates
    <2>3. [m2 EXCEPT !.state = "down"] \in Machine
          /\ [m2 EXCEPT !.state = "down"].ready = m.ready
      BY <2>2, MachineUpdates
    <2>4. [m1 EXCEPT !.passes = 1] \in Machine
          /\ [m1 EXCEPT !.passes = 1].ready = m.ready
      BY <2>0, <2>1, MachineUpdates
    <2> QED
      BY <2>3, <2>4 DEF FirstRound
  <1>2. Passed(m, h) \in Machine /\ Passed(m, h).ready = m.ready
    <2> DEFINE n == saturating_add(m.passes)
               p1 == [m EXCEPT !.failures = 0]
               p2 == [p1 EXCEPT !.passes = n]
    <2>1. n \in 0..U8Max /\ 0 \in 0..U8Max
      BY SaturatingAdd, Widths, SMTT(60) DEF Machine
    <2>2. p1 \in Machine /\ p1.ready = m.ready
      BY <2>1, MachineUpdates
    <2>3. p2 \in Machine /\ p2.ready = m.ready
      BY <2>1, <2>2, MachineUpdates
    <2>4. \A s \in {"up", "down"} : /\ [p2 EXCEPT !.state = s] \in Machine
                                   /\ [p2 EXCEPT !.state = s].ready = m.ready
      BY <2>3, MachineUpdates
    <2>5. (IF p2.state = "down" /\ n >= h.rise THEN "up" ELSE p2.state) \in {"up", "down"}
      BY <2>3 DEF Machine
    <2> QED
      BY <2>4, <2>5 DEF Passed
  <1>3. Failed(m, h) \in Machine /\ Failed(m, h).ready = m.ready
    <2> DEFINE n == saturating_add(m.failures)
               p1 == [m EXCEPT !.passes = 0]
               p2 == [p1 EXCEPT !.failures = n]
    <2>1. n \in 0..U8Max /\ 0 \in 0..U8Max
      BY SaturatingAdd, Widths, SMTT(60) DEF Machine
    <2>2. p1 \in Machine /\ p1.ready = m.ready
      BY <2>1, MachineUpdates
    <2>3. p2 \in Machine /\ p2.ready = m.ready
      BY <2>1, <2>2, MachineUpdates
    <2>4. \A s \in {"up", "down"} : /\ [p2 EXCEPT !.state = s] \in Machine
                                   /\ [p2 EXCEPT !.state = s].ready = m.ready
      BY <2>3, MachineUpdates
    <2>5. (IF p2.state = "up" /\ n >= h.fall THEN "down" ELSE p2.state) \in {"up", "down"}
      BY <2>3 DEF Machine
    <2> QED
      BY <2>4, <2>5 DEF Failed
  <1>4. CASE ~m.ready
    BY <1>4 DEF Machine_round
  <1>5. CASE m.ready /\ m.optimistic
    BY <1>1, <1>5 DEF Machine_round
  <1>6. CASE m.ready /\ ~m.optimistic
    BY <1>2, <1>3, <1>6 DEF Machine_round
  <1> QED
    BY <1>4, <1>5, <1>6 DEF Machine

\* Machine::set_ready yields the wanted readiness, and down without it.
LEMMA SetReadyType ==
    ASSUME NEW m \in Machine, NEW r \in BOOLEAN,
           ~m.ready => m.state = "down"
    PROVE  /\ set_ready(m, r) \in Machine
           /\ set_ready(m, r).ready = r
           /\ ~r => set_ready(m, r).state = "down"
  BY Widths, SMTT(60) DEF set_ready, Machine

\* Machine::new, cold or from a checkpoint.
LEMMA NewType ==
    ASSUME NEW r \in BOOLEAN, NEW warm \in Checkpoint \cup {None}
    PROVE  /\ Machine_new(r, warm) \in Machine
           /\ Machine_new(r, warm).ready <=> r
           /\ ~r => Machine_new(r, warm).state = "down"
  <1>1. CASE ~r
    BY <1>1, Widths, SMTT(60) DEF Machine_new, Machine_down, Machine
  <1>2. CASE r /\ warm # None
    BY <1>2 DEF Machine_new, Machine, Checkpoint
  <1>3. CASE r /\ warm = None
    BY <1>3, Widths, SMTT(60) DEF Machine_new, Machine
  <1> QED
    BY <1>1, <1>2, <1>3

-----------------------------------------------------------------------------
(* The inductive invariant.  A round is told to be stale by its generation *)
(* alone, so the invariant says what a generation stands for.              *)

\* A machine that is not ready is down.
Typed == TypeOK /\ (~machine.ready => machine.state = "down")

\* No report is of a generation still to come; those of the path's own
\* generation are of the prober that it holds; the report that this prober
\* ended is its last.  Generation 0 is that of a path without a prober yet.
ReportsInv ==
    /\ generation <= probeGeneration
    /\ alive => prober # None
    /\ prober # None => generation # 0
    /\ \A i \in 1..Len(reports) :
         /\ reports[i].generation # 0
         /\ reports[i].generation <= probeGeneration
         /\ reports[i].generation = generation =>
              prober # None /\ reports[i].spec = prober
         /\ reports[i].generation = generation /\ reports[i].outcome = "ended" =>
              /\ ~alive
              /\ \A j \in (i + 1)..Len(reports) : reports[j].generation # generation

\* Between passes the path holds the prober that it should; there is none
\* before the first pass.
PassInv ==
    /\ installing => prober = None /\ reports = <<>>
    /\ ~dirty /\ ~installing =>
         /\ discovered = view
         /\ machine.ready => discovered # None
         /\ prober = Wanted(discovered, machine)

IInv == Typed /\ ReportsInv /\ PassInv

-----------------------------------------------------------------------------
(* Type correctness. *)

LEMMA CheckpointType ==
    ASSUME NEW m \in Machine, NEW found \in Ready \cup {None}
    PROVE  checkpoint(m, found) \in Checkpoint
  BY DEF checkpoint, Machine, Checkpoint

LEMMA WriteCheckpointType ==
    ASSUME NEW m \in Machine, NEW found \in Ready \cup {None},
           queued \in Checkpoint \cup {None},
           write_checkpoint(m, found)
    PROVE  queued' \in Checkpoint \cup {None}
  BY CheckpointType DEF write_checkpoint

LEMMA WantedType ==
    ASSUME NEW found \in Ready \cup {None}, NEW m \in Machine, probing \in Probings
    PROVE  Wanted(found, m) \in Specs \cup {None}
  BY DEF Wanted, Ready, Specs

LEMMA InitTyped == Init => Typed
  <1> SUFFICES ASSUME Init PROVE Typed
    OBVIOUS
  <1>1. view \in Ready \cup {None} /\ (view # None) \in BOOLEAN
    BY DEF Init
  <1>2. machine \in Machine /\ (~machine.ready => machine.state = "down")
    BY <1>1, NewType DEF Init
  <1>3. reports \in Seq(Report)
    BY SMTT(60) DEF Init
  <1> QED
    BY <1>1, <1>2, <1>3 DEF Init, Typed, TypeOK

LEMMA NextTyped == Typed /\ [Next]_vars => Typed'
  <1> SUFFICES ASSUME Typed, [Next]_vars PROVE Typed'
    OBVIOUS
  <1> USE DEF Typed, TypeOK
  <1>1. ASSUME NEW found \in Ready \cup {None}, NEW link \in BOOLEAN,
               notification(found, link)
        PROVE  Typed'
    BY <1>1, SMTT(60) DEF notification, configVars, proberVars, fileVars
  <1>2. ASSUME NEW ok \in BOOLEAN, sysctls_done(ok)
        PROVE  Typed'
    BY <1>2 DEF sysctls_done, configVars, proberVars, fileVars
  <1>3. CASE route_fails
    BY <1>3, SMTT(60) DEF route_fails, configVars, proberVars, fileVars
  <1>4. CASE full_reconciliation
    BY <1>4 DEF full_reconciliation, configVars, proberVars, fileVars
  <1>5. ASSUME NEW h \in Hystereses, NEW p \in Probings, reload_bound(h, p)
        PROVE  Typed'
    BY <1>5, SMTT(60) DEF reload_bound, kernelVars, proberVars, fileVars
  <1>6. CASE probe_report
    <2> DEFINE r == Head(reports)
               m == Machine_round(machine, r.outcome, hysteresis)
    <2>1. r \in Report /\ reports' \in Seq(Report)
      BY <1>6, HeadTailProperties DEF probe_report
    <2>2. r.outcome \in Rounds =>
            /\ m \in Machine
            /\ ~m.ready => m.state = "down"
      BY RoundType
    <2>3. r.outcome \in Rounds /\ write_checkpoint(m, discovered)
            => queued' \in Checkpoint \cup {None}
      BY <2>2, WriteCheckpointType
    <2>4. machine' \in Machine /\ (~machine'.ready => machine'.state = "down")
      BY <1>6, <2>2 DEF probe_report
    <2>5. queued' \in Checkpoint \cup {None}
      BY <1>6, <2>3 DEF probe_report
    <2>6. prober' \in Specs \cup {None} /\ dirty' \in BOOLEAN
      BY <1>6 DEF probe_report
    <2>7. UNCHANGED <<kernelVars, configVars, installing, discovered, alive,
                      generation, probeGeneration, disk, restarts>>
      BY <1>6 DEF probe_report
    <2> QED
      BY <2>1, <2>4, <2>5, <2>6, <2>7 DEF kernelVars, configVars
  <1>7. CASE checkpoint_due
    <2>1. queued' \in Checkpoint \cup {None}
      BY <1>7, WriteCheckpointType DEF checkpoint_due
    <2> QED
      BY <1>7, <2>1, SMTT(60) DEF checkpoint_due, kernelVars, configVars, proberVars
  <1>8. ASSUME NEW changes \in BOOLEAN, step(changes)
        PROVE  Typed'
    <2>1. CASE installing
      BY <1>8, <2>1 DEF step, configVars, proberVars
    <2>2. CASE ~installing
      <3> DEFINE r == view # None /\ Installable
                 m == set_ready(machine, r)
      <3>1. evaluate(changes)
        BY <1>8, <2>2 DEF step
      <3>2. m \in Machine /\ (~m.ready => m.state = "down")
        <4>1. r \in BOOLEAN
          BY DEF Installable
        <4> HIDE DEF r
        <4> QED
          BY <4>1, SetReadyType
      <3>3. queued' \in Checkpoint \cup {None}
        BY <3>1, <3>2, WriteCheckpointType DEF evaluate
      <3>4. /\ prober' \in Specs \cup {None}
            /\ alive' \in BOOLEAN
            /\ generation' \in Nat
            /\ probeGeneration' \in Nat
        <4>1. manage_probers(m) /\ Wanted(view, m) \in Specs \cup {None}
          BY <3>1, <3>2, WantedType DEF evaluate
        <4> HIDE DEF m
        <4>2. CASE Wanted(view, m) = prober
          BY <4>1, <4>2 DEF manage_probers, proberVars
        <4>3. CASE Wanted(view, m) # prober
          BY <4>1, <4>3, SMTT(60) DEF manage_probers
        <4> QED
          BY <4>2, <4>3
      <3>5. /\ machine' = m
            /\ discovered' = view
            /\ routeFailed' \in BOOLEAN
        BY <3>1 DEF evaluate
      <3> QED
        BY <1>8, <3>2, <3>3, <3>4, <3>5 DEF step, configVars
    <2> QED
      BY <2>1, <2>2
  <1>9. ASSUME NEW outcome \in Rounds \cup {"ended"}, prober_sends(outcome)
        PROVE  Typed'
    <2>1. reports' \in Seq(Report)
      <3>1. [generation |-> generation, spec |-> prober, outcome |-> outcome] \in Report
        BY <1>9 DEF prober_sends, Report
      <3> QED
        BY <1>9, <3>1, SMTT(60) DEF prober_sends
    <2> QED
      BY <1>9, <2>1, SMTT(60) DEF prober_sends, kernelVars, configVars, fileVars
  <1>10. ASSUME NEW ok \in BOOLEAN, persist_checkpoint(ok)
         PROVE  Typed'
    BY <1>10, SMTT(60) DEF persist_checkpoint, kernelVars, configVars, proberVars
  <1>11. ASSUME NEW file \in {disk, checkpoint(machine, discovered)},
                NEW found \in Ready \cup {None}, NEW valid \in BOOLEAN,
                Restart(file, found, valid)
         PROVE  Typed'
    <2>1. file \in Checkpoint \cup {None}
      BY CheckpointType
    <2>2. Resumed(file, found, valid) \in Checkpoint \cup {None}
      BY <2>1 DEF Resumed
    <2>3. machine' \in Machine /\ (~machine'.ready => machine'.state = "down")
      BY <1>11, <2>2, NewType DEF Restart, load_checkpoint
    <2>4. reports' \in Seq(Report)
      BY <1>11, SMTT(60) DEF Restart, FreshProcess
    <2>5. disk' = file /\ hysteresis' \in Hystereses /\ probing' \in Probings
      BY <1>11 DEF Restart
    <2>6. view' = found /\ discovered' = found
      BY <1>11 DEF Restart, load_checkpoint
    <2>7. restarts' \in Nat
      BY <1>11, SMTT(60) DEF Restart
    <2>8. FreshProcess
      BY <1>11 DEF Restart
    <2> QED
      BY <2>1, <2>3, <2>4, <2>5, <2>6, <2>7, <2>8 DEF FreshProcess
  <1>12. CASE UNCHANGED vars
    BY <1>12, SMTT(60) DEF vars
  <1>13. ASSUME NEW h \in Hystereses, NEW p \in Probings, reload_readds(h, p)
         PROVE  Typed'
    <2>1. Machine_down \in Machine /\ ~Machine_down.ready /\ Machine_down.state = "down"
      BY Widths, SMTT(60) DEF Machine_down, Machine
    <2>2. checkpoint(Machine_down, None) \in Checkpoint
      BY <2>1, CheckpointType
    <2>3. /\ machine' = Machine_down /\ discovered' = None /\ prober' = None
          /\ queued' = queued \/ queued' = checkpoint(Machine_down, None)
          /\ unapplied' = TRUE /\ routeFailed' = FALSE /\ alive' = FALSE /\ dirty' = TRUE
          /\ hysteresis' = h /\ probing' = p /\ generation' = 0
          /\ UNCHANGED <<view, installing, probeGeneration, reports, disk, restarts>>
      BY <1>13 DEF reload_readds
    <2>4. generation' \in Nat
      BY <2>3, SMTT(60)
    <2> QED
      BY <1>13, <2>1, <2>2, <2>3, <2>4
  <1> QED
    BY <1>1, <1>2, <1>3, <1>4, <1>5, <1>6, <1>7, <1>8, <1>9, <1>10, <1>11, <1>12, <1>13
       DEF Next, StateTask

\* Type correctness: the counters of the machine stay within their width,
\* probers, reports and checkpoints keep their types, over all events,
\* passes, lane writes and restarts.
THEOREM TypeCorrect == Spec => []TypeOK
  <1>1. Typed => TypeOK
    BY DEF Typed
  <1> QED
    BY <1>1, InitTyped, NextTyped, PTL DEF Spec

-----------------------------------------------------------------------------
(* The invariant holds initially and is preserved by every step. *)

LEMMA InitIInv == Init => IInv
  BY InitTyped, SMTT(60) DEF Init, IInv, ReportsInv, PassInv

\* Reports, probers and generations left alone keep ReportsInv.
LEMMA ReportsKept ==
    ASSUME ReportsInv, UNCHANGED <<proberVars, reports>>
    PROVE  ReportsInv'
  BY DEF ReportsInv, proberVars

LEMMA NextReports == IInv /\ [Next]_vars => ReportsInv'
  <1> SUFFICES ASSUME IInv, [Next]_vars PROVE ReportsInv'
    OBVIOUS
  <1>0. TypeOK /\ ReportsInv
    BY DEF IInv, Typed
  <1>1. CASE UNCHANGED <<proberVars, reports>>
    BY <1>0, <1>1, ReportsKept
  <1>2. CASE probe_report
    <2> DEFINE r == Head(reports)
    <2>1. /\ reports \in Seq(Report)
          /\ reports # <<>>
          /\ reports' = Tail(reports)
          /\ UNCHANGED <<alive, generation, probeGeneration>>
      BY <1>0, <1>2 DEF probe_report, TypeOK
    <2>2. /\ Len(reports) \in Nat
          /\ 1 \in 1..Len(reports)
          /\ r = reports[1]
          /\ Len(reports') = Len(reports) - 1
          /\ \A i \in 1..Len(reports') :
               reports'[i] = reports[i + 1] /\ i + 1 \in 1..Len(reports)
      BY <2>1, HeadTailProperties, LenProperties, SMTT(60)
    <2>3. CASE UNCHANGED prober
      <3>1. \A i \in 1..Len(reports') : \A j \in (i + 1)..Len(reports') :
               reports'[j] = reports[j + 1] /\ j + 1 \in (i + 2)..Len(reports)
        BY <2>2, SMTT(60)
      <3> QED
        BY <1>0, <2>1, <2>2, <2>3, <3>1, SMTT(60) DEF ReportsInv
    <2>4. CASE prober' # prober
      <3>1. r.generation = generation /\ r.outcome = "ended" /\ prober' = None
        BY <1>2, <2>4 DEF probe_report
      <3>2. ~alive /\ \A j \in 2..Len(reports) : reports[j].generation # generation
        BY <1>0, <2>2, <3>1, SMTT(60) DEF ReportsInv
      <3>3. \A i \in 1..Len(reports') :
               reports'[i].generation # generation
        BY <2>2, <3>2, SMTT(60)
      <3> QED
        BY <1>0, <2>1, <2>2, <3>1, <3>2, <3>3 DEF ReportsInv, TypeOK
    <2> QED
      BY <2>3, <2>4
  <1>3. ASSUME NEW changes \in BOOLEAN, step(changes), ~UNCHANGED proberVars
        PROVE  ReportsInv'
    <2> DEFINE wanted == Wanted(view, machine')
    <2>1. manage_probers(machine') /\ reports' = reports
      BY <1>3 DEF step, evaluate
    <2>2. /\ probeGeneration' = probeGeneration + 1
          /\ generation' = probeGeneration + 1
          /\ prober' = wanted
          /\ alive' => prober' # None
      BY <1>3, <2>1 DEF manage_probers
    <2>3. \A i \in 1..Len(reports) :
             /\ reports[i].generation \in Nat
             /\ reports[i].generation <= probeGeneration
      <3> SUFFICES ASSUME NEW i \in 1..Len(reports)
                   PROVE  /\ reports[i].generation \in Nat
                          /\ reports[i].generation <= probeGeneration
        OBVIOUS
      <3>1. reports[i] \in Report
        BY <1>0, ElementOfSeq DEF TypeOK
      <3> QED
        BY <1>0, <3>1 DEF ReportsInv, Report
    <2>4. \A i \in 1..Len(reports') :
             /\ reports'[i].generation <= probeGeneration'
             /\ reports'[i].generation # generation'
      BY <1>0, <2>1, <2>2, <2>3, SMTT(60) DEF TypeOK
    <2>5. /\ generation' <= probeGeneration' /\ generation' # 0
      BY <1>0, <2>2, SMTT(60) DEF TypeOK
    <2>6. \A i \in 1..Len(reports') : reports'[i].generation # 0
      BY <1>0, <2>1 DEF ReportsInv
    <2> QED
      BY <2>2, <2>4, <2>5, <2>6 DEF ReportsInv
  <1>4. ASSUME NEW outcome \in Rounds \cup {"ended"}, prober_sends(outcome)
        PROVE  ReportsInv'
    <2> DEFINE e == [generation |-> generation, spec |-> prober, outcome |-> outcome]
    <2>1. /\ prober # None /\ alive
          /\ reports' = Append(reports, e)
          /\ alive' = (outcome # "ended")
          /\ UNCHANGED <<prober, generation, probeGeneration>>
      BY <1>4 DEF prober_sends
    <2>2. e \in Report /\ reports \in Seq(Report)
      BY <1>0, <2>1 DEF TypeOK, Report
    <2>3. /\ Len(reports) \in Nat
          /\ Len(reports') = Len(reports) + 1
          /\ \A i \in 1..Len(reports) : reports'[i] = reports[i]
          /\ reports'[Len(reports) + 1] = e
      BY <2>1, <2>2, AppendProperties, LenProperties, SMTT(60)
    <2>4. \A i \in 1..Len(reports) :
             reports[i].generation = generation => reports[i].outcome # "ended"
      BY <1>0, <2>1 DEF ReportsInv
    <2>5. /\ generation' <= probeGeneration'
          /\ alive' => prober' # None
          /\ prober' # None => generation' # 0
          /\ e.generation # 0
      BY <1>0, <2>1 DEF ReportsInv
    <2>6. \A i \in 1..Len(reports') :
             \/ i \in 1..Len(reports) /\ reports'[i] = reports[i]
             \/ i = Len(reports') /\ reports'[i] = e
      BY <2>3, SMTT(60)
    <2>7. \A i \in 1..Len(reports') :
             /\ reports'[i].generation # 0
             /\ reports'[i].generation <= probeGeneration'
             /\ reports'[i].generation = generation' =>
                  prober' # None /\ reports'[i].spec = prober'
      BY <1>0, <2>1, <2>5, <2>6, SMTT(60) DEF ReportsInv
    <2>8. ASSUME NEW i \in 1..Len(reports'), reports'[i].generation = generation',
                 reports'[i].outcome = "ended"
          PROVE  i = Len(reports') /\ outcome = "ended"
      BY <2>1, <2>4, <2>6, <2>8, SMTT(60)
    <2>9. \A i \in 1..Len(reports') :
             reports'[i].generation = generation' /\ reports'[i].outcome = "ended" =>
               /\ ~alive'
               /\ \A j \in (i + 1)..Len(reports') : reports'[j].generation # generation'
      <3> SUFFICES ASSUME NEW i \in 1..Len(reports'),
                          reports'[i].generation = generation',
                          reports'[i].outcome = "ended"
                   PROVE  /\ ~alive'
                          /\ \A j \in (i + 1)..Len(reports') :
                               reports'[j].generation # generation'
        OBVIOUS
      <3>1. i = Len(reports') /\ outcome = "ended"
        BY <2>8
      <3>2. ~alive'
        BY <2>1, <3>1
      <3>3. (i + 1)..Len(reports') = {}
        BY <2>3, <3>1, SMTT(60)
      <3> QED
        BY <3>2, <3>3
    <2> QED
      BY <2>5, <2>7, <2>9 DEF ReportsInv
  <1>5. ASSUME NEW file, NEW found, NEW valid, Restart(file, found, valid)
        PROVE  ReportsInv'
    BY <1>5, SMTT(60) DEF Restart, FreshProcess, ReportsInv
  <1>6. ASSUME NEW h, NEW p, reload_readds(h, p)
        PROVE  ReportsInv'
    <2>1. /\ generation' = 0 /\ prober' = None /\ alive' = FALSE
          /\ UNCHANGED <<probeGeneration, reports>>
      BY <1>6 DEF reload_readds
    <2>2. generation' <= probeGeneration'
      BY <1>0, <2>1, SMTT(60) DEF TypeOK
    <2> QED
      BY <1>0, <2>1, <2>2 DEF ReportsInv
  <1> QED
    <2>1. UNCHANGED vars => UNCHANGED <<proberVars, reports>>
      BY DEF vars, proberVars
    <2>2. \A found, link : notification(found, link) => UNCHANGED <<proberVars, reports>>
      BY DEF notification
    <2>3. \A ok : sysctls_done(ok) => UNCHANGED <<proberVars, reports>>
      BY DEF sysctls_done
    <2>4. route_fails \/ full_reconciliation \/ checkpoint_due
             => UNCHANGED <<proberVars, reports>>
      BY DEF route_fails, full_reconciliation, checkpoint_due
    <2>5. \A h, p : reload_bound(h, p) => UNCHANGED <<proberVars, reports>>
      BY DEF reload_bound
    <2>6. \A ok : persist_checkpoint(ok) => UNCHANGED <<proberVars, reports>>
      BY DEF persist_checkpoint
    <2>7. \A changes : step(changes) => reports' = reports
      BY DEF step
    <2> QED
      BY <1>1, <1>2, <1>3, <1>4, <1>5, <1>6, <2>1, <2>2, <2>3, <2>4, <2>5, <2>6, <2>7
         DEF Next, StateTask

LEMMA NextPass == IInv /\ [Next]_vars => PassInv'
  <1> SUFFICES ASSUME IInv, [Next]_vars PROVE PassInv'
    OBVIOUS
  <1>0. TypeOK /\ Typed /\ PassInv
    BY DEF IInv, Typed
  <1>1. ASSUME NEW found, NEW link, notification(found, link)
        PROVE  PassInv'
    BY <1>0, <1>1 DEF notification, PassInv, proberVars
  <1>2. ASSUME NEW ok, sysctls_done(ok)
        PROVE  PassInv'
    BY <1>2 DEF sysctls_done, PassInv
  <1>3. CASE route_fails \/ full_reconciliation
    BY <1>0, <1>3, SMTT(60) DEF route_fails, full_reconciliation, PassInv, proberVars
  <1>4. ASSUME NEW h, NEW p, reload_bound(h, p)
        PROVE  PassInv'
    BY <1>0, <1>4 DEF reload_bound, PassInv, proberVars
  <1>5. CASE probe_report
    <2>1. ~installing /\ ~installing' /\ ~dirty
      BY <1>0, <1>5 DEF probe_report, PassInv
    <2>2. UNCHANGED <<discovered, view, probing>>
      BY <1>5 DEF probe_report, kernelVars, configVars
    <2>3. ASSUME ~dirty'
          PROVE  prober' = prober /\ machine'.ready = machine.ready
      <3>1. Head(reports) \in Report
        BY <1>0, <1>5, HeadTailProperties DEF probe_report, TypeOK
      <3>2. /\ machine \in Machine
            /\ hysteresis \in Hystereses
        BY <1>0 DEF TypeOK
      <3>3. prober' = prober
        BY <1>5, <2>3 DEF probe_report
      <3>4. \/ machine' = machine
            \/ /\ Head(reports).outcome \in Rounds
               /\ machine' = Machine_round(machine, Head(reports).outcome, hysteresis)
        BY <1>5 DEF probe_report
      <3> QED
        BY <3>2, <3>3, <3>4, RoundType, SMTT(60)
    <2> QED
      BY <1>0, <2>1, <2>2, <2>3 DEF PassInv, Wanted
  <1>6. CASE checkpoint_due
    BY <1>0, <1>6
       DEF checkpoint_due, PassInv, Wanted, kernelVars, configVars, proberVars
  <1>7. ASSUME NEW changes \in BOOLEAN, step(changes)
        PROVE  PassInv'
    <2>1. CASE installing
      BY <1>0, <1>7, <2>1 DEF step, PassInv, proberVars
    <2>2. CASE ~installing
      <3> DEFINE r == view # None /\ Installable
      <3>1. /\ ~installing'
            /\ UNCHANGED <<view, probing>>
            /\ evaluate(changes)
        BY <1>7, <2>2 DEF step, configVars
      <3>2. machine' = set_ready(machine, r) /\ discovered' = view
        BY <3>1 DEF evaluate
      <3>3. machine'.ready => view # None
        <4>1. r \in BOOLEAN /\ (r => view # None)
          OBVIOUS
        <4> HIDE DEF r
        <4>2. machine'.ready = r
          BY <1>0, <3>2, <4>1, SetReadyType DEF Typed, TypeOK
        <4> QED
          BY <4>1, <4>2
      <3>4. manage_probers(machine')
        BY <3>1 DEF evaluate
      <3>5. prober' = Wanted(view, machine')
        BY <3>4 DEF manage_probers, proberVars
      <3>6. prober' = Wanted(discovered, machine)'
        BY <3>1, <3>2, <3>5 DEF Wanted
      <3> QED
        BY <3>1, <3>2, <3>3, <3>6 DEF PassInv
    <2> QED
      BY <2>1, <2>2
  <1>8. ASSUME NEW outcome, prober_sends(outcome)
        PROVE  PassInv'
    <2>1. ~installing /\ ~installing'
      BY <1>0, <1>8 DEF prober_sends, PassInv
    <2> QED
      BY <1>0, <1>8, <2>1 DEF prober_sends, PassInv, Wanted, kernelVars, configVars
  <1>9. ASSUME NEW ok, persist_checkpoint(ok)
        PROVE  PassInv'
    BY <1>0, <1>9
       DEF persist_checkpoint, PassInv, Wanted, kernelVars, configVars, proberVars
  <1>10. ASSUME NEW file, NEW found, NEW valid, Restart(file, found, valid)
         PROVE  PassInv'
    BY <1>10 DEF Restart, FreshProcess, PassInv
  <1>11. CASE UNCHANGED vars
    BY <1>0, <1>11 DEF vars, PassInv, Wanted
  <1>12. ASSUME NEW h, NEW p, reload_readds(h, p)
         PROVE  PassInv'
    BY <1>0, <1>12 DEF reload_readds, PassInv
  <1> QED
    BY <1>1, <1>2, <1>3, <1>4, <1>5, <1>6, <1>7, <1>8, <1>9, <1>10, <1>11, <1>12
       DEF Next, StateTask

LEMMA NextIInv == IInv /\ [Next]_vars => IInv'
  BY NextTyped, NextReports, NextPass DEF IInv

-----------------------------------------------------------------------------
(* The theorems. *)

\* When no pass is due, a path that counts as up is discovered, and the
\* prober it holds measures that address with the configured settings: for
\* any number of addresses, gateways, settings, generations, restarts and
\* any capacity of the report channel.
THEOREM Watched == Spec => []UpIsWatched
  <1>1. IInv => UpIsWatched
    <2> SUFFICES ASSUME IInv, machine.state = "up", ~dirty, ~installing
                 PROVE  machine.ready /\ view # None /\ prober = <<view[1], probing>>
      BY DEF UpIsWatched
    <2>1. machine.ready
      BY DEF IInv, Typed
    <2> QED
      BY <2>1 DEF IInv, PassInv, Wanted
  <1> QED
    BY <1>1, InitIInv, NextIInv, PTL DEF Spec

\* A round that changes the health was measured on the interface and address,
\* and with the settings, that the path has when the round is handled: the
\* comparison of generations in probe_report discards every other one.
THEOREM StaleRounds == Spec => StaleRoundsIgnored
  <1> DEFINE A == probe_report /\ machine' # machine =>
                    /\ discovered # None
                    /\ Head(reports).spec = <<discovered[1], probing>>
  <1>1. IInv => A
    <2> SUFFICES ASSUME IInv, probe_report, machine' # machine
                 PROVE  /\ discovered # None
                        /\ Head(reports).spec = <<discovered[1], probing>>
      OBVIOUS
    <2>1. /\ reports \in Seq(Report)
          /\ reports # <<>>
          /\ ~dirty
          /\ ~installing
          /\ Head(reports).generation = generation
      BY DEF probe_report, IInv, Typed, TypeOK, PassInv
    <2>2. 1 \in 1..Len(reports) /\ Head(reports) = reports[1]
      BY <2>1, LenProperties, HeadTailProperties, SMTT(60)
    <2>3. prober # None /\ Head(reports).spec = prober
      BY <2>1, <2>2, SMTT(60) DEF IInv, ReportsInv
    <2>4. prober = Wanted(discovered, machine)
      BY <2>1 DEF IInv, PassInv
    <2> QED
      BY <2>3, <2>4 DEF Wanted
  <1>2. IInv /\ [Next]_vars => [A]_vars
    BY <1>1
  <1> QED
    BY <1>2, InitIInv, NextIInv, PTL DEF Spec, StaleRoundsIgnored
=============================================================================
