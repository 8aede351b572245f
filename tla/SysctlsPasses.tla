--------------------------- MODULE SysctlsPasses ----------------------------
(***************************************************************************)
(* The steps of the State task keep the order of the jobs along the lane:  *)
(* a pass, a result, a notification and a reload.                          *)
(***************************************************************************)
EXTENDS SysctlsLane

\* Leaves that name no prover are for Zenon.
USE ZenonT(60)

-----------------------------------------------------------------------------
(* A pass. *)

\* The queue after a pass: the jobs dispatched follow, and at the end the
\* hand-back of the families that departed, if one is due.
LEMMA StepQueue ==
    ASSUME StateInv, step
    PROVE  \E D \in Seq(SysctlJobs) :
             /\ D = DispatchJobs
             /\ \/ queue' = queue \o D
                \/ /\ queue' = Append(queue \o D, [kind |-> "handback", families |-> departed])
                   /\ artifacts = cfg.families /\ artifacts' = artifacts
  <1>1. DispatchJobs \in Seq(SysctlJobs)
    BY Dispatching DEF StateInv
  <1>2. \/ queue' = queue \o DispatchJobs
        \/ /\ queue' = Append(queue \o DispatchJobs, [kind |-> "handback", families |-> departed])
           /\ artifacts = cfg.families /\ artifacts' = artifacts
    BY DEF step, Settled
  <1> QED
    BY <1>1, <1>2

\* What a pass leaves alone, and what it does to the artifacts.
LEMMA StepRest ==
    ASSUME step
    PROVE  /\ mode = "run" /\ pass' # "due" /\ pass = "due"
           /\ sysctls_flight' = FlightAfterDispatch
           /\ retry' \in {retry, "none"}
           /\ artifacts' = artifacts \/ (artifacts' = cfg.families /\ ~Gated)
           /\ UNCHANGED <<value, touched, running, done, mode, cfg, sysctls_pending, sysctls_applied,
                          backoff, reload>>
  <1>1. mode = "run" /\ pass = "due" /\ sysctls_flight' = FlightAfterDispatch
        /\ UNCHANGED <<value, touched, running, done, mode, cfg, sysctls_pending, sysctls_applied,
                       backoff, reload>>
    BY DEF step, historyVars
  <1>2. pass' = "idle" \/ pass' = "left"
    BY DEF step
  <1>3. retry' = retry \/ retry' = "none"
    BY DEF step
  <1>4. artifacts' = artifacts \/ (artifacts' = cfg.families /\ ~Gated)
    BY DEF step
  <1> QED
    BY <1>1, <1>2, <1>3, <1>4

\* What a pass puts in flight, and what its jobs are to the scopes.
LEMMA StepFlight ==
    ASSUME StateInv, step
    PROVE  /\ DOMAIN sysctls_flight' = DOMAIN sysctls_flight \cup Dispatched
           /\ Dispatched \cap DOMAIN sysctls_flight = {} /\ Dispatched \subseteq Scopes
           /\ \A s \in DOMAIN sysctls_flight : sysctls_flight'[s] = sysctls_flight[s]
           /\ \A s \in Dispatched : sysctls_flight'[s] = SysctlJob(s)
           /\ \A s \in Dispatched : Cur(sysctls_flight', SysctlJob(s), s)
           /\ \A s \in Dispatched : \A t : Cur(sysctls_flight', SysctlJob(s), t) => t = s
           /\ \A i \in DOMAIN queue, s \in Scopes :
                Cur(sysctls_flight', queue[i], s) <=> Cur(sysctls_flight, queue[i], s)
           /\ \A i \in DOMAIN done, s \in Scopes :
                Cur(sysctls_flight', done[i], s) <=> Cur(sysctls_flight, done[i], s)
           /\ \A s \in Scopes :
                Cur(sysctls_flight', running, s) <=> Cur(sysctls_flight, running, s)
  <1>1. Dispatched \subseteq Scopes /\ Dispatched \cap DOMAIN sysctls_flight = {}
    BY DispatchedType DEF StateInv
  <1>2. /\ DOMAIN sysctls_flight' = DOMAIN sysctls_flight \cup Dispatched
        /\ \A s \in DOMAIN sysctls_flight : sysctls_flight'[s] = sysctls_flight[s]
        /\ \A s \in Dispatched : sysctls_flight'[s] = SysctlJob(s)
    BY <1>1, StepRest DEF FlightAfterDispatch
  <1>3. \A s \in Dispatched : SysctlJob(s).kind = "sysctls" /\ SysctlJob(s).scope = s
                              /\ SysctlJob(s).seq \notin InUse(s)
    <2>1. \A s \in Dispatched : SysctlJob(s).scope = s /\ SysctlJob(s).seq \notin InUse(s)
      BY <1>1, Numbered DEF StateInv
    <2>2. \A s \in Dispatched : SysctlJob(s).kind = "sysctls"
      BY DEF SysctlJob
    <2> QED
      BY <2>1, <2>2
  <1>4. \A s \in Dispatched : Cur(sysctls_flight', SysctlJob(s), s)
    BY <1>2, <1>3 DEF Cur
  <1>5. \A s \in Dispatched : \A t : Cur(sysctls_flight', SysctlJob(s), t) => t = s
    BY <1>3 DEF Cur
  <1>6. ASSUME NEW j, NEW s \in Scopes,
               j \in {queue[i] : i \in DOMAIN queue} \cup {running} \cup {done[i] : i \in DOMAIN done}
        PROVE  Cur(sysctls_flight', j, s) <=> Cur(sysctls_flight, j, s)
    <2>1. CASE s \in Dispatched
      <3>1. j.kind = "sysctls" /\ j.scope = s => j.seq \in InUse(s)
        BY <1>6 DEF InUse
      <3>2. ~Cur(sysctls_flight, j, s)
        BY <1>1, <2>1 DEF Cur
      <3>3. Cur(sysctls_flight', j, s) => j.seq = SysctlJob(s).seq
        BY <1>2, <2>1 DEF Cur
      <3>4. ~Cur(sysctls_flight', j, s)
        BY <1>3, <2>1, <3>1, <3>3 DEF Cur
      <3> QED
        BY <3>2, <3>4
    <2>2. CASE s \notin Dispatched
      BY <1>2, <2>2 DEF Cur
    <2> QED
      BY <2>1, <2>2
  <1>7. \A i \in DOMAIN queue, s \in Scopes :
          Cur(sysctls_flight', queue[i], s) <=> Cur(sysctls_flight, queue[i], s)
    BY <1>6
  <1>8. \A i \in DOMAIN done, s \in Scopes :
          Cur(sysctls_flight', done[i], s) <=> Cur(sysctls_flight, done[i], s)
    BY <1>6
  <1>9. \A s \in Scopes : Cur(sysctls_flight', running, s) <=> Cur(sysctls_flight, running, s)
    BY <1>6
  <1> QED
    BY <1>1, <1>2, <1>4, <1>5, <1>7, <1>8, <1>9

\* The jobs behind those that waited.
LEMMA StepJobs ==
    ASSUME StateInv, step
    PROVE  \E n \in Nat :
             /\ Len(queue) <= n
             /\ DOMAIN queue' \in {1..n, 1..(n + 1)} /\ Len(queue') \in {n, n + 1}
             /\ DOMAIN queue' = 1..Len(queue')
             /\ \A i \in DOMAIN queue : i \in DOMAIN queue' /\ queue'[i] = queue[i]
             /\ \A i \in 1..n : i \notin DOMAIN queue =>
                  /\ \E s \in Dispatched : queue'[i] = SysctlJob(s)
                  /\ queue'[i].kind = "sysctls"
             /\ \A s \in Dispatched :
                  \E i \in 1..n : i \notin DOMAIN queue /\ queue'[i] = SysctlJob(s)
             /\ n + 1 \in DOMAIN queue' =>
                  /\ queue'[n + 1].kind = "handback" /\ queue'[n + 1].families = departed
                  /\ artifacts = cfg.families /\ artifacts' = artifacts
  <1>1. PICK D \in Seq(SysctlJobs) :
             /\ D = DispatchJobs
             /\ \/ queue' = queue \o D
                \/ /\ queue' = Append(queue \o D, [kind |-> "handback", families |-> departed])
                   /\ artifacts = cfg.families /\ artifacts' = artifacts
    BY StepQueue
  <1>2. D \in Seq(Jobs) /\ queue \in Seq(Jobs)
    BY MoreElements DEF Jobs, StateInv, TypeInv
  <1>3. /\ \A i \in DOMAIN D : \E s \in Dispatched : D[i] = SysctlJob(s)
        /\ \A s \in Dispatched : \E i \in DOMAIN D : D[i] = SysctlJob(s)
    BY <1>1, Dispatching DEF StateInv
  <1>4. /\ Len(D) \in Nat /\ DOMAIN D = 1..Len(D) /\ Len(queue) \in Nat /\ DOMAIN queue = 1..Len(queue)
        /\ \A i \in DOMAIN D : D[i].kind = "sysctls"
    <2>1. \A i \in DOMAIN D : D[i] \in SysctlJobs
      BY Places
    <2>2. Len(D) \in Nat /\ DOMAIN D = 1..Len(D) /\ Len(queue) \in Nat /\ DOMAIN queue = 1..Len(queue)
      BY <1>2, Places
    <2> QED
      BY <2>1, <2>2 DEF SysctlJobs
  <1> DEFINE Q == queue \o D
             n == Len(queue) + Len(D)
             h == [kind |-> "handback", families |-> departed]
  <1>5. /\ Q \in Seq(Jobs) /\ Len(Q) = n /\ DOMAIN Q = 1..n
        /\ \A i \in 1..Len(queue) : Q[i] = queue[i]
        /\ \A i \in 1..Len(D) : Q[Len(queue) + i] = D[i]
        /\ \A i \in 1..n : i > Len(queue) => Q[i] = D[i - Len(queue)]
    BY <1>2, Joined, SMTT(60)
  <1>6. h \in Jobs
    BY DEF departed, Jobs, HandBackJobs
  <1> HIDE DEF Q
  <1>7. /\ n \in Nat /\ Len(queue) <= n
        /\ \A i \in DOMAIN queue : i \in 1..n /\ Q[i] = queue[i]
    BY <1>4, <1>5, SMTT(60)
  <1>8. \A i \in 1..n : i \notin DOMAIN queue =>
          (\E s \in Dispatched : Q[i] = SysctlJob(s)) /\ Q[i].kind = "sysctls"
    <2> SUFFICES ASSUME NEW i \in 1..n, i \notin DOMAIN queue
                 PROVE  (\E s \in Dispatched : Q[i] = SysctlJob(s)) /\ Q[i].kind = "sysctls"
      OBVIOUS
    <2>1. i - Len(queue) \in DOMAIN D /\ Q[i] = D[i - Len(queue)]
      BY <1>4, <1>5, SMTT(60)
    <2> QED
      BY <1>3, <1>4, <2>1
  <1>9. \A s \in Dispatched : \E i \in 1..n : i \notin DOMAIN queue /\ Q[i] = SysctlJob(s)
    <2> SUFFICES ASSUME NEW s \in Dispatched
                 PROVE  \E i \in 1..n : i \notin DOMAIN queue /\ Q[i] = SysctlJob(s)
      OBVIOUS
    <2>1. PICK j \in DOMAIN D : D[j] = SysctlJob(s)
      BY <1>3
    <2>2. Len(queue) + j \in 1..n /\ Len(queue) + j \notin DOMAIN queue /\ Q[Len(queue) + j] = D[j]
      BY <1>4, <1>5, SMTT(60)
    <2> QED
      BY <2>1, <2>2
  <1>10. CASE queue' = Q
    <2>1. n + 1 \notin 1..n
      BY <1>7, SMTT(60)
    <2> QED
      BY <1>5, <1>7, <1>8, <1>9, <1>10, <2>1, SMTT(60)
  <1>11. CASE queue' = Append(Q, h) /\ artifacts = cfg.families /\ artifacts' = artifacts
    <2>1. /\ DOMAIN queue' = 1..(n + 1) /\ Len(queue') = n + 1
          /\ \A i \in 1..n : queue'[i] = Q[i]
          /\ queue'[n + 1] = h
      BY <1>5, <1>6, <1>11, AtEnd, SMTT(60)
    <2>2. h.kind = "handback" /\ h.families = departed
      OBVIOUS
    <2>3. \A i \in 1..n : i \in 1..(n + 1)
      BY <1>7, SMTT(60)
    <2> HIDE DEF n, h
    <2>4. \A i \in DOMAIN queue : i \in DOMAIN queue' /\ queue'[i] = queue[i]
      BY <1>7, <2>1, <2>3
    <2>5. \A i \in 1..n : i \notin DOMAIN queue =>
            (\E s \in Dispatched : queue'[i] = SysctlJob(s)) /\ queue'[i].kind = "sysctls"
      BY <1>8, <2>1
    <2>6. \A s \in Dispatched : \E i \in 1..n : i \notin DOMAIN queue /\ queue'[i] = SysctlJob(s)
      BY <1>9, <2>1
    <2> QED
      BY <1>7, <1>11, <2>1, <2>2, <2>4, <2>5, <2>6
  <1> QED
    BY <1>1, <1>10, <1>11 DEF Q

\* What is ahead of a place is ahead of the later ones.
LEMMA AheadMore ==
    ASSUME NEW f, NEW d, NEW r, NEW q, NEW s, NEW i \in Nat \ {0}, NEW j \in Nat, i <= j,
           Ahead(f, d, r, q, i, s)
    PROVE  Ahead(f, d, r, q, j, s)
  <1>1. i - 1 \in Nat /\ j - 1 \in Nat /\ i - 1 <= j - 1
    BY SMTT(60)
  <1>2. Line(f, q, i - 1, s) => Line(f, q, j - 1, s)
    BY <1>1, LineMore
  <1> QED
    BY <1>2 DEF Ahead

\* A wanted setting is a key of the scope and of a configured family.
LEMMA WantedKeys ==
    ASSUME NEW c, NEW s, NEW k \in wanted_of(c, s)
    PROVE  k \in Keys /\ k.family \in c.families /\ k.scope = s
  BY DEF wanted_of, desired

\* A scope with settings of a family that is no longer configured is in flight
\* after a pass, and was pending before.
LEMMA ExtraInFlight ==
    ASSUME StateInv, AppliedInv, mode = "run", NEW s \in Scopes, Extra(sysctls_applied, cfg, s)
    PROVE  s \in DOMAIN sysctls_flight \cup Dispatched
  <1>1. s \in DOMAIN sysctls_applied
        /\ \E k \in sysctls_applied[s].settings : k.family \notin cfg.families
    BY DEF Extra
  <1>2. s \in sysctl_scopes(cfg)
    BY <1>1 DEF AppliedInv
  <1>3. s \in sysctls_pending
    BY <1>1, <1>2, WantedKeys, SMTT(60) DEF AppliedInv
  <1>4. s \notin backoff /\ (s = Global => retry # "sysctls")
    BY <1>1 DEF AppliedInv
  <1> QED
    BY <1>3, <1>4 DEF Dispatched

\* The line after a pass: old jobs keep their places, and whatever is in
\* flight comes before the hand-back that the pass may add.
LEMMA StepAhead ==
    ASSUME StateInv, FlightInv, step
    PROVE  \E n \in Nat :
             /\ Len(queue) <= n
             /\ DOMAIN queue' \in {1..n, 1..(n + 1)} /\ Len(queue') \in {n, n + 1}
             /\ DOMAIN queue' = 1..Len(queue')
             /\ \A i \in DOMAIN queue : i \in DOMAIN queue' /\ queue'[i] = queue[i]
             /\ \A i \in 1..n : i \notin DOMAIN queue =>
                  /\ \E s \in Dispatched : queue'[i] = SysctlJob(s)
                  /\ queue'[i].kind = "sysctls"
             /\ n + 1 \in DOMAIN queue' =>
                  /\ queue'[n + 1].kind = "handback" /\ queue'[n + 1].families = departed
                  /\ artifacts = cfg.families /\ artifacts' = artifacts
             /\ \A s \in Scopes, m \in 0..Len(done) :
                  Line(sysctls_flight', done, m, s) <=> Line(sysctls_flight, done, m, s)
             /\ \A s \in Scopes, i \in 1..(Len(queue) + 1) :
                  Ahead(sysctls_flight', done, running, queue', i, s)
                    <=> Ahead(sysctls_flight, done, running, queue, i, s)
             /\ \A s \in DOMAIN sysctls_flight' :
                  Ahead(sysctls_flight', done, running, queue', n + 1, s)
  <1> DEFINE F == sysctls_flight
             G == sysctls_flight'
  <1>1. PICK n \in Nat :
             /\ Len(queue) <= n
             /\ DOMAIN queue' \in {1..n, 1..(n + 1)} /\ Len(queue') \in {n, n + 1}
             /\ DOMAIN queue' = 1..Len(queue')
             /\ \A i \in DOMAIN queue : i \in DOMAIN queue' /\ queue'[i] = queue[i]
             /\ \A i \in 1..n : i \notin DOMAIN queue =>
                  /\ \E s \in Dispatched : queue'[i] = SysctlJob(s)
                  /\ queue'[i].kind = "sysctls"
             /\ \A s \in Dispatched :
                  \E i \in 1..n : i \notin DOMAIN queue /\ queue'[i] = SysctlJob(s)
             /\ n + 1 \in DOMAIN queue' =>
                  /\ queue'[n + 1].kind = "handback" /\ queue'[n + 1].families = departed
                  /\ artifacts = cfg.families /\ artifacts' = artifacts
    BY StepJobs
  <1>2. /\ DOMAIN G = DOMAIN F \cup Dispatched
        /\ \A s \in Dispatched : Cur(G, SysctlJob(s), s)
        /\ \A i \in DOMAIN queue, s \in Scopes : Cur(G, queue[i], s) <=> Cur(F, queue[i], s)
        /\ \A i \in DOMAIN done, s \in Scopes : Cur(G, done[i], s) <=> Cur(F, done[i], s)
        /\ \A s \in Scopes : Cur(G, running, s) <=> Cur(F, running, s)
    BY StepFlight
  <1>3. /\ \A s \in DOMAIN F : s \in Scopes
        /\ Len(queue) \in Nat /\ DOMAIN queue = 1..Len(queue)
        /\ Len(done) \in Nat /\ DOMAIN done = 1..Len(done)
    BY JobTypes
  <1> HIDE DEF F, G
  <1>4. \A s \in Scopes, m \in 0..Len(done) : Line(G, done, m, s) <=> Line(F, done, m, s)
    <2> SUFFICES ASSUME NEW s \in Scopes, NEW m \in 0..Len(done)
                 PROVE  Line(G, done, m, s) <=> Line(F, done, m, s)
      OBVIOUS
    <2>1. \A i \in 1..m : i \in DOMAIN done
      BY <1>3, SMTT(60)
    <2> QED
      BY <1>2, <2>1 DEF Line
  <1>5. \A s \in Scopes, m \in 0..Len(queue) : Line(G, queue', m, s) <=> Line(F, queue, m, s)
    <2> SUFFICES ASSUME NEW s \in Scopes, NEW m \in 0..Len(queue)
                 PROVE  Line(G, queue', m, s) <=> Line(F, queue, m, s)
      OBVIOUS
    <2>0. \A i \in 1..m : i \in DOMAIN queue
      BY <1>3, SMTT(60)
    <2>1. \A i \in 1..m : i \in DOMAIN queue /\ queue'[i] = queue[i]
      BY <1>1, <2>0
    <2>2. \A i \in 1..m : Cur(G, queue'[i], s) <=> Cur(F, queue[i], s)
      BY <1>2, <2>1
    <2> QED
      BY <2>2 DEF Line
  <1>6. \A s \in Scopes : Answered(G, done, s) <=> Answered(F, done, s)
    <2>1. Len(done) \in 0..Len(done)
      BY <1>3, SMTT(60)
    <2> QED
      BY <1>4, <2>1 DEF Answered
  <1>7. \A s \in Scopes, i \in 1..(Len(queue) + 1) :
          Ahead(G, done, running, queue', i, s) <=> Ahead(F, done, running, queue, i, s)
    <2>1. \A i \in 1..(Len(queue) + 1) : i - 1 \in 0..Len(queue)
      BY <1>3, SMTT(60)
    <2> QED
      BY <1>2, <1>5, <1>6, <2>1 DEF Ahead
  <1>8. ASSUME NEW s \in DOMAIN G
        PROVE  Ahead(G, done, running, queue', n + 1, s)
    <2>1. CASE s \in DOMAIN F
      <3>1. Ahead(F, done, running, queue, Len(queue) + 1, s)
        BY <2>1 DEF FlightInv, F
      <3>2. Len(queue) + 1 \in 1..(Len(queue) + 1) /\ s \in Scopes
        BY <1>3, <2>1, SMTT(60)
      <3>3. Ahead(G, done, running, queue', Len(queue) + 1, s)
        BY <1>7, <3>1, <3>2
      <3>0. Len(queue) <= n
        BY <1>1
      <3>4. Len(queue) + 1 \in Nat \ {0} /\ n + 1 \in Nat /\ Len(queue) + 1 <= n + 1
        BY <1>3, <3>0, SMTT(60)
      <3> QED
        BY <3>3, <3>4, AheadMore
    <2>2. CASE s \in Dispatched
      <3>1. PICK i \in 1..n : queue'[i] = SysctlJob(s)
        BY <1>1, <2>2
      <3>2. Cur(G, queue'[i], s)
        BY <1>2, <2>2, <3>1
      <3>3. (n + 1) - 1 = n
        BY SMTT(60)
      <3> QED
        BY <3>2, <3>3 DEF Ahead, Line
    <2> QED
      BY <1>2, <2>1, <2>2
  <1> QED
    BY <1>1, <1>4, <1>7, <1>8 DEF F, G

\* A pass keeps FlightInv.
LEMMA StepFlightInv ==
    ASSUME StateInv, FlightInv, step
    PROVE  FlightInv'
  <1> DEFINE F == sysctls_flight
             G == sysctls_flight'
  <1>1. PICK n \in Nat :
             /\ DOMAIN queue' \in {1..n, 1..(n + 1)} /\ Len(queue') \in {n, n + 1}
             /\ \A i \in DOMAIN queue : i \in DOMAIN queue' /\ queue'[i] = queue[i]
             /\ \A i \in 1..n : i \notin DOMAIN queue =>
                  /\ \E s \in Dispatched : queue'[i] = SysctlJob(s)
                  /\ queue'[i].kind = "sysctls"
             /\ n + 1 \in DOMAIN queue' => queue'[n + 1].kind = "handback"
             /\ \A s \in DOMAIN G : Ahead(G, done, running, queue', n + 1, s)
    BY StepAhead
  <1>2. /\ DOMAIN G = DOMAIN F \cup Dispatched
        /\ \A s \in DOMAIN F : G[s] = F[s]
        /\ \A s \in Dispatched : G[s] = SysctlJob(s)
        /\ \A s \in Dispatched : \A t : Cur(G, SysctlJob(s), t) => t = s
        /\ \A i \in DOMAIN queue, s \in Scopes : Cur(G, queue[i], s) <=> Cur(F, queue[i], s)
        /\ \A i \in DOMAIN done, s \in Scopes : Cur(G, done[i], s) <=> Cur(F, done[i], s)
        /\ \A s \in Scopes : Cur(G, running, s) <=> Cur(F, running, s)
        /\ Dispatched \subseteq Scopes
    BY StepFlight
  <1>3. /\ cfg' = cfg /\ running' = running /\ done' = done
        /\ value' = value /\ touched' = touched
    BY StepRest
  <1>4. \A s \in Dispatched :
          SysctlJob(s).scope = s /\ SysctlJob(s).settings = wanted_of(cfg, s) /\ SysctlJob(s).manage = cfg.manage
    BY <1>2, Numbered DEF StateInv
  <1>5. \A j, s : Cur(F, j, s) => s \in DOMAIN F
    BY DEF Cur
  <1> HIDE DEF F, G
  <1>6. \A s \in DOMAIN G :
          /\ G[s].scope = s /\ G[s].settings = wanted_of(cfg, s) /\ G[s].manage = cfg.manage
          /\ Ahead(G, done, running, queue', Len(queue') + 1, s)
    <2> SUFFICES ASSUME NEW s \in DOMAIN G
                 PROVE  /\ G[s].scope = s /\ G[s].settings = wanted_of(cfg, s)
                        /\ G[s].manage = cfg.manage
                        /\ Ahead(G, done, running, queue', Len(queue') + 1, s)
      OBVIOUS
    <2>1. G[s].scope = s /\ G[s].settings = wanted_of(cfg, s) /\ G[s].manage = cfg.manage
      <3>1. CASE s \in Dispatched
        BY <1>2, <1>4, <3>1, SMTT(60)
      <3>2. CASE s \in DOMAIN F
        <4>1. F[s].scope = s /\ F[s].settings = wanted_of(cfg, s) /\ F[s].manage = cfg.manage
          BY <3>2 DEF FlightInv, F
        <4> QED
          BY <1>2, <3>2, <4>1
      <3> QED
        BY <1>2, <3>1, <3>2
    <2>2. n + 1 \in Nat \ {0} /\ Len(queue') + 1 \in Nat /\ n + 1 <= Len(queue') + 1
      BY <1>1, SMTT(60)
    <2>3. Ahead(G, done, running, queue', n + 1, s)
      BY <1>1
    <2>4. Ahead(G, done, running, queue', Len(queue') + 1, s)
      BY <2>2, <2>3, AheadMore
    <2> QED
      BY <2>1, <2>4
  <1>7. \A i \in DOMAIN queue', s \in Scopes :
          Cur(G, queue'[i], s) => queue'[i].settings = G[s].settings /\ queue'[i].manage = G[s].manage
    <2> SUFFICES ASSUME NEW i \in DOMAIN queue', NEW s \in Scopes, Cur(G, queue'[i], s)
                 PROVE  queue'[i].settings = G[s].settings /\ queue'[i].manage = G[s].manage
      OBVIOUS
    <2>1. CASE i \in DOMAIN queue
      <3>1. queue'[i] = queue[i] /\ Cur(F, queue[i], s)
        BY <1>1, <1>2, <2>1
      <3>2. queue[i].settings = F[s].settings /\ queue[i].manage = F[s].manage
        BY <2>1, <3>1 DEF FlightInv, F
      <3> QED
        BY <1>2, <1>5, <3>1, <3>2
    <2>2. CASE i \notin DOMAIN queue
      <3>1. i \in 1..n
        <4>1. i \in 1..n \/ i = n + 1
          BY <1>1, SMTT(60)
        <4>2. queue'[i].kind = "sysctls"
          BY DEF Cur
        <4> QED
          BY <1>1, <4>1, <4>2
      <3>2. PICK t \in Dispatched : queue'[i] = SysctlJob(t)
        BY <1>1, <2>2, <3>1
      <3>3. s = t
        BY <1>2, <3>2
      <3> QED
        BY <1>2, <3>2, <3>3
    <2> QED
      BY <2>1, <2>2
  <1>8. \A s \in Scopes :
          Cur(G, running, s) => \A k \in G[s].settings \ running.settings : InPlace(value, touched, k)
    <2> SUFFICES ASSUME NEW s \in Scopes, Cur(G, running, s), NEW k \in G[s].settings \ running.settings
                 PROVE  InPlace(value, touched, k)
      OBVIOUS
    <2>1. Cur(F, running, s) /\ G[s] = F[s]
      BY <1>2, <1>5
    <2>2. k \in F[s].settings \ running.settings
      BY <2>1
    <2> QED
      BY <2>1, <2>2 DEF FlightInv, F
  <1>9. \A i \in DOMAIN done, s \in Scopes :
          Cur(G, done[i], s) /\ done[i].ok /\ G[s].manage =>
            \A k \in G[s].settings : InPlace(value, touched, k)
    <2> SUFFICES ASSUME NEW i \in DOMAIN done, NEW s \in Scopes, Cur(G, done[i], s), done[i].ok,
                        G[s].manage, NEW k \in G[s].settings
                 PROVE  InPlace(value, touched, k)
      OBVIOUS
    <2>1. Cur(F, done[i], s) /\ G[s] = F[s]
      BY <1>2, <1>5
    <2>2. k \in F[s].settings /\ F[s].manage
      BY <2>1
    <2> QED
      BY <2>1, <2>2 DEF FlightInv, F
  <1>10. G = sysctls_flight'
    BY DEF G
  <1> QED
    BY <1>3, <1>6, <1>7, <1>8, <1>9, <1>10, SMTT(60) DEF FlightInv

\* A pass keeps AppliedInv, ReloadInv and OrderInv.
LEMMA StepOrder ==
    ASSUME StateInv, FlightInv, AppliedInv, ReloadInv, OrderInv, step
    PROVE  AppliedInv' /\ ReloadInv' /\ OrderInv'
  <1> DEFINE F == sysctls_flight
             G == sysctls_flight'
             A == sysctls_applied
  <1>1. PICK n \in Nat :
             /\ Len(queue) <= n
             /\ DOMAIN queue' \in {1..n, 1..(n + 1)}
             /\ \A i \in DOMAIN queue : i \in DOMAIN queue' /\ queue'[i] = queue[i]
             /\ \A i \in 1..n : i \notin DOMAIN queue => queue'[i].kind = "sysctls"
             /\ n + 1 \in DOMAIN queue' =>
                  queue'[n + 1].kind = "handback" /\ queue'[n + 1].families = departed
             /\ \A s \in Scopes, m \in 0..Len(done) : Line(G, done, m, s) <=> Line(F, done, m, s)
             /\ \A s \in Scopes, i \in 1..(Len(queue) + 1) :
                  Ahead(G, done, running, queue', i, s) <=> Ahead(F, done, running, queue, i, s)
             /\ \A s \in DOMAIN G : Ahead(G, done, running, queue', n + 1, s)
    BY StepAhead
  <1>2. DOMAIN G = DOMAIN F \cup Dispatched
    BY StepFlight
  <1>3. /\ mode = "run" /\ mode' = "run" /\ cfg' = cfg /\ running' = running /\ done' = done
        /\ value' = value /\ touched' = touched /\ pass' # "due" /\ retry' \in {retry, "none"}
        /\ backoff' = backoff /\ sysctls_pending' = sysctls_pending
        /\ sysctls_applied' = A /\ reload' = reload
    BY StepRest
  <1>4. /\ Len(queue) \in Nat /\ DOMAIN queue = 1..Len(queue)
        /\ Len(done) \in Nat /\ DOMAIN done = 1..Len(done)
    BY JobTypes
  <1>5. \A s \in Scopes : Extra(A, cfg, s) => s \in DOMAIN G
    BY <1>2, <1>3, ExtraInFlight
  <1>6. departed \cap cfg.families = {}
    BY DEF departed
  <1> HIDE DEF F, G, A
  \* A place of the queue is an old one, one of a job dispatched, or the last.
  <1>7. \A i \in DOMAIN queue' :
          \/ /\ i \in DOMAIN queue /\ i \in 1..(Len(queue) + 1) /\ queue'[i] = queue[i]
             /\ GivenBy(queue'[i]) = GivenBy(queue[i])
          \/ i \notin DOMAIN queue /\ GivenBy(queue'[i]) = {} /\ queue'[i].kind # "bind"
          \/ i \notin DOMAIN queue /\ i = n + 1 /\ GivenBy(queue'[i]) = departed /\ queue'[i].kind # "bind"
    <2> SUFFICES ASSUME NEW i \in DOMAIN queue'
                 PROVE  \/ /\ i \in DOMAIN queue /\ i \in 1..(Len(queue) + 1) /\ queue'[i] = queue[i]
                           /\ GivenBy(queue'[i]) = GivenBy(queue[i])
                        \/ i \notin DOMAIN queue /\ GivenBy(queue'[i]) = {} /\ queue'[i].kind # "bind"
                        \/ i \notin DOMAIN queue /\ i = n + 1 /\ GivenBy(queue'[i]) = departed
                           /\ queue'[i].kind # "bind"
      OBVIOUS
    <2>1. CASE i \in DOMAIN queue
      BY <1>1, <1>4, <2>1, SMTT(60)
    <2>2. CASE i \notin DOMAIN queue /\ i \in 1..n
      BY <1>1, <2>2 DEF GivenBy
    <2>3. CASE i \notin DOMAIN queue /\ i = n + 1
      BY <1>1, <2>3 DEF GivenBy
    <2>4. i \in 1..n \/ i = n + 1
      BY <1>1, SMTT(60)
    <2> QED
      BY <2>1, <2>2, <2>3, <2>4
  <1>8. Binds(queue') = Binds(queue)
    BY <1>1, <1>7 DEF Binds
  <1>9. \A s : Uses(A, s, departed) => Extra(A, cfg, s)
    BY <1>6 DEF Uses, Extra
  <1>10. \A s : ~Uses(A, s, {})
    BY DEF Uses
  <1>11. \A s : Contested(A, running, queue', s) => Contested(A, running, queue, s) \/ Extra(A, cfg, s)
    BY <1>7, <1>9, <1>10 DEF Contested
  <1>12. \A s \in Scopes : Answered(G, done, s) <=> Answered(F, done, s)
    <2>1. Len(done) \in 0..Len(done)
      BY <1>4, SMTT(60)
    <2> QED
      BY <1>1, <2>1 DEF Answered
  <1>13. AppliedInv'
    <2>1. retry' = "sysctls" => retry = "sysctls"
      BY <1>3
    <2>2. retry = "sysctls" => Global \notin DOMAIN A \cup DOMAIN G
      BY <1>2 DEF AppliedInv, Dispatched, F, A
    <2>3. A = sysctls_applied /\ G = sysctls_flight'
      BY DEF A, G
    <2> QED
      BY <1>3, <2>1, <2>2, <2>3 DEF AppliedInv
  <1>14. ReloadInv'
    BY <1>3, <1>8 DEF ReloadInv
  <1>15. \A i \in DOMAIN queue', s \in Scopes :
           Uses(A, s, GivenBy(queue'[i])) => Ahead(G, done, running, queue', i, s)
    <2> SUFFICES ASSUME NEW i \in DOMAIN queue', NEW s \in Scopes, Uses(A, s, GivenBy(queue'[i]))
                 PROVE  Ahead(G, done, running, queue', i, s)
      OBVIOUS
    <2>1. CASE i \in DOMAIN queue
      <3>1. i \in 1..(Len(queue) + 1) /\ Uses(A, s, GivenBy(queue[i]))
        BY <1>7, <2>1
      <3>2. Ahead(F, done, running, queue, i, s)
        BY <2>1, <3>1 DEF OrderInv, F, A
      <3> QED
        BY <1>1, <3>1, <3>2
    <2>2. CASE i \notin DOMAIN queue
      <3>1. i = n + 1 /\ Uses(A, s, departed)
        BY <1>7, <1>10, <2>2
      <3>2. s \in DOMAIN G
        BY <1>5, <1>9, <3>1
      <3> QED
        BY <1>1, <3>1, <3>2
    <2> QED
      BY <2>1, <2>2
  <1>16. \A s \in Scopes : Uses(A, s, Todo(running)) => Answered(G, done, s)
    BY <1>12 DEF OrderInv, F, A
  <1>17. \A i \in Binds(queue'), s \in Scopes :
           Extra(A, cfg, s) \/ Contested(A, running, queue', s) => Ahead(G, done, running, queue', i, s)
    <2> SUFFICES ASSUME NEW i \in Binds(queue), NEW s \in Scopes,
                        Extra(A, cfg, s) \/ Contested(A, running, queue', s)
                 PROVE  Ahead(G, done, running, queue', i, s)
      BY <1>8
    <2>1. Ahead(F, done, running, queue, i, s)
      BY <1>11 DEF OrderInv, F, A
    <2>2. i \in 1..(Len(queue) + 1)
      BY <1>4, SMTT(60) DEF Binds
    <2> QED
      BY <1>1, <2>1, <2>2
  <1>18. \A i \in Binds(done), s \in Scopes :
           Extra(A, cfg, s) \/ Contested(A, running, queue', s) => Line(G, done, i - 1, s)
    <2> SUFFICES ASSUME NEW i \in Binds(done), NEW s \in Scopes,
                        Extra(A, cfg, s) \/ Contested(A, running, queue', s)
                 PROVE  Line(G, done, i - 1, s)
      OBVIOUS
    <2>1. Line(F, done, i - 1, s)
      BY <1>11 DEF OrderInv, F, A
    <2>2. i - 1 \in 0..Len(done)
      BY <1>4, SMTT(60) DEF Binds
    <2> QED
      BY <1>1, <2>1, <2>2
  <1>19. \A i \in DOMAIN queue', s \in Scopes :
           Ahead(G, done, running, queue', i, s) => GivenBy(queue'[i]) \cap cfg.families = {}
    <2> SUFFICES ASSUME NEW i \in DOMAIN queue', NEW s \in Scopes, Ahead(G, done, running, queue', i, s)
                 PROVE  GivenBy(queue'[i]) \cap cfg.families = {}
      OBVIOUS
    <2>1. CASE i \in DOMAIN queue
      <3>1. i \in 1..(Len(queue) + 1) /\ GivenBy(queue'[i]) = GivenBy(queue[i])
        BY <1>7, <2>1
      <3>2. Ahead(F, done, running, queue, i, s)
        BY <1>1, <3>1
      <3>3. GivenBy(queue[i]) \cap cfg.families = {}
        BY <2>1, <3>2 DEF OrderInv, F
      <3> QED
        BY <3>1, <3>3
    <2>2. CASE i \notin DOMAIN queue
      BY <1>6, <1>7, <2>2
    <2> QED
      BY <2>1, <2>2
  <1>20. \A s \in Scopes : Answered(G, done, s) => Todo(running) \cap cfg.families = {}
    BY <1>12 DEF OrderInv, F
  <1>21. G = sysctls_flight'
    BY DEF G
  <1>22. A = sysctls_applied'
    BY <1>3
  <1>23. \A s \in Scopes : pass' # "due" /\ Extra(A, cfg, s) => s \in DOMAIN G
    BY <1>5
  <1>24. OrderInv'
    BY <1>3, <1>15, <1>16, <1>17, <1>18, <1>19, <1>20, <1>21, <1>22, <1>23 DEF OrderInv
  <1> QED
    BY <1>13, <1>14, <1>24

\* Where nothing gates the routing, the global settings of every family count
\* as applied.
LEMMA NotGated ==
    ASSUME StateInv, AppliedInv, mode = "run", cfg.manage, ~Gated
    PROVE  /\ Global \in DOMAIN sysctls_applied /\ sysctls_applied[Global].manage
           /\ wanted_of(cfg, Global) \subseteq sysctls_applied[Global].settings
  <1>1. Global \in sysctl_scopes(cfg)
    BY DEF sysctl_scopes
  <1>2. CASE Global \notin sysctls_pending
    <2>1. /\ Global \in DOMAIN sysctls_applied
          /\ sysctls_applied[Global].settings = wanted_of(cfg, Global)
          /\ sysctls_applied[Global].manage = cfg.manage
      BY <1>1, <1>2 DEF AppliedInv
    <2> QED
      BY <2>1
  <1>3. CASE Global \in sysctls_pending
    <2>1. /\ Global \in DOMAIN sysctls_applied /\ sysctls_applied[Global].manage
          /\ {k \in wanted_of(cfg, Global) : k.family \in Families} \subseteq sysctls_applied[Global].settings
      BY <1>3 DEF Gated, sysctls_unapplied
    <2>2. \A k \in wanted_of(cfg, Global) : k.family \in Families
      BY WantedKeys, SMTT(60) DEF Keys
    <2> QED
      BY <2>1, <2>2
  <1> QED
    BY <1>2, <1>3

\* So a family that is configured and handed back would be in use.
LEMMA NotGatedUses ==
    ASSUME StateInv, AppliedInv, mode = "run", cfg.manage, ~Gated,
           NEW H, H \cap cfg.families # {}
    PROVE  Uses(sysctls_applied, Global, H)
  <1>1. Global \in DOMAIN sysctls_applied /\ wanted_of(cfg, Global) \subseteq sysctls_applied[Global].settings
    BY NotGated
  <1>2. PICK f \in cfg.families : f \in H
    OBVIOUS
  <1>3. cfg.families \subseteq Families
    BY Constants DEF StateInv, BaseInv, TypeInv, TypeOK
  <1> DEFINE k == [family |-> f, scope |-> Global]
  <1>4. k \in wanted_of(cfg, Global) /\ k.family = f
    BY <1>3 DEF wanted_of, desired, Keys
  <1> QED
    BY <1>1, <1>2, <1>4 DEF Uses

\* What the jobs in the queue after a pass hand back.
LEMMA StepPlaces ==
    ASSUME StateInv, FlightInv, step
    PROVE  /\ \A i \in DOMAIN queue' :
                \/ i \in DOMAIN queue /\ GivenBy(queue'[i]) = GivenBy(queue[i])
                \/ i \notin DOMAIN queue /\ GivenBy(queue'[i]) = {}
                \/ i \notin DOMAIN queue /\ GivenBy(queue'[i]) = departed /\ artifacts' = cfg.families
           /\ Binds(queue') = Binds(queue)
  <1>1. PICK n \in Nat :
             /\ DOMAIN queue' \in {1..n, 1..(n + 1)}
             /\ \A i \in DOMAIN queue : i \in DOMAIN queue' /\ queue'[i] = queue[i]
             /\ \A i \in 1..n : i \notin DOMAIN queue => queue'[i].kind = "sysctls"
             /\ n + 1 \in DOMAIN queue' =>
                  /\ queue'[n + 1].kind = "handback" /\ queue'[n + 1].families = departed
                  /\ artifacts = cfg.families /\ artifacts' = artifacts
    BY StepAhead
  <1>2. \A i \in DOMAIN queue' :
          \/ i \in DOMAIN queue /\ queue'[i] = queue[i]
          \/ i \notin DOMAIN queue /\ GivenBy(queue'[i]) = {} /\ queue'[i].kind # "bind"
          \/ i \notin DOMAIN queue /\ GivenBy(queue'[i]) = departed /\ queue'[i].kind # "bind"
             /\ artifacts' = cfg.families
    <2> SUFFICES ASSUME NEW i \in DOMAIN queue'
                 PROVE  \/ i \in DOMAIN queue /\ queue'[i] = queue[i]
                        \/ i \notin DOMAIN queue /\ GivenBy(queue'[i]) = {} /\ queue'[i].kind # "bind"
                        \/ i \notin DOMAIN queue /\ GivenBy(queue'[i]) = departed
                           /\ queue'[i].kind # "bind" /\ artifacts' = cfg.families
      OBVIOUS
    <2>1. i \in 1..n \/ i = n + 1
      BY <1>1, SMTT(60)
    <2>2. CASE i \in DOMAIN queue
      BY <1>1, <2>2
    <2>3. CASE i \notin DOMAIN queue /\ i \in 1..n
      BY <1>1, <2>3 DEF GivenBy
    <2>4. CASE i \notin DOMAIN queue /\ i = n + 1
      BY <1>1, <2>4 DEF GivenBy
    <2> QED
      BY <2>1, <2>2, <2>3, <2>4
  <1>3. Binds(queue') = Binds(queue)
    BY <1>1, <1>2 DEF Binds
  <1> QED
    BY <1>2, <1>3

\* A pass keeps UseInv: it installs families only where the gate is open.
LEMMA StepUse ==
    ASSUME StateInv, FlightInv, AppliedInv, OrderInv, UseInv, step
    PROVE  UseInv'
  <1>1. /\ mode = "run" /\ cfg' = cfg /\ running' = running /\ done' = done
        /\ artifacts' = artifacts \/ (artifacts' = cfg.families /\ ~Gated)
    BY StepRest
  <1>2. /\ \A i \in DOMAIN queue' :
             \/ i \in DOMAIN queue /\ GivenBy(queue'[i]) = GivenBy(queue[i])
             \/ i \notin DOMAIN queue /\ GivenBy(queue'[i]) = {}
             \/ i \notin DOMAIN queue /\ GivenBy(queue'[i]) = departed /\ artifacts' = cfg.families
        /\ Binds(queue') = Binds(queue)
    BY StepPlaces
  <1>3. departed \cap cfg.families = {}
    BY DEF departed
  <1>4. Global \in Scopes
    BY DEF Scopes
  <1>5. ASSUME cfg.manage, ~Gated
        PROVE  /\ Todo(running) \cap cfg.families = {}
               /\ \A i \in DOMAIN queue : GivenBy(queue[i]) \cap cfg.families = {}
    <2>1. ASSUME Todo(running) \cap cfg.families # {}
          PROVE  FALSE
      <3>1. Uses(sysctls_applied, Global, Todo(running))
        BY <1>1, <1>5, <2>1, NotGatedUses
      <3> QED
        BY <1>4, <2>1, <3>1 DEF OrderInv
    <2>2. ASSUME NEW i \in DOMAIN queue, GivenBy(queue[i]) \cap cfg.families # {}
          PROVE  FALSE
      <3>1. Uses(sysctls_applied, Global, GivenBy(queue[i]))
        BY <1>1, <1>5, <2>2, NotGatedUses
      <3> QED
        BY <1>4, <2>2, <3>1 DEF OrderInv
    <2> QED
      BY <2>1, <2>2
  <1>6. cfg.manage => /\ Todo(running) \cap artifacts' = {}
                      /\ \A i \in DOMAIN queue' : GivenBy(queue'[i]) \cap artifacts' = {}
    <2> SUFFICES ASSUME cfg.manage
                 PROVE  /\ Todo(running) \cap artifacts' = {}
                        /\ \A i \in DOMAIN queue' : GivenBy(queue'[i]) \cap artifacts' = {}
      OBVIOUS
    <2>1. /\ Todo(running) \cap artifacts' = {}
          /\ \A i \in DOMAIN queue : GivenBy(queue[i]) \cap artifacts' = {}
      BY <1>1, <1>5 DEF UseInv
    <2> QED
      BY <1>2, <1>3, <2>1
  <1>7. artifacts' \subseteq cfg.families \cup artifacts
    BY <1>1
  <1>8. \A j \in DOMAIN queue' :
          Binds(done) # {} \/ (\E i \in Binds(queue') : i < j) =>
            GivenBy(queue'[j]) \cap (cfg.families \cup artifacts') = {}
    <2> SUFFICES ASSUME NEW j \in DOMAIN queue',
                        Binds(done) # {} \/ (\E i \in Binds(queue) : i < j)
                 PROVE  GivenBy(queue'[j]) \cap (cfg.families \cup artifacts') = {}
      BY <1>2
    <2>1. CASE j \in DOMAIN queue
      <3>1. GivenBy(queue[j]) \cap (cfg.families \cup artifacts) = {}
        BY <2>1 DEF UseInv
      <3> QED
        BY <1>2, <1>7, <2>1, <3>1
    <2>2. CASE j \notin DOMAIN queue
      BY <1>2, <1>3, <2>2
    <2> QED
      BY <2>1, <2>2
  <1>9. Binds(done) # {} => Todo(running) \cap (cfg.families \cup artifacts') = {}
    BY <1>7 DEF UseInv
  <1> QED
    BY <1>1, <1>6, <1>8, <1>9 DEF UseInv

\* A pass keeps LaneInv.
LEMMA StepLane ==
    ASSUME StateInv, LaneInv, step
    PROVE  LaneInv'
  <1>1. FlightInv'
    BY StepFlightInv DEF LaneInv
  <1>2. AppliedInv' /\ ReloadInv' /\ OrderInv'
    BY StepOrder DEF LaneInv
  <1>3. UseInv'
    BY StepUse DEF LaneInv
  <1>4. GlobalInv'
    BY StepRest DEF LaneInv, GlobalInv
  <1> QED
    BY <1>1, <1>2, <1>3, <1>4 DEF LaneInv

\* A reload that begins keeps LaneInv: its Bind job is queued after everything
\* in flight.
LEMMA ReloadLane ==
    ASSUME StateInv, LaneInv, NEW c \in Files, start_reload(c)
    PROVE  LaneInv'
  <1> DEFINE F == sysctls_flight
             A == sysctls_applied
             job == [kind |-> "bind", config |-> c]
  <1>1. /\ mode = "run" /\ pass # "due" /\ ~reload /\ queue' = Append(queue, job) /\ mode' = mode
        /\ cfg' = cfg /\ running' = running /\ done' = done /\ value' = value /\ touched' = touched
        /\ retry' = retry /\ backoff' = backoff /\ sysctls_pending' = sysctls_pending
        /\ sysctls_applied' = A /\ sysctls_flight' = F /\ reload' /\ artifacts' = artifacts
    BY DEF start_reload, Event, historyVars
  <1>2. /\ Len(queue) \in Nat /\ DOMAIN queue = 1..Len(queue)
        /\ Len(done) \in Nat /\ DOMAIN done = 1..Len(done)
    BY JobTypes
  <1>3. /\ Len(queue') = Len(queue) + 1 /\ DOMAIN queue' = 1..(Len(queue) + 1)
        /\ \A i \in DOMAIN queue : i \in DOMAIN queue' /\ queue'[i] = queue[i]
        /\ queue'[Len(queue) + 1] = job
    <2>1. queue \in Seq(Jobs)
      BY DEF StateInv, BaseInv, TypeInv
    <2> QED
      BY <1>1, <1>2, <2>1, SMTT(60)
  <1>4. job.kind = "bind" /\ GivenBy(job) = {}
    BY DEF GivenBy
  <1> HIDE DEF F, A, job
  <1>5. Binds(queue) = {} /\ Binds(done) = {}
    BY <1>1 DEF LaneInv, ReloadInv
  <1>6. Binds(queue') = {Len(queue) + 1}
    <2>1. \A i \in DOMAIN queue : queue'[i].kind # "bind"
      BY <1>3, <1>5 DEF Binds
    <2>2. \A i \in DOMAIN queue' : i \in DOMAIN queue \/ i = Len(queue) + 1
      BY <1>2, <1>3, SMTT(60)
    <2>3. Len(queue) + 1 \in DOMAIN queue' /\ Len(queue) + 1 \notin DOMAIN queue
      BY <1>2, <1>3, SMTT(60)
    <2> QED
      BY <1>3, <1>4, <2>1, <2>2, <2>3 DEF Binds
  <1>7. \A s \in Scopes, m \in 0..Len(queue) : Line(F, queue', m, s) <=> Line(F, queue, m, s)
    <2> SUFFICES ASSUME NEW s \in Scopes, NEW m \in 0..Len(queue)
                 PROVE  Line(F, queue', m, s) <=> Line(F, queue, m, s)
      OBVIOUS
    <2>1. \A i \in 1..m : i \in DOMAIN queue
      BY <1>2, SMTT(60)
    <2>2. \A i \in 1..m : queue'[i] = queue[i]
      BY <1>3, <2>1
    <2> QED
      BY <2>2 DEF Line
  <1>8. \A s \in Scopes, i \in 1..(Len(queue) + 1) :
          Ahead(F, done, running, queue', i, s) <=> Ahead(F, done, running, queue, i, s)
    <2>1. \A i \in 1..(Len(queue) + 1) : i - 1 \in 0..Len(queue)
      BY <1>2, SMTT(60)
    <2> QED
      BY <1>7, <2>1 DEF Ahead
  <1>9. \A i \in DOMAIN queue' :
          \/ i \in DOMAIN queue /\ queue'[i] = queue[i] /\ i \in 1..(Len(queue) + 1)
          \/ i \notin DOMAIN queue /\ queue'[i] = job
    BY <1>2, <1>3, SMTT(60)
  <1>10. \A s : ~Uses(A, s, {})
    BY DEF Uses
  <1>11. \A s : Contested(A, running, queue', s) => Contested(A, running, queue, s)
    BY <1>4, <1>9, <1>10 DEF Contested
  \* What is in flight comes before the Bind job.
  <1>12. \A s \in DOMAIN F : Ahead(F, done, running, queue', Len(queue) + 1, s)
    <2>1. Len(queue) + 1 \in 1..(Len(queue) + 1)
      BY <1>2, SMTT(60)
    <2>2. \A s \in DOMAIN F : Ahead(F, done, running, queue, Len(queue) + 1, s)
      BY DEF LaneInv, FlightInv, F
    <2>3. \A s \in DOMAIN F : s \in Scopes
      BY JobTypes DEF F
    <2> QED
      BY <1>8, <2>1, <2>2, <2>3
  <1>13. FlightInv'
    <2>1. \A s \in DOMAIN F :
            /\ F[s].scope = s /\ F[s].settings = wanted_of(cfg, s) /\ F[s].manage = cfg.manage
            /\ Ahead(F, done, running, queue', Len(queue') + 1, s)
      <3> SUFFICES ASSUME NEW s \in DOMAIN F
                   PROVE  /\ F[s].scope = s /\ F[s].settings = wanted_of(cfg, s) /\ F[s].manage = cfg.manage
                          /\ Ahead(F, done, running, queue', Len(queue') + 1, s)
        OBVIOUS
      <3>1. F[s].scope = s /\ F[s].settings = wanted_of(cfg, s) /\ F[s].manage = cfg.manage
        BY DEF LaneInv, FlightInv, F
      <3>2. Len(queue) + 1 \in Nat \ {0} /\ Len(queue') + 1 \in Nat /\ Len(queue) + 1 <= Len(queue') + 1
        BY <1>2, <1>3, SMTT(60)
      <3>3. Ahead(F, done, running, queue', Len(queue') + 1, s)
        BY <1>12, <3>2, AheadMore
      <3> QED
        BY <3>1, <3>3
    <2>2. \A i \in DOMAIN queue', s \in Scopes :
            Cur(F, queue'[i], s) => queue'[i].settings = F[s].settings /\ queue'[i].manage = F[s].manage
      <3>1. \A s : ~Cur(F, job, s)
        BY <1>4 DEF Cur
      <3>2. \A i \in DOMAIN queue, s \in Scopes :
              Cur(F, queue[i], s) => queue[i].settings = F[s].settings /\ queue[i].manage = F[s].manage
        BY DEF LaneInv, FlightInv, F
      <3> SUFFICES ASSUME NEW i \in DOMAIN queue', NEW s \in Scopes, Cur(F, queue'[i], s)
                   PROVE  queue'[i].settings = F[s].settings /\ queue'[i].manage = F[s].manage
        OBVIOUS
      <3>3. i \in DOMAIN queue /\ queue'[i] = queue[i]
        BY <1>9, <3>1
      <3> QED
        BY <3>2, <3>3
    <2>3. F = sysctls_flight /\ F = sysctls_flight'
      BY <1>1 DEF F
    <2>4. /\ \A s \in Scopes :
               Cur(F, running, s) =>
                 \A k \in F[s].settings \ running.settings : InPlace(value, touched, k)
          /\ \A i \in DOMAIN done, s \in Scopes :
               Cur(F, done[i], s) /\ done[i].ok /\ F[s].manage =>
                 \A k \in F[s].settings : InPlace(value, touched, k)
      BY DEF LaneInv, FlightInv, F
    <2> QED
      BY <1>1, <2>1, <2>2, <2>3, <2>4 DEF FlightInv
  <1>14. AppliedInv'
    <2>1. A = sysctls_applied /\ F = sysctls_flight
      BY DEF A, F
    <2> QED
      BY <1>1, <2>1 DEF LaneInv, AppliedInv
  <1>15. ReloadInv'
    BY <1>1, <1>5, <1>6 DEF ReloadInv
  <1>16. \A s \in Scopes : Extra(A, cfg, s) => s \in DOMAIN F
    BY <1>1 DEF LaneInv, OrderInv, A, F
  <1>17. \A i \in DOMAIN queue', s \in Scopes :
           Uses(A, s, GivenBy(queue'[i])) => Ahead(F, done, running, queue', i, s)
    <2>1. \A i \in DOMAIN queue, s \in Scopes :
            Uses(A, s, GivenBy(queue[i])) => Ahead(F, done, running, queue, i, s)
      BY DEF LaneInv, OrderInv, A, F
    <2> QED
      BY <1>4, <1>8, <1>9, <1>10, <2>1
  <1>18. \A s \in Scopes : Contested(A, running, queue, s) => Ahead(F, done, running, queue', Len(queue) + 1, s)
    <2> SUFFICES ASSUME NEW s \in Scopes, Contested(A, running, queue, s)
                 PROVE  Ahead(F, done, running, queue', Len(queue) + 1, s)
      OBVIOUS
    <2>1. CASE Uses(A, s, Todo(running))
      <3>1. Answered(F, done, s)
        BY <2>1 DEF LaneInv, OrderInv, A, F
      <3> QED
        BY <3>1 DEF Ahead
    <2>2. ASSUME NEW i \in DOMAIN queue, Uses(A, s, GivenBy(queue[i]))
          PROVE  Ahead(F, done, running, queue', Len(queue) + 1, s)
      <3>1. Ahead(F, done, running, queue, i, s)
        BY <2>2 DEF LaneInv, OrderInv, A, F
      <3>2. i \in 1..(Len(queue) + 1) /\ i \in Nat \ {0} /\ Len(queue) + 1 \in Nat /\ i <= Len(queue) + 1
        BY <1>2, SMTT(60)
      <3>3. Ahead(F, done, running, queue', i, s)
        BY <1>8, <3>1, <3>2
      <3> QED
        BY <3>2, <3>3, AheadMore
    <2> QED
      BY <2>1, <2>2 DEF Contested
  <1>19. \A i \in Binds(queue'), s \in Scopes :
           Extra(A, cfg, s) \/ Contested(A, running, queue', s) => Ahead(F, done, running, queue', i, s)
    <2>1. \A s \in Scopes :
            Extra(A, cfg, s) \/ Contested(A, running, queue', s) =>
              Ahead(F, done, running, queue', Len(queue) + 1, s)
      BY <1>11, <1>12, <1>16, <1>18
    <2>2. \A i \in Binds(queue') : i = Len(queue) + 1
      BY <1>6
    <2> QED
      BY <2>1, <2>2
  <1>20. \A i \in DOMAIN queue', s \in Scopes :
           Ahead(F, done, running, queue', i, s) => GivenBy(queue'[i]) \cap cfg.families = {}
    <2>1. \A i \in DOMAIN queue, s \in Scopes :
            Ahead(F, done, running, queue, i, s) => GivenBy(queue[i]) \cap cfg.families = {}
      BY DEF LaneInv, OrderInv, F
    <2>2. {} \cap cfg.families = {}
      OBVIOUS
    <2> QED
      BY <1>4, <1>8, <1>9, <2>1, <2>2
  <1>21. A = sysctls_applied /\ A = sysctls_applied' /\ F = sysctls_flight /\ F = sysctls_flight'
    BY <1>1 DEF A, F
  <1>22. /\ \A s \in Scopes : Uses(A, s, Todo(running)) => Answered(F, done, s)
         /\ \A s \in Scopes : Answered(F, done, s) => Todo(running) \cap cfg.families = {}
    BY DEF LaneInv, OrderInv, A, F
  <1>23. /\ \A i \in Binds(done), s \in Scopes :
              Extra(A, cfg, s) \/ Contested(A, running, queue', s) => Line(F, done, i - 1, s)
         /\ \A s \in Scopes : pass' # "due" /\ Extra(A, cfg, s) => s \in DOMAIN F
    BY <1>5, <1>16
  <1>24. OrderInv'
    BY <1>1, <1>17, <1>19, <1>20, <1>21, <1>22, <1>23 DEF OrderInv
  <1>25. UseInv'
    <2>1. \A i \in DOMAIN queue' :
            GivenBy(queue'[i]) = {} \/ (i \in DOMAIN queue /\ GivenBy(queue'[i]) = GivenBy(queue[i]))
      BY <1>4, <1>9
    <2>2. \A j \in DOMAIN queue', i \in Binds(queue') : i < j => j \notin DOMAIN queue /\ GivenBy(queue'[j]) = {}
      BY <1>2, <1>6, <1>3, <2>1, SMTT(60)
    <2>3. cfg.manage => Todo(running) \cap artifacts = {}
      BY DEF LaneInv, UseInv
    <2>4. cfg.manage => \A i \in DOMAIN queue' : GivenBy(queue'[i]) \cap artifacts = {}
      BY <2>1 DEF LaneInv, UseInv
    <2>5. \A j \in DOMAIN queue' :
            Binds(done) # {} \/ (\E i \in Binds(queue') : i < j) =>
              GivenBy(queue'[j]) \cap (cfg.families \cup artifacts) = {}
      BY <1>5, <2>2
    <2>6. Binds(done) # {} => Todo(running) \cap (cfg.families \cup artifacts) = {}
      BY <1>5
    <2> QED
      BY <1>1, <2>3, <2>4, <2>5, <2>6 DEF UseInv
  <1>26. GlobalInv'
    BY <1>1 DEF LaneInv, GlobalInv
  <1> QED
    BY <1>13, <1>14, <1>15, <1>24, <1>25, <1>26 DEF LaneInv

\* FlightInv and OrderInv of any state: flights f, applied settings a, reports d,
\* running job r, queue q, configuration c, values v, touched keys t.
FlightOK(f, d, r, q, c, v, t) ==
  /\ \A s \in DOMAIN f :
       /\ f[s].scope = s /\ f[s].settings = wanted_of(c, s) /\ f[s].manage = c.manage
       /\ Ahead(f, d, r, q, Len(q) + 1, s)
  /\ \A i \in DOMAIN q, s \in Scopes :
       Cur(f, q[i], s) => q[i].settings = f[s].settings /\ q[i].manage = f[s].manage
  /\ \A s \in Scopes :
       Cur(f, r, s) => \A k \in f[s].settings \ r.settings : InPlace(v, t, k)
  /\ \A i \in DOMAIN d, s \in Scopes :
       Cur(f, d[i], s) /\ d[i].ok /\ f[s].manage => \A k \in f[s].settings : InPlace(v, t, k)

OrderOK(f, a, d, r, q, c, due) ==
  /\ \A i \in DOMAIN q, s \in Scopes : Uses(a, s, GivenBy(q[i])) => Ahead(f, d, r, q, i, s)
  /\ \A s \in Scopes : Uses(a, s, Todo(r)) => Answered(f, d, s)
  /\ \A i \in Binds(q), s \in Scopes :
       Extra(a, c, s) \/ Contested(a, r, q, s) => Ahead(f, d, r, q, i, s)
  /\ \A i \in Binds(d), s \in Scopes :
       Extra(a, c, s) \/ Contested(a, r, q, s) => Line(f, d, i - 1, s)
  /\ \A s \in Scopes : ~due /\ Extra(a, c, s) => s \in DOMAIN f
  /\ \A i \in DOMAIN q, s \in Scopes :
       Ahead(f, d, r, q, i, s) => GivenBy(q[i]) \cap c.families = {}
  /\ \A s \in Scopes : Answered(f, d, s) => Todo(r) \cap c.families = {}

\* FlightInv, of this state and the next.
LEMMA FlightIs ==
    /\ FlightInv <=> FlightOK(sysctls_flight, done, running, queue, cfg, value, touched)
    /\ FlightInv' <=> FlightOK(sysctls_flight', done', running', queue', cfg', value', touched')
  <1>1. FlightInv <=> FlightOK(sysctls_flight, done, running, queue, cfg, value, touched)
    BY DEF FlightInv, FlightOK
  <1>2. FlightInv' <=> FlightOK(sysctls_flight', done', running', queue', cfg', value', touched')
    BY DEF FlightInv, FlightOK
  <1> QED
    BY <1>1, <1>2

\* OrderInv, of this state and the next.
LEMMA OrderIs ==
    /\ OrderInv <=> OrderOK(sysctls_flight, sysctls_applied, done, running, queue, cfg, pass = "due")
    /\ OrderInv' <=> OrderOK(sysctls_flight', sysctls_applied', done', running', queue', cfg', pass' = "due")
  <1>1. OrderInv <=> OrderOK(sysctls_flight, sysctls_applied, done, running, queue, cfg, pass = "due")
    BY DEF OrderInv, OrderOK
  <1>2. OrderInv' <=> OrderOK(sysctls_flight', sysctls_applied', done', running', queue', cfg', pass' = "due")
    BY DEF OrderInv, OrderOK
  <1> QED
    BY <1>1, <1>2

-----------------------------------------------------------------------------
(* A scope that nothing is awaited for any more. *)

\* Without the flight of x, nothing is awaited for x and the rest stays.
LEMMA CurWithout ==
    ASSUME NEW f, NEW x
    PROVE  /\ DOMAIN Without(f, x) = DOMAIN f \ {x}
           /\ \A s \in DOMAIN Without(f, x) : Without(f, x)[s] = f[s]
           /\ \A j, s : Cur(Without(f, x), j, s) <=> s # x /\ Cur(f, j, s)
           /\ \A q, n, s : Line(Without(f, x), q, n, s) <=> s # x /\ Line(f, q, n, s)
           /\ \A d, s : Answered(Without(f, x), d, s) <=> s # x /\ Answered(f, d, s)
           /\ \A d, r, q, i, s : Ahead(Without(f, x), d, r, q, i, s) <=> s # x /\ Ahead(f, d, r, q, i, s)
  <1> DEFINE g == Without(f, x)
  <1>1. DOMAIN g = DOMAIN f \ {x} /\ \A s \in DOMAIN g : g[s] = f[s]
    BY DEF Without
  <1> HIDE DEF g
  <1>2. \A j, s : Cur(g, j, s) <=> s # x /\ Cur(f, j, s)
    BY <1>1 DEF Cur
  <1>3. \A q, n, s : Line(g, q, n, s) <=> s # x /\ Line(f, q, n, s)
    BY <1>2 DEF Line
  <1>4. \A d, s : Answered(g, d, s) <=> s # x /\ Answered(f, d, s)
    BY <1>3 DEF Answered
  <1>5. \A d, r, q, i, s : Ahead(g, d, r, q, i, s) <=> s # x /\ Ahead(f, d, r, q, i, s)
    BY <1>2, <1>3, <1>4 DEF Ahead
  <1> QED
    BY <1>1, <1>2, <1>3, <1>4, <1>5 DEF g

\* Without the settings of x, x uses nothing and the rest stays.
LEMMA UsesWithout ==
    ASSUME NEW a, NEW x
    PROVE  /\ \A s, H : Uses(Without(a, x), s, H) <=> s # x /\ Uses(a, s, H)
           /\ \A s, c : Extra(Without(a, x), c, s) <=> s # x /\ Extra(a, c, s)
           /\ \A s, r, q : Contested(Without(a, x), r, q, s) <=> s # x /\ Contested(a, r, q, s)
  <1> DEFINE b == Without(a, x)
  <1>1. DOMAIN b = DOMAIN a \ {x} /\ \A s \in DOMAIN b : b[s] = a[s]
    BY DEF Without
  <1> HIDE DEF b
  <1>2. \A s, H : Uses(b, s, H) <=> s # x /\ Uses(a, s, H)
    BY <1>1 DEF Uses
  <1>3. \A s, c : Extra(b, c, s) <=> s # x /\ Extra(a, c, s)
    BY <1>1 DEF Extra
  <1>4. \A s, r, q : Contested(b, r, q, s) <=> s # x /\ Contested(a, r, q, s)
    BY <1>2 DEF Contested
  <1> QED
    BY <1>2, <1>3, <1>4 DEF b

\* FlightInv stays where a flight is dropped.
LEMMA FlightWithout ==
    ASSUME NEW f, NEW d, NEW r, NEW q, NEW c, NEW v, NEW t, NEW x, FlightOK(f, d, r, q, c, v, t)
    PROVE  FlightOK(Without(f, x), d, r, q, c, v, t)
  <1> DEFINE g == Without(f, x)
  <1>1. /\ DOMAIN g = DOMAIN f \ {x}
        /\ \A s \in DOMAIN g : g[s] = f[s]
        /\ \A j, s : Cur(g, j, s) <=> s # x /\ Cur(f, j, s)
        /\ \A i, s : Ahead(g, d, r, q, i, s) <=> s # x /\ Ahead(f, d, r, q, i, s)
    BY CurWithout
  <1>2. \A j, s : Cur(g, j, s) => s \in DOMAIN g
    BY DEF Cur
  <1> HIDE DEF g
  <1>3. \A s \in DOMAIN g :
          /\ g[s].scope = s /\ g[s].settings = wanted_of(c, s) /\ g[s].manage = c.manage
          /\ Ahead(g, d, r, q, Len(q) + 1, s)
    <2> SUFFICES ASSUME NEW s \in DOMAIN g
                 PROVE  /\ g[s].scope = s /\ g[s].settings = wanted_of(c, s) /\ g[s].manage = c.manage
                        /\ Ahead(g, d, r, q, Len(q) + 1, s)
      OBVIOUS
    <2>1. s \in DOMAIN f /\ s # x /\ g[s] = f[s]
      BY <1>1
    <2>2. /\ f[s].scope = s /\ f[s].settings = wanted_of(c, s) /\ f[s].manage = c.manage
          /\ Ahead(f, d, r, q, Len(q) + 1, s)
      BY <2>1 DEF FlightOK
    <2>3. Ahead(g, d, r, q, Len(q) + 1, s)
      BY <1>1, <2>1, <2>2
    <2> QED
      BY <2>1, <2>2, <2>3
  <1>4. \A i \in DOMAIN q, s \in Scopes :
          Cur(g, q[i], s) => q[i].settings = g[s].settings /\ q[i].manage = g[s].manage
    <2> SUFFICES ASSUME NEW i \in DOMAIN q, NEW s \in Scopes, Cur(g, q[i], s)
                 PROVE  q[i].settings = g[s].settings /\ q[i].manage = g[s].manage
      OBVIOUS
    <2>1. Cur(f, q[i], s) /\ g[s] = f[s]
      BY <1>1, <1>2
    <2>2. q[i].settings = f[s].settings /\ q[i].manage = f[s].manage
      BY <2>1 DEF FlightOK
    <2> QED
      BY <2>1, <2>2
  <1>5. \A s \in Scopes :
          Cur(g, r, s) => \A k \in g[s].settings \ r.settings : InPlace(v, t, k)
    <2> SUFFICES ASSUME NEW s \in Scopes, Cur(g, r, s), NEW k \in g[s].settings \ r.settings
                 PROVE  InPlace(v, t, k)
      OBVIOUS
    <2>1. Cur(f, r, s) /\ g[s] = f[s]
      BY <1>1, <1>2
    <2>2. k \in f[s].settings \ r.settings
      BY <2>1
    <2> QED
      BY <2>1, <2>2 DEF FlightOK
  <1>6. \A i \in DOMAIN d, s \in Scopes :
          Cur(g, d[i], s) /\ d[i].ok /\ g[s].manage => \A k \in g[s].settings : InPlace(v, t, k)
    <2> SUFFICES ASSUME NEW i \in DOMAIN d, NEW s \in Scopes, Cur(g, d[i], s), d[i].ok, g[s].manage,
                        NEW k \in g[s].settings
                 PROVE  InPlace(v, t, k)
      OBVIOUS
    <2>1. Cur(f, d[i], s) /\ g[s] = f[s]
      BY <1>1, <1>2
    <2>2. k \in f[s].settings /\ f[s].manage
      BY <2>1
    <2> QED
      BY <2>1, <2>2 DEF FlightOK
  <1>7. FlightOK(g, d, r, q, c, v, t)
    BY <1>3, <1>4, <1>5, <1>6 DEF FlightOK
  <1> QED
    BY <1>7 DEF g

\* The settings of x are dropped, or become ones that nothing threatens.
LEMMA OrderWithout ==
    ASSUME NEW f, NEW a, NEW b, NEW d, NEW r, NEW q, NEW c, NEW p, NEW p2, p2, NEW x,
           OrderOK(f, a, d, r, q, c, p),
           \A s, H : s # x => (Uses(b, s, H) => Uses(a, s, H)),
           \A s : s # x => (Extra(b, c, s) => Extra(a, c, s)),
           ~Extra(b, c, x), ~Contested(b, r, q, x)
    PROVE  OrderOK(Without(f, x), b, d, r, q, c, p2)
  <1> DEFINE g == Without(f, x)
  <1>1. /\ \A n, s : Line(g, d, n, s) <=> s # x /\ Line(f, d, n, s)
        /\ \A s : Answered(g, d, s) <=> s # x /\ Answered(f, d, s)
        /\ \A i, s : Ahead(g, d, r, q, i, s) <=> s # x /\ Ahead(f, d, r, q, i, s)
    BY CurWithout
  <1> HIDE DEF g
  <1>2. \A s : s # x => (Contested(b, r, q, s) => Contested(a, r, q, s))
    BY DEF Contested
  <1>3. ~Uses(b, x, Todo(r)) /\ \A i \in DOMAIN q : ~Uses(b, x, GivenBy(q[i]))
    BY DEF Contested
  <1>4. \A i \in DOMAIN q, s \in Scopes : Uses(b, s, GivenBy(q[i])) => Ahead(g, d, r, q, i, s)
    <2>1. \A i \in DOMAIN q, s \in Scopes : Uses(a, s, GivenBy(q[i])) => Ahead(f, d, r, q, i, s)
      BY DEF OrderOK
    <2> QED
      BY <1>1, <1>3, <2>1
  <1>5. \A s \in Scopes : Uses(b, s, Todo(r)) => Answered(g, d, s)
    <2>1. \A s \in Scopes : Uses(a, s, Todo(r)) => Answered(f, d, s)
      BY DEF OrderOK
    <2> QED
      BY <1>1, <1>3, <2>1
  <1>6. \A i \in Binds(q), s \in Scopes :
          Extra(b, c, s) \/ Contested(b, r, q, s) => Ahead(g, d, r, q, i, s)
    <2>1. \A i \in Binds(q), s \in Scopes :
            Extra(a, c, s) \/ Contested(a, r, q, s) => Ahead(f, d, r, q, i, s)
      BY DEF OrderOK
    <2> QED
      BY <1>1, <1>2, <2>1
  <1>7. \A i \in Binds(d), s \in Scopes :
          Extra(b, c, s) \/ Contested(b, r, q, s) => Line(g, d, i - 1, s)
    <2>1. \A i \in Binds(d), s \in Scopes :
            Extra(a, c, s) \/ Contested(a, r, q, s) => Line(f, d, i - 1, s)
      BY DEF OrderOK
    <2> QED
      BY <1>1, <1>2, <2>1
  <1>8. \A i \in DOMAIN q, s \in Scopes :
          Ahead(g, d, r, q, i, s) => GivenBy(q[i]) \cap c.families = {}
    BY <1>1 DEF OrderOK
  <1>9. \A s \in Scopes : Answered(g, d, s) => Todo(r) \cap c.families = {}
    BY <1>1 DEF OrderOK
  <1>10. OrderOK(g, b, d, r, q, c, p2)
    BY <1>4, <1>5, <1>6, <1>7, <1>8, <1>9 DEF OrderOK
  <1> QED
    BY <1>10 DEF g

-----------------------------------------------------------------------------
(* The first report is taken, and nothing waited for it. *)

\* Places in the reports without the first one, where s did not wait for that.
LEMMA PopLine ==
    ASSUME NEW S, NEW d \in Seq(S), d # << >>, NEW f, NEW s, ~Cur(f, d[1], s)
    PROVE  /\ \A n \in 0..Len(Tail(d)) : Line(f, Tail(d), n, s) <=> Line(f, d, n + 1, s)
           /\ Answered(f, Tail(d), s) <=> Answered(f, d, s)
  <1>1. \A n \in 0..Len(Tail(d)) : Line(f, Tail(d), n, s) <=> Line(f, d, n + 1, s)
    BY LineTail
  <1>2. Len(Tail(d)) \in 0..Len(Tail(d)) /\ Len(Tail(d)) + 1 = Len(d)
    BY Popped, Places, SMTT(60)
  <1>3. Line(f, Tail(d), Len(Tail(d)), s) <=> Line(f, d, Len(d), s)
    BY <1>1, <1>2
  <1> QED
    BY <1>1, <1>3 DEF Answered

\* FlightInv stays where a report goes that nothing waited for.
LEMMA FlightPop ==
    ASSUME NEW S, NEW d \in Seq(S), d # << >>,
           NEW f, NEW r, NEW q, NEW c, NEW v, NEW t, FlightOK(f, d, r, q, c, v, t),
           DOMAIN f \subseteq Scopes, \A s \in Scopes : ~Cur(f, d[1], s)
    PROVE  FlightOK(f, Tail(d), r, q, c, v, t)
  <1>1. \A s \in Scopes : Answered(f, Tail(d), s) <=> Answered(f, d, s)
    BY PopLine
  <1>2. \A i \in DOMAIN Tail(d) : i + 1 \in DOMAIN d /\ Tail(d)[i] = d[i + 1]
    BY Popped, Places, SMTT(60)
  <1>3. \A s \in Scopes : \A i : Ahead(f, Tail(d), r, q, i, s) <=> Ahead(f, d, r, q, i, s)
    BY <1>1 DEF Ahead
  <1>4. \A s \in DOMAIN f :
          /\ f[s].scope = s /\ f[s].settings = wanted_of(c, s) /\ f[s].manage = c.manage
          /\ Ahead(f, Tail(d), r, q, Len(q) + 1, s)
    BY <1>3 DEF FlightOK
  <1>5. \A i \in DOMAIN Tail(d), s \in Scopes :
          Cur(f, Tail(d)[i], s) /\ Tail(d)[i].ok /\ f[s].manage =>
            \A k \in f[s].settings : InPlace(v, t, k)
    <2> SUFFICES ASSUME NEW i \in DOMAIN Tail(d), NEW s \in Scopes,
                        Cur(f, Tail(d)[i], s), Tail(d)[i].ok, f[s].manage, NEW k \in f[s].settings
                 PROVE  InPlace(v, t, k)
      OBVIOUS
    <2>1. i + 1 \in DOMAIN d /\ Cur(f, d[i + 1], s) /\ d[i + 1].ok
      BY <1>2
    <2> QED
      BY <2>1 DEF FlightOK
  <1> QED
    BY <1>4, <1>5 DEF FlightOK

\* The Bind reports that stay keep their order.
LEMMA BindsTail ==
    ASSUME NEW S, NEW d \in Seq(S), d # << >>
    PROVE  \A i : i \in Binds(Tail(d)) => i \in Nat /\ i - 1 \in 0..Len(Tail(d)) /\ i + 1 \in Binds(d)
  <1>1. /\ DOMAIN Tail(d) = 1..Len(Tail(d)) /\ Len(Tail(d)) \in Nat /\ Len(Tail(d)) = Len(d) - 1
        /\ DOMAIN d = 1..Len(d) /\ \A i \in DOMAIN Tail(d) : Tail(d)[i] = d[i + 1]
    BY Popped, Places
  <1> QED
    BY <1>1, SMTT(60) DEF Binds

\* OrderInv stays where a report goes that nothing waited for.
LEMMA OrderPop ==
    ASSUME NEW S, NEW d \in Seq(S), d # << >>,
           NEW f, NEW a, NEW r, NEW q, NEW c, NEW p, NEW p2, OrderOK(f, a, d, r, q, c, p), p => p2,
           \A s \in Scopes : ~Cur(f, d[1], s)
    PROVE  OrderOK(f, a, Tail(d), r, q, c, p2)
  <1>1. \A s \in Scopes :
          /\ \A n \in 0..Len(Tail(d)) : Line(f, Tail(d), n, s) <=> Line(f, d, n + 1, s)
          /\ Answered(f, Tail(d), s) <=> Answered(f, d, s)
    BY PopLine
  <1>2. \A s \in Scopes : \A i : Ahead(f, Tail(d), r, q, i, s) <=> Ahead(f, d, r, q, i, s)
    BY <1>1 DEF Ahead
  <1>3. \A i \in DOMAIN q, s \in Scopes : Uses(a, s, GivenBy(q[i])) => Ahead(f, Tail(d), r, q, i, s)
    BY <1>2 DEF OrderOK
  <1>4. \A s \in Scopes : Uses(a, s, Todo(r)) => Answered(f, Tail(d), s)
    BY <1>1 DEF OrderOK
  <1>5. \A i \in Binds(q), s \in Scopes :
          Extra(a, c, s) \/ Contested(a, r, q, s) => Ahead(f, Tail(d), r, q, i, s)
    BY <1>2 DEF OrderOK
  <1>6. \A i \in Binds(Tail(d)), s \in Scopes :
          Extra(a, c, s) \/ Contested(a, r, q, s) => Line(f, Tail(d), i - 1, s)
    <2> SUFFICES ASSUME NEW i \in Binds(Tail(d)), NEW s \in Scopes,
                        Extra(a, c, s) \/ Contested(a, r, q, s)
                 PROVE  Line(f, Tail(d), i - 1, s)
      OBVIOUS
    <2>1. i \in Nat /\ i - 1 \in 0..Len(Tail(d)) /\ i + 1 \in Binds(d)
      BY BindsTail
    <2>2. (i + 1) - 1 = i /\ (i - 1) + 1 = i
      BY <2>1, SMTT(60)
    <2>3. Line(f, d, (i + 1) - 1, s)
      BY <2>1 DEF OrderOK
    <2>4. Line(f, Tail(d), i - 1, s) <=> Line(f, d, (i - 1) + 1, s)
      BY <1>1, <2>1
    <2> QED
      BY <2>2, <2>3, <2>4
  <1>7. \A s \in Scopes : ~p2 /\ Extra(a, c, s) => s \in DOMAIN f
    BY DEF OrderOK
  <1>8. \A i \in DOMAIN q, s \in Scopes :
          Ahead(f, Tail(d), r, q, i, s) => GivenBy(q[i]) \cap c.families = {}
    BY <1>2 DEF OrderOK
  <1>9. \A s \in Scopes : Answered(f, Tail(d), s) => Todo(r) \cap c.families = {}
    BY <1>1 DEF OrderOK
  <1> QED
    BY <1>3, <1>4, <1>5, <1>6, <1>7, <1>8, <1>9 DEF OrderOK

\* A link notification keeps LaneInv: the interface's settings are pending
\* again.
LEMMA NotificationLane ==
    ASSUME StateInv, LaneInv, NEW x \in Interfaces, notification(x)
    PROVE  LaneInv'
  <1> DEFINE F == sysctls_flight
             A == sysctls_applied
  <1>1. /\ UNCHANGED <<value, touched, queue, running, done, mode, artifacts, cfg, reload, retry>>
        /\ mode = "run" /\ pass' = "due"
    BY DEF notification, Event, laneVars, historyVars
  <1>2. ReloadInv' /\ UseInv' /\ GlobalInv'
    BY <1>1 DEF LaneInv, ReloadInv, UseInv, GlobalInv
  <1>3. /\ FlightOK(F, done, running, queue, cfg, value, touched)
        /\ OrderOK(F, A, done, running, queue, cfg, pass = "due")
    BY FlightIs, OrderIs DEF LaneInv
  <1>4. CASE x \in cfg.interfaces
    <2>1. /\ sysctls_flight' = Without(F, x) /\ sysctls_applied' = Without(A, x)
          /\ sysctls_pending' = sysctls_pending \cup {x} /\ backoff' = backoff \ {x}
      BY <1>4 DEF notification
    <2>2. DOMAIN Without(F, x) = DOMAIN F \ {x}
      BY CurWithout
    <2>3. DOMAIN Without(A, x) = DOMAIN A \ {x} /\ \A s \in DOMAIN Without(A, x) : Without(A, x)[s] = A[s]
      BY CurWithout
    <2>4. FlightInv'
      <3>1. FlightOK(Without(F, x), done, running, queue, cfg, value, touched)
        BY <1>3, FlightWithout
      <3>2. FlightOK(sysctls_flight', done', running', queue', cfg', value', touched')
        BY <1>1, <2>1, <3>1
      <3> QED
        BY <3>2, FlightIs
    <2>5. OrderInv'
      <3>1. /\ \A s, H : s # x => (Uses(Without(A, x), s, H) => Uses(A, s, H))
            /\ \A s : s # x => (Extra(Without(A, x), cfg, s) => Extra(A, cfg, s))
            /\ ~Extra(Without(A, x), cfg, x) /\ ~Contested(Without(A, x), running, queue, x)
        BY UsesWithout
      <3>2. OrderOK(Without(F, x), Without(A, x), done, running, queue, cfg, pass' = "due")
        BY <1>1, <1>3, <3>1, OrderWithout
      <3>3. /\ Without(F, x) = sysctls_flight' /\ Without(A, x) = sysctls_applied' /\ done = done'
            /\ running = running' /\ queue = queue' /\ cfg = cfg'
        BY <1>1, <2>1
      <3>4. OrderOK(sysctls_flight', sysctls_applied', done', running', queue', cfg', pass' = "due")
        BY <3>2, <3>3
      <3> QED
        BY <3>4, OrderIs
    <2>6. AppliedInv'
      <3>1. x \in sysctl_scopes(cfg)
        <4>1. cfg.families # {} /\ cfg.families \subseteq Families
          BY Constants DEF StateInv, TypeInv, TypeOK
        <4>2. PICK f \in cfg.families : f \in Families
          BY <4>1
        <4> DEFINE k == [family |-> f, scope |-> x]
        <4>3. k \in desired(cfg) /\ k.scope = x
          BY <1>4, <4>2 DEF desired, Keys
        <4> QED
          BY <4>3 DEF sysctl_scopes
      <3>2. x # Global
        BY Constants
      <3>3. /\ sysctls_pending' \subseteq sysctl_scopes(cfg)
            /\ DOMAIN Without(A, x) \subseteq sysctl_scopes(cfg)
        BY <1>1, <2>1, <2>3, <3>1 DEF LaneInv, AppliedInv
      <3>4. \A s \in sysctl_scopes(cfg) \ sysctls_pending' :
              /\ s \in DOMAIN Without(A, x)
              /\ Without(A, x)[s].settings = wanted_of(cfg, s)
              /\ Without(A, x)[s].manage = cfg.manage
        <4> SUFFICES ASSUME NEW s \in sysctl_scopes(cfg) \ sysctls_pending'
                     PROVE  /\ s \in DOMAIN Without(A, x)
                            /\ Without(A, x)[s].settings = wanted_of(cfg, s)
                            /\ Without(A, x)[s].manage = cfg.manage
          OBVIOUS
        <4>1. s # x /\ s \in sysctl_scopes(cfg) \ sysctls_pending
          BY <2>1
        <4>2. s \in DOMAIN A /\ A[s].settings = wanted_of(cfg, s) /\ A[s].manage = cfg.manage
          BY <1>1, <4>1 DEF LaneInv, AppliedInv
        <4>3. s \in DOMAIN Without(A, x)
          BY <2>3, <4>1, <4>2
        <4> QED
          BY <2>3, <4>2, <4>3
      <3>5. backoff' \cap DOMAIN Without(A, x) = {}
        BY <2>1, <2>3 DEF LaneInv, AppliedInv
      <3>6. retry' = "sysctls" => Global \notin DOMAIN Without(A, x) \cup DOMAIN Without(F, x)
        BY <1>1, <2>2, <2>3 DEF LaneInv, AppliedInv
      <3>7. \A s \in DOMAIN Without(A, x) :
              Without(A, x)[s].manage =>
                \A k \in Without(A, x)[s].settings :
                  k.family \in cfg.families => InPlace(value, touched, k)
        <4> SUFFICES ASSUME NEW s \in DOMAIN Without(A, x), Without(A, x)[s].manage,
                            NEW k \in Without(A, x)[s].settings, k.family \in cfg.families
                     PROVE  InPlace(value, touched, k)
          OBVIOUS
        <4>1. s \in DOMAIN A /\ A[s].manage /\ k \in A[s].settings
          BY <2>3
        <4> QED
          BY <4>1 DEF LaneInv, AppliedInv
      <3>8. /\ Without(A, x) = sysctls_applied' /\ Without(F, x) = sysctls_flight' /\ cfg = cfg'
            /\ value = value' /\ touched = touched'
        BY <1>1, <2>1
      <3> QED
        BY <3>3, <3>4, <3>5, <3>6, <3>7, <3>8 DEF AppliedInv
    <2> QED
      BY <1>2, <2>4, <2>5, <2>6 DEF LaneInv
  <1>5. CASE x \notin cfg.interfaces
    <2>1. UNCHANGED <<sysctls_pending, sysctls_flight, sysctls_applied, backoff>>
      BY <1>5 DEF notification
    <2>2. \A k \in Keys : InPlace(value, touched, k) => InPlace(value', touched', k)
      BY <1>1 DEF InPlace
    <2>3. FlightInv' /\ AppliedInv'
      BY <1>1, <2>1, <2>2, FlightKept, AppliedKept DEF LaneInv
    <2>4. OrderInv'
      <3>1. Todo(running') \subseteq Todo(running) /\ pass' \in {pass, "due"}
        BY <1>1
      <3> QED
        BY <1>1, <2>1, <3>1, RunsOn DEF LaneInv
    <2> QED
      BY <1>2, <2>3, <2>4 DEF LaneInv
  <1> QED
    BY <1>4, <1>5

-----------------------------------------------------------------------------
(* The State task takes a report. *)

\* What every completion does.
LEMMA Taking ==
    ASSUME StateInv, completion
    PROVE  /\ done \in Seq(Reports) /\ done # << >> /\ done[1] \in Reports /\ 1 \in DOMAIN done
           /\ done' = Tail(done) /\ mode = "run" /\ pass # "due"
           /\ UNCHANGED <<value, touched, queue, running, mode, artifacts>>
           /\ \/ done[1].kind = "sysctls" /\ sysctls_done(done[1])
              \/ done[1].kind = "handback" /\ handed_back(done[1])
              \/ done[1].kind = "bind" /\ reload_bound(done[1])
  <1>1. done \in Seq(Reports) /\ done # << >> /\ done' = Tail(done)
        /\ UNCHANGED <<value, touched, queue, running, mode, artifacts>>
    BY DEF completion, StateInv, TypeInv, historyVars
  <1>2. Head(done) = done[1] /\ done[1] \in Reports /\ 1 \in DOMAIN done
    BY <1>1, Popped
  <1>3. \/ done[1].kind = "sysctls" /\ sysctls_done(done[1])
        \/ done[1].kind = "handback" /\ handed_back(done[1])
        \/ done[1].kind = "bind" /\ reload_bound(done[1])
    BY <1>2 DEF completion
  <1>4. mode = "run" /\ pass # "due"
    BY <1>3 DEF sysctls_done, handed_back, reload_bound, Event
  <1> QED
    BY <1>1, <1>2, <1>3, <1>4

\* A report that is not a Bind job's changes nothing about reloads.
LEMMA OtherReport ==
    ASSUME StateInv, ReloadInv, UseInv, GlobalInv,
           done # << >>, done' = Tail(done), done[1].kind # "bind",
           UNCHANGED <<value, queue, running, artifacts, cfg, reload>>
    PROVE  ReloadInv' /\ UseInv' /\ GlobalInv'
  <1>1. done \in Seq(Reports)
    BY DEF StateInv, TypeInv
  <1>2. \A i : i \in Binds(done') => i \in Nat /\ i + 1 \in Binds(done)
    BY <1>1, BindsTail
  <1>3. Binds(done') # {} => Binds(done) # {}
    BY <1>2
  <1>4. Binds(done) = {} => Binds(done') = {}
    BY <1>2
  <1>5. \A i, j \in Binds(done') : i = j
    <2> SUFFICES ASSUME NEW i \in Binds(done'), NEW j \in Binds(done')
                 PROVE  i = j
      OBVIOUS
    <2>1. i \in Nat /\ j \in Nat /\ i + 1 = j + 1
      BY <1>2 DEF ReloadInv
    <2> QED
      BY <2>1, SMTT(60)
  <1>6. ReloadInv'
    BY <1>4, <1>5 DEF ReloadInv
  <1>7. UseInv'
    BY <1>3 DEF UseInv
  <1> QED
    BY <1>6, <1>7 DEF GlobalInv

\* A report that nothing waits for.
LEMMA StaleLane ==
    ASSUME StateInv, LaneInv, completion, done[1].kind # "bind",
           \A s \in Scopes : ~Cur(sysctls_flight, done[1], s),
           UNCHANGED <<cfg, sysctls_pending, sysctls_flight, sysctls_applied, backoff, reload>>,
           retry' \in {retry, "handback"}
    PROVE  LaneInv'
  <1>1. /\ done \in Seq(Reports) /\ done # << >> /\ done' = Tail(done) /\ mode = "run" /\ pass # "due"
        /\ UNCHANGED <<value, touched, queue, running, mode, artifacts>>
    BY Taking
  <1>2. ReloadInv' /\ UseInv' /\ GlobalInv'
    BY <1>1, OtherReport DEF LaneInv
  <1>3. FlightInv'
    <2>1. FlightOK(sysctls_flight, done, running, queue, cfg, value, touched)
      BY FlightIs DEF LaneInv
    <2>2. DOMAIN sysctls_flight \subseteq Scopes
      BY JobTypes
    <2>3. FlightOK(sysctls_flight, Tail(done), running, queue, cfg, value, touched)
      BY <1>1, <2>1, <2>2, FlightPop
    <2>4. FlightOK(sysctls_flight', done', running', queue', cfg', value', touched')
      BY <1>1, <2>3
    <2> QED
      BY <2>4, FlightIs
  <1>4. OrderInv'
    <2>1. OrderOK(sysctls_flight, sysctls_applied, done, running, queue, cfg, pass = "due")
      BY OrderIs DEF LaneInv
    <2>2. OrderOK(sysctls_flight, sysctls_applied, Tail(done), running, queue, cfg, pass' = "due")
      BY <1>1, <2>1, OrderPop
    <2>3. /\ sysctls_flight = sysctls_flight' /\ sysctls_applied = sysctls_applied'
          /\ Tail(done) = done' /\ running = running' /\ queue = queue' /\ cfg = cfg'
      BY <1>1
    <2>4. OrderOK(sysctls_flight', sysctls_applied', done', running', queue', cfg', pass' = "due")
      BY <2>2, <2>3
    <2> QED
      BY <2>4, OrderIs
  <1>5. AppliedInv'
    <2>1. retry' = "sysctls" => retry = "sysctls"
      OBVIOUS
    <2> QED
      BY <1>1, <2>1 DEF LaneInv, AppliedInv
  <1> QED
    BY <1>2, <1>3, <1>4, <1>5 DEF LaneInv

\* The report that scope x waits for: what it changes apart from the settings
\* that count as applied.
LEMMA CurrentReport ==
    ASSUME StateInv, LaneInv, completion, done[1].kind = "sysctls", NEW x \in Scopes, done[1].scope = x,
           sysctls_flight' = Without(sysctls_flight, x),
           \A s, H : s # x => (Uses(sysctls_applied', s, H) => Uses(sysctls_applied, s, H)),
           \A s : s # x => (Extra(sysctls_applied', cfg, s) => Extra(sysctls_applied, cfg, s)),
           ~Extra(sysctls_applied', cfg, x), ~Contested(sysctls_applied', running, queue, x),
           cfg' = cfg, reload' = reload, pass' = "due"
    PROVE  FlightInv' /\ ReloadInv' /\ OrderInv' /\ UseInv' /\ GlobalInv'
  <1> DEFINE F == sysctls_flight
             G == Without(F, x)
             B == sysctls_applied'
  <1>1. /\ done \in Seq(Reports) /\ done # << >> /\ done' = Tail(done)
        /\ UNCHANGED <<value, touched, queue, running, mode, artifacts>>
    BY Taking
  <1>2. ReloadInv' /\ UseInv' /\ GlobalInv'
    <2>1. done[1].kind # "bind"
      OBVIOUS
    <2> QED
      BY <1>1, <2>1, OtherReport DEF LaneInv
  <1>3. \A s \in Scopes : ~Cur(G, done[1], s)
    <2>1. \A s : Cur(G, done[1], s) => s # x /\ Cur(F, done[1], s)
      BY DEF Cur, Without
    <2>2. \A s : Cur(F, done[1], s) => s = x
      BY DEF Cur
    <2> QED
      BY <2>1, <2>2
  <1>4. DOMAIN G \subseteq Scopes
    <2>1. DOMAIN G = DOMAIN F \ {x} /\ DOMAIN F \subseteq Scopes
      <3>1. DOMAIN G = DOMAIN F \ {x}
        BY CurWithout
      <3> QED
        BY <3>1, JobTypes
    <2> QED
      BY <2>1
  <1>5. FlightInv'
    <2>1. FlightOK(F, done, running, queue, cfg, value, touched)
      BY FlightIs DEF LaneInv
    <2>2. FlightOK(G, done, running, queue, cfg, value, touched)
      BY <2>1, FlightWithout
    <2>3. FlightOK(G, Tail(done), running, queue, cfg, value, touched)
      BY <1>1, <1>3, <1>4, <2>2, FlightPop
    <2>4. FlightOK(sysctls_flight', done', running', queue', cfg', value', touched')
      BY <1>1, <2>3
    <2> QED
      BY <2>4, FlightIs
  <1>6. OrderInv'
    <2>1. OrderOK(F, sysctls_applied, done, running, queue, cfg, pass = "due")
      BY OrderIs DEF LaneInv
    <2>2. OrderOK(G, B, done, running, queue, cfg, pass' = "due")
      BY <2>1, OrderWithout
    <2>3. OrderOK(G, B, Tail(done), running, queue, cfg, pass' = "due")
      BY <1>1, <1>3, <2>2, OrderPop
    <2>4. /\ G = sysctls_flight' /\ Tail(done) = done' /\ running = running' /\ queue = queue'
          /\ cfg = cfg'
      BY <1>1
    <2>5. OrderOK(sysctls_flight', sysctls_applied', done', running', queue', cfg', pass' = "due")
      BY <2>3, <2>4
    <2> QED
      BY <2>5, OrderIs
  <1> QED
    BY <1>2, <1>5, <1>6

\* Where the daemon waits for nothing but the report of x, neither a queued nor
\* the running hand-back takes a configured family.
LEMMA ReportedSafe ==
    ASSUME StateInv, LaneInv, NEW x \in Scopes, 1 \in DOMAIN done, Cur(sysctls_flight, done[1], x)
    PROVE  /\ Todo(running) \cap cfg.families = {}
           /\ \A i \in DOMAIN queue : GivenBy(queue[i]) \cap cfg.families = {}
  <1>1. Answered(sysctls_flight, done, x)
    <2>1. 1 \in 1..Len(done)
      BY JobTypes
    <2> QED
      BY <2>1 DEF Answered, Line
  <1>2. \A i : Ahead(sysctls_flight, done, running, queue, i, x)
    BY <1>1 DEF Ahead
  <1> QED
    BY <1>1, <1>2 DEF LaneInv, OrderInv

\* The success of the job in flight keeps LaneInv.
LEMMA AppliedLane ==
    ASSUME StateInv, LaneInv, completion, done[1].kind = "sysctls", NEW x \in Scopes, done[1].scope = x,
           Cur(sysctls_flight, done[1], x), done[1].ok, sysctls_done(done[1])
    PROVE  LaneInv'
  <1> DEFINE F == sysctls_flight
             A == sysctls_applied
             B == sysctls_applied'
             new == F[x]
  <1>1. /\ sysctls_flight' = Without(F, x) /\ sysctls_pending' = sysctls_pending \ {x}
        /\ B = [s \in DOMAIN A \cup {x} |-> IF s = x THEN F[s] ELSE A[s]]
        /\ backoff' = backoff \ {x} /\ retry' = retry /\ cfg' = cfg /\ reload' = reload
        /\ pass' = "due"
    BY SMTT(60) DEF sysctls_done, Cur, Event
  <1>2. /\ 1 \in DOMAIN done /\ mode = "run" /\ mode' = mode /\ value' = value /\ touched' = touched
    BY Taking
  <1>3. x \in DOMAIN F
    BY DEF Cur
  <1>4. new.settings = wanted_of(cfg, x) /\ new.manage = cfg.manage
    BY <1>3 DEF LaneInv, FlightInv
  <1>5. DOMAIN B = DOMAIN A \cup {x} /\ B[x] = new /\ \A s \in DOMAIN A : s # x => B[s] = A[s]
    BY <1>1
  <1>6. new.manage => \A k \in new.settings : InPlace(value, touched, k)
    BY <1>2 DEF LaneInv, FlightInv
  <1>7. /\ Todo(running) \cap cfg.families = {}
        /\ \A i \in DOMAIN queue : GivenBy(queue[i]) \cap cfg.families = {}
    BY <1>2, ReportedSafe
  <1>8. DOMAIN Without(F, x) = DOMAIN F \ {x}
    BY DEF Without
  <1> HIDE DEF new, B, F, A
  <1>9. \A k \in new.settings : k.family \in cfg.families
    BY <1>4, WantedKeys, SMTT(60)
  <1>10. /\ \A s, H : s # x => (Uses(B, s, H) => Uses(A, s, H))
         /\ \A s : s # x => (Extra(B, cfg, s) => Extra(A, cfg, s))
    BY <1>5 DEF Uses, Extra
  <1>11. ~Extra(B, cfg, x) /\ \A H : H \cap cfg.families = {} => ~Uses(B, x, H)
    BY <1>5, <1>9 DEF Uses, Extra
  <1>12. ~Contested(B, running, queue, x)
    BY <1>7, <1>11 DEF Contested
  <1>13. FlightInv' /\ ReloadInv' /\ OrderInv' /\ UseInv' /\ GlobalInv'
    BY <1>1, <1>10, <1>11, <1>12, CurrentReport DEF A, B, F
  <1>14. AppliedInv'
    <2>1. x \in sysctl_scopes(cfg) /\ sysctls_pending \subseteq sysctl_scopes(cfg)
          /\ DOMAIN A \subseteq sysctl_scopes(cfg)
      <3>1. x \in sysctls_pending
        BY <1>3 DEF StateInv, TypeInv, TypeOK, F
      <3> QED
        BY <1>2, <3>1 DEF LaneInv, AppliedInv, A
    <2>2. \A s \in sysctl_scopes(cfg) \ sysctls_pending' :
            s \in DOMAIN B /\ B[s].settings = wanted_of(cfg, s) /\ B[s].manage = cfg.manage
      <3> SUFFICES ASSUME NEW s \in sysctl_scopes(cfg) \ sysctls_pending'
                   PROVE  s \in DOMAIN B /\ B[s].settings = wanted_of(cfg, s) /\ B[s].manage = cfg.manage
        OBVIOUS
      <3>1. CASE s = x
        BY <1>4, <1>5, <3>1
      <3>2. CASE s # x
        <4>1. s \in sysctl_scopes(cfg) \ sysctls_pending
          BY <1>1, <3>2
        <4>2. s \in DOMAIN A /\ A[s].settings = wanted_of(cfg, s) /\ A[s].manage = cfg.manage
          BY <1>2, <4>1 DEF LaneInv, AppliedInv, A
        <4> QED
          BY <1>5, <3>2, <4>2
      <3> QED
        BY <3>1, <3>2
    <2>3. backoff' \cap DOMAIN B = {}
      <3>1. backoff \cap DOMAIN A = {}
        BY DEF LaneInv, AppliedInv, A
      <3> QED
        BY <1>1, <1>5, <3>1
    <2>4. retry' = "sysctls" => Global \notin DOMAIN B \cup DOMAIN Without(F, x)
      <3>1. retry = "sysctls" => Global \notin DOMAIN A \cup DOMAIN F
        BY DEF LaneInv, AppliedInv, A, F
      <3> QED
        BY <1>1, <1>3, <1>5, <1>8, <3>1
    <2>5. \A s \in DOMAIN B :
            B[s].manage => \A k \in B[s].settings : k.family \in cfg.families => InPlace(value, touched, k)
      <3> SUFFICES ASSUME NEW s \in DOMAIN B, B[s].manage, NEW k \in B[s].settings, k.family \in cfg.families
                   PROVE  InPlace(value, touched, k)
        OBVIOUS
      <3>1. CASE s = x
        BY <1>5, <1>6, <3>1
      <3>2. CASE s # x
        <4>1. s \in DOMAIN A /\ A[s].manage /\ k \in A[s].settings
          BY <1>5, <3>2
        <4> QED
          BY <4>1 DEF LaneInv, AppliedInv, A
      <3> QED
        BY <3>1, <3>2
    <2>6. /\ B = sysctls_applied' /\ Without(F, x) = sysctls_flight' /\ cfg = cfg' /\ value = value'
          /\ touched = touched'
      BY <1>1, <1>2 DEF B
    <2>7. sysctls_pending' \subseteq sysctl_scopes(cfg) /\ DOMAIN B \subseteq sysctl_scopes(cfg)
      BY <1>1, <1>5, <2>1
    <2> QED
      BY <2>2, <2>3, <2>4, <2>5, <2>6, <2>7 DEF AppliedInv
  <1> QED
    BY <1>13, <1>14 DEF LaneInv

\* The failure of the job in flight keeps LaneInv.
LEMMA FailedLane ==
    ASSUME StateInv, LaneInv, completion, done[1].kind = "sysctls", NEW x \in Scopes, done[1].scope = x,
           Cur(sysctls_flight, done[1], x), ~done[1].ok, sysctls_done(done[1])
    PROVE  LaneInv'
  <1> DEFINE F == sysctls_flight
             A == sysctls_applied
             B == Without(A, x)
  <1>1. /\ sysctls_flight' = Without(F, x) /\ sysctls_pending' = sysctls_pending
        /\ sysctls_applied' = B /\ backoff' = backoff \cup ({x} \cap Interfaces)
        /\ retry' = (IF x = Global THEN "sysctls" ELSE retry) /\ cfg' = cfg /\ reload' = reload
        /\ pass' = "due"
    BY DEF sysctls_done, Cur, Event
  <1>2. mode = "run" /\ mode' = mode /\ value' = value /\ touched' = touched
    BY Taking
  <1>3. DOMAIN Without(F, x) = DOMAIN F \ {x}
    BY DEF Without
  <1>4. DOMAIN B = DOMAIN A \ {x} /\ \A s \in DOMAIN B : B[s] = A[s]
    BY DEF Without
  <1> HIDE DEF B
  <1>5. /\ \A s, H : s # x => (Uses(B, s, H) => Uses(A, s, H))
        /\ \A s : s # x => (Extra(B, cfg, s) => Extra(A, cfg, s))
        /\ ~Extra(B, cfg, x) /\ ~Contested(B, running, queue, x)
    BY <1>4 DEF Uses, Extra, Contested
  <1>6. FlightInv' /\ ReloadInv' /\ OrderInv' /\ UseInv' /\ GlobalInv'
    <2>1. sysctls_applied' = B
      BY <1>1
    <2>2. /\ \A s, H : s # x => (Uses(sysctls_applied', s, H) => Uses(sysctls_applied, s, H))
          /\ \A s : s # x => (Extra(sysctls_applied', cfg, s) => Extra(sysctls_applied, cfg, s))
          /\ ~Extra(sysctls_applied', cfg, x) /\ ~Contested(sysctls_applied', running, queue, x)
      BY <1>5, <2>1
    <2> QED
      BY <1>1, <2>2, CurrentReport
  <1>7. x \in DOMAIN F /\ x \in sysctls_pending
    BY DEF StateInv, TypeInv, TypeOK, Cur
  <1>8. /\ \A s \in sysctl_scopes(cfg) \ sysctls_pending :
             /\ s \in DOMAIN A /\ A[s].settings = wanted_of(cfg, s) /\ A[s].manage = cfg.manage
        /\ sysctls_pending \subseteq sysctl_scopes(cfg) /\ DOMAIN A \subseteq sysctl_scopes(cfg)
        /\ backoff \cap DOMAIN A = {}
        /\ retry = "sysctls" => Global \notin DOMAIN A \cup DOMAIN F
        /\ \A s \in DOMAIN A :
             A[s].manage => \A k \in A[s].settings : k.family \in cfg.families => InPlace(value, touched, k)
    BY <1>2 DEF LaneInv, AppliedInv
  <1> HIDE DEF A, B, F
  <1>9. \A s \in sysctl_scopes(cfg) \ sysctls_pending' :
          s \in DOMAIN B /\ B[s].settings = wanted_of(cfg, s) /\ B[s].manage = cfg.manage
    <2> SUFFICES ASSUME NEW s \in sysctl_scopes(cfg) \ sysctls_pending'
                 PROVE  s \in DOMAIN B /\ B[s].settings = wanted_of(cfg, s) /\ B[s].manage = cfg.manage
      OBVIOUS
    <2>1. s \in sysctl_scopes(cfg) \ sysctls_pending /\ s # x
      BY <1>1, <1>7
    <2>2. s \in DOMAIN A /\ A[s].settings = wanted_of(cfg, s) /\ A[s].manage = cfg.manage
      BY <1>8, <2>1
    <2>3. s \in DOMAIN B
      BY <1>4, <2>1, <2>2
    <2> QED
      BY <1>4, <2>2, <2>3
  <1>10. backoff' \cap DOMAIN B = {}
    BY <1>1, <1>4, <1>8
  <1>11. retry' = "sysctls" => Global \notin DOMAIN B \cup DOMAIN Without(F, x)
    BY <1>1, <1>3, <1>4, <1>8
  <1>12. \A s \in DOMAIN B :
           B[s].manage => \A k \in B[s].settings : k.family \in cfg.families => InPlace(value, touched, k)
    <2> SUFFICES ASSUME NEW s \in DOMAIN B, B[s].manage, NEW k \in B[s].settings, k.family \in cfg.families
                 PROVE  InPlace(value, touched, k)
      OBVIOUS
    <2>1. s \in DOMAIN A /\ A[s].manage /\ k \in A[s].settings
      BY <1>4
    <2> QED
      BY <1>8, <2>1
  <1>13. sysctls_pending' \subseteq sysctl_scopes(cfg) /\ DOMAIN B \subseteq sysctl_scopes(cfg)
    BY <1>1, <1>4, <1>8
  <1>14. /\ B = sysctls_applied' /\ Without(F, x) = sysctls_flight' /\ cfg = cfg' /\ value = value'
         /\ touched = touched'
    BY <1>1, <1>2
  <1>15. AppliedInv'
    BY <1>9, <1>10, <1>11, <1>12, <1>13, <1>14 DEF AppliedInv
  <1> QED
    BY <1>6, <1>15 DEF LaneInv

\* The report of a Bind job: it is the only one about a reload.
LEMMA BindAlone ==
    ASSUME StateInv, LaneInv, completion, done[1].kind = "bind"
    PROVE  1 \in Binds(done) /\ Binds(done') = {} /\ Binds(queue) = {}
  <1>1. done \in Seq(Reports) /\ done # << >> /\ 1 \in DOMAIN done /\ done' = Tail(done)
    BY Taking
  <1>2. 1 \in Binds(done)
    BY <1>1 DEF Binds
  <1>3. \A i : i \in Binds(done') => i \in Nat /\ i - 1 \in 0..Len(Tail(done)) /\ i + 1 \in Binds(done)
    BY <1>1, BindsTail
  <1>4. \A i : i \in Binds(done') => FALSE
    <2> SUFFICES ASSUME NEW i, i \in Binds(done')
                 PROVE  FALSE
      OBVIOUS
    <2>1. i \in Nat /\ i - 1 \in 0..Len(Tail(done)) /\ i + 1 = 1
      BY <1>2, <1>3 DEF LaneInv, ReloadInv
    <2> QED
      BY <2>1, SMTT(60)
  <1>5. Binds(queue) = {}
    BY <1>2 DEF LaneInv, ReloadInv
  <1> QED
    BY <1>2, <1>4, <1>5

\* A reload whose bindings were not written keeps LaneInv.
LEMMA RefusedLane ==
    ASSUME StateInv, LaneInv, completion, done[1].kind = "bind", ~done[1].ok, reload_bound(done[1])
    PROVE  LaneInv'
  <1>1. /\ done \in Seq(Reports) /\ done # << >> /\ done' = Tail(done) /\ mode = "run" /\ pass # "due"
        /\ UNCHANGED <<value, touched, queue, running, mode, artifacts>>
    BY Taking
  <1>2. UNCHANGED <<cfg, sysctls_pending, sysctls_flight, sysctls_applied, backoff, retry>>
    BY DEF reload_bound
  <1>3. \A s \in Scopes : ~Cur(sysctls_flight, done[1], s)
    BY DEF Cur
  <1>4. 1 \in Binds(done) /\ Binds(done') = {} /\ Binds(queue) = {}
    BY BindAlone
  <1>5. ReloadInv' /\ UseInv' /\ GlobalInv'
    <2>1. ReloadInv'
      BY <1>1, <1>4 DEF ReloadInv
    <2>2. UseInv'
      BY <1>1, <1>2, <1>4 DEF LaneInv, UseInv
    <2>3. GlobalInv'
      BY <1>1 DEF LaneInv, GlobalInv
    <2> QED
      BY <2>1, <2>2, <2>3
  <1>6. FlightInv'
    <2>1. FlightOK(sysctls_flight, done, running, queue, cfg, value, touched)
      BY FlightIs DEF LaneInv
    <2>2. DOMAIN sysctls_flight \subseteq Scopes
      BY JobTypes
    <2>3. FlightOK(sysctls_flight, Tail(done), running, queue, cfg, value, touched)
      BY <1>1, <1>3, <2>1, <2>2, FlightPop
    <2>4. FlightOK(sysctls_flight', done', running', queue', cfg', value', touched')
      BY <1>1, <1>2, <2>3
    <2> QED
      BY <2>4, FlightIs
  <1>7. OrderInv'
    <2>1. OrderOK(sysctls_flight, sysctls_applied, done, running, queue, cfg, pass = "due")
      BY OrderIs DEF LaneInv
    <2>2. OrderOK(sysctls_flight, sysctls_applied, Tail(done), running, queue, cfg, pass' = "due")
      BY <1>1, <1>3, <2>1, OrderPop
    <2>3. /\ sysctls_flight = sysctls_flight' /\ sysctls_applied = sysctls_applied'
          /\ Tail(done) = done' /\ running = running' /\ queue = queue' /\ cfg = cfg'
      BY <1>1, <1>2
    <2>4. OrderOK(sysctls_flight', sysctls_applied', done', running', queue', cfg', pass' = "due")
      BY <2>2, <2>3
    <2> QED
      BY <2>4, OrderIs
  <1>8. AppliedInv'
    BY <1>1, <1>2 DEF LaneInv, AppliedInv
  <1> QED
    BY <1>5, <1>6, <1>7, <1>8 DEF LaneInv

\* A reload that takes effect keeps LaneInv, although the settings of before
\* still count.
LEMMA BoundLane ==
    ASSUME StateInv, LaneInv, completion, done[1].kind = "bind", done[1].ok, reload_bound(done[1])
    PROVE  LaneInv'
  <1> DEFINE F == sysctls_flight
             A == sysctls_applied
             c == done[1].config
             B == [s \in DOMAIN A \cap sysctl_scopes(c) |-> A[s]]
  <1>1. /\ mode = "run" /\ mode' = mode
        /\ UNCHANGED <<value, touched, queue, running, artifacts>>
    BY Taking
  <1>2. /\ cfg' = c /\ sysctls_applied' = B /\ sysctls_pending' = sysctl_scopes(c)
        /\ sysctls_flight' = << >> /\ backoff' \subseteq backoff /\ retry' \in {retry, "none"}
        /\ pass' = "due"
    BY DEF reload_bound, Event
  <1>3. 1 \in Binds(done) /\ Binds(done') = {} /\ Binds(queue) = {}
    BY BindAlone
  <1>4. /\ DOMAIN B = DOMAIN A \cap sysctl_scopes(c) /\ \A s \in DOMAIN B : B[s] = A[s]
    OBVIOUS
  <1>5. DOMAIN A \subseteq Scopes
    <2>1. DOMAIN A \subseteq sysctl_scopes(cfg) /\ sysctl_scopes(cfg) \subseteq Scopes
      BY <1>1 DEF LaneInv, AppliedInv, sysctl_scopes, desired, Keys, Scopes
    <2> QED
      BY <2>1
  \* Nothing that counts as applied is of a departed family or handed back.
  <1>6. \A s \in Scopes : ~Extra(A, cfg, s) /\ ~Contested(A, running, queue, s)
    <2>1. \A s \in Scopes : Extra(A, cfg, s) \/ Contested(A, running, queue, s) => Line(F, done, 1 - 1, s)
      BY <1>3 DEF LaneInv, OrderInv
    <2>2. \A s : ~Line(F, done, 1 - 1, s)
      BY SMTT(60) DEF Line
    <2> QED
      BY <2>1, <2>2
  <1>7. /\ \A j, s : ~Cur(sysctls_flight', j, s) /\ DOMAIN sysctls_flight' = {}
        /\ \A q, n, s : ~Line(sysctls_flight', q, n, s)
    <2>1. \A j, s : ~Cur(sysctls_flight', j, s) /\ DOMAIN sysctls_flight' = {}
      BY <1>2, SMTT(60) DEF Cur
    <2> QED
      BY <2>1 DEF Line
  <1>8. \A d, r, q, i, s : ~Answered(sysctls_flight', d, s) /\ ~Ahead(sysctls_flight', d, r, q, i, s)
    BY <1>7 DEF Answered, Ahead
  <1> HIDE DEF F, A, B, c
  <1>9. \A s : \A H : Uses(B, s, H) => s \in Scopes /\ Uses(A, s, H)
    BY <1>4, <1>5 DEF Uses
  <1>10. FlightInv'
    BY <1>7 DEF FlightInv
  <1>11. AppliedInv'
    <2>1. backoff' \cap DOMAIN B = {}
      BY <1>2, <1>4 DEF LaneInv, AppliedInv, A
    <2>2. retry' = "sysctls" => Global \notin DOMAIN B \cup DOMAIN sysctls_flight'
      BY <1>2, <1>4, <1>7 DEF LaneInv, AppliedInv, A
    <2>3. \A s \in DOMAIN B :
            B[s].manage => \A k \in B[s].settings : k.family \in c.families => InPlace(value, touched, k)
      <3> SUFFICES ASSUME NEW s \in DOMAIN B, B[s].manage, NEW k \in B[s].settings
                   PROVE  InPlace(value, touched, k)
        OBVIOUS
      <3>1. s \in DOMAIN A /\ s \in Scopes /\ A[s].manage /\ k \in A[s].settings
        BY <1>4, <1>5
      <3>2. k.family \in cfg.families
        BY <1>6, <3>1 DEF Extra
      <3> QED
        BY <3>1, <3>2 DEF LaneInv, AppliedInv, A
    <2>4. sysctls_pending' = sysctl_scopes(c) /\ DOMAIN B \subseteq sysctl_scopes(c)
      BY <1>2, <1>4
    <2>5. B = sysctls_applied' /\ c = cfg' /\ value = value' /\ touched = touched'
      BY <1>1, <1>2
    <2>6. /\ sysctls_pending' \subseteq sysctl_scopes(c)
          /\ \A s \in sysctl_scopes(c) \ sysctls_pending' : FALSE
      BY <2>4
    <2> QED
      BY <2>1, <2>2, <2>3, <2>4, <2>5, <2>6 DEF AppliedInv
  <1>12. ReloadInv'
    BY <1>1, <1>3 DEF ReloadInv
  <1>13. OrderInv'
    <2>1. \A s \in Scopes :
            ~Uses(B, s, Todo(running)) /\ \A i \in DOMAIN queue : ~Uses(B, s, GivenBy(queue[i]))
      BY <1>6, <1>9 DEF Contested
    <2>2. B = sysctls_applied' /\ running = running' /\ queue = queue'
      BY <1>1, <1>2
    <2>3. \A s \in Scopes :
            ~Uses(sysctls_applied', s, Todo(running'))
            /\ \A i \in DOMAIN queue' : ~Uses(sysctls_applied', s, GivenBy(queue'[i]))
      BY <2>1, <2>2
    <2>4. Binds(queue') = {} /\ Binds(done') = {} /\ pass' = "due"
      BY <1>1, <1>2, <1>3
    <2>5. (\A i \in Binds(queue') : FALSE) /\ (\A i \in Binds(done') : FALSE)
      BY <2>4
    <2> QED
      BY <1>8, <2>3, <2>4, <2>5 DEF OrderInv
  <1>14. UseInv'
    <2>1. /\ Todo(running) \cap artifacts = {}
          /\ \A i \in DOMAIN queue : GivenBy(queue[i]) \cap artifacts = {}
      BY <1>3 DEF LaneInv, UseInv
    <2> QED
      BY <1>1, <1>3, <2>1 DEF UseInv
  <1>15. GlobalInv'
    BY <1>1 DEF LaneInv, GlobalInv
  <1> QED
    BY <1>10, <1>11, <1>12, <1>13, <1>14, <1>15 DEF LaneInv

\* A completion keeps LaneInv.
LEMMA CompletionLane ==
    ASSUME StateInv, LaneInv, completion
    PROVE  LaneInv'
  <1>1. /\ done[1] \in Reports
        /\ \/ done[1].kind = "sysctls" /\ sysctls_done(done[1])
           \/ done[1].kind = "handback" /\ handed_back(done[1])
           \/ done[1].kind = "bind" /\ reload_bound(done[1])
    BY Taking
  <1>2. CASE done[1].kind = "sysctls" /\ sysctls_done(done[1])
    <2> DEFINE x == done[1].scope
    <2>1. x \in Scopes
      BY <1>1, <1>2 DEF Reports
    <2>2. CASE Cur(sysctls_flight, done[1], x) /\ done[1].ok
      BY <1>2, <2>1, <2>2, AppliedLane
    <2>3. CASE Cur(sysctls_flight, done[1], x) /\ ~done[1].ok
      BY <1>2, <2>1, <2>3, FailedLane
    <2>4. CASE ~Cur(sysctls_flight, done[1], x)
      <3>1. \A s \in Scopes : ~Cur(sysctls_flight, done[1], s)
        BY <2>4 DEF Cur
      <3>2. /\ UNCHANGED <<cfg, sysctls_pending, sysctls_flight, sysctls_applied, backoff, reload>>
            /\ retry' \in {retry, "handback"}
        BY <1>2, <2>4 DEF Cur, sysctls_done
      <3>3. done[1].kind # "bind"
        BY <1>2
      <3> QED
        BY <3>1, <3>2, <3>3, StaleLane
    <2> QED
      BY <2>2, <2>3, <2>4
  <1>3. CASE done[1].kind = "handback" /\ handed_back(done[1])
    <2>1. \A s \in Scopes : ~Cur(sysctls_flight, done[1], s)
      BY <1>3 DEF Cur
    <2>2. /\ UNCHANGED <<cfg, sysctls_pending, sysctls_flight, sysctls_applied, backoff, reload>>
          /\ retry' \in {retry, "handback"}
      BY <1>3 DEF handed_back
    <2>3. done[1].kind # "bind"
      BY <1>3
    <2> QED
      BY <2>1, <2>2, <2>3, StaleLane
  <1>4. CASE done[1].kind = "bind" /\ reload_bound(done[1])
    BY <1>4, RefusedLane, BoundLane
  <1> QED
    BY <1>1, <1>2, <1>3, <1>4

=============================================================================
