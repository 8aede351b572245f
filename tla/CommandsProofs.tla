--------------------------- MODULE CommandsProofs ---------------------------
(***************************************************************************)
(* What is proved about Commands: the bindings of the running uplinks hold *)
(* on disk, the drain intent in force is the durable one, and a command    *)
(* answered with 200 is in the kernel or in the manifest.                  *)
(***************************************************************************)
EXTENDS Commands, TLAPS

\* Leaves that name no prover are for Zenon.
USE ZenonT(60)

-----------------------------------------------------------------------------
(* The inductive invariant. *)

\* The uplinks of a configuration are bound in the manifest m; a manifest binds
\* no id and no name twice.
Bound(m, config) == \A u \in config : \E b \in m : b.id = u[1] /\ b.name = u[2]

Unique(m) == \A b \in m, c \in m : b.id = c.id <=> b.name = c.name

\* Two configurations give the ids that they share the same names.
Agree(config, other) == \A u \in config, v \in other : u[1] = v[1] <=> u[2] = v[2]

\* The drain intent that the command in progress is to bring about.
Intended == IF command.drain THEN drained \cup {command.id} ELSE drained \ {command.id}

Phase(p) == reload # None /\ reload.phase = p

Busy == Is(command, {"persisting", "forgetting"})

\* A job that the lane is to run: of the command or of the reload in progress.
JobOK(j) ==
    \/ /\ j.kind = "drain" /\ Is(command, {"persisting"})
       /\ j.state = NamesOf(cfg, Intended)
    \/ /\ j.kind = "forget" /\ Is(command, {"forgetting"})
       /\ j.name = asked[command.order].name
    \/ /\ j.kind = "bind" /\ Phase("binding")
       /\ j.config = reload.config /\ j.drain = DrainJob(reload.config, reload.drained)
    \/ /\ j.kind = "prune" /\ Phase("binding")
       /\ j.state = NamesOf(reload.config, reload.drained)
       /\ Bound(manifest, reload.config) /\ Bound(manifest_file, reload.config)

\* A completion that the State task is to handle, and what it says of the files.
ReportOK(d) ==
    \/ d.kind = "validated" /\ Phase("validating") /\ d.config \in Configs
    \/ d.kind = "prepared" /\ Phase("preparing")
    \/ /\ d.kind = "bound" /\ Phase("binding")
       /\ d.ok => Bound(manifest, reload.config) /\ Bound(manifest_file, reload.config)
    \/ d.kind = "drained" /\ Is(command, {"persisting"})
    \/ /\ d.kind = "forgotten" /\ Is(command, {"forgetting"})
       /\ d.ok => \A b \in manifest_file : b.name # asked[command.order].name

\* One piece of work at a time: a validation, a preparation of listeners, a job
\* or a completion, and it belongs to the reload or the command in progress.
WorkInv ==
    /\ jobs # << >> => jobs = <<jobs[1]>> /\ JobOK(jobs[1])
    /\ done # << >> => done = <<done[1]>> /\ ReportOK(done[1])
    /\ jobs = << >> \/ done = << >>
    /\ validating => Phase("validating") /\ done = << >>
    /\ \A i \in DOMAIN commands :
         commands[i].do = "prepare" =>
            Phase("preparing") /\ i = Len(commands) /\ done = << >>
    /\ Busy => reload = None
    /\ Phase("binding") => reload.drained = Pruned(reload.config)
    /\ life # "running" =>
         /\ command = None /\ reload = None /\ ~validating
         /\ jobs = << >> /\ done = << >> /\ commands = << >>

\* What the command in progress was asked to do, and what of it stands.
CommandInv ==
    LET r == asked[command.order] IN
    /\ command # None => command.order \in DOMAIN asked
    /\ Is(command, {"persisting"}) =>
         /\ r.action = (IF command.drain THEN "drain" ELSE "undrain")
         /\ <<command.id, r.name>> \in cfg
    /\ Is(command, {"forgetting"}) => r.action = "forget" /\ r.name \notin Names(cfg)
    /\ Is(command, {"reloading"}) => r.action = "reload"
    /\ Is(command, {"applying"}) =>
         /\ r.action \in {"drain", "undrain", "reload"}
         /\ r.action = "drain" => command.gone \/ r.name \in NamesOf(cfg, drained)
         /\ r.action = "undrain" => r.name \notin NamesOf(cfg, drained)
         /\ command.target # None => applied_generation < command.target

\* The bindings of the manifests, on disk and in the lane.
BindInv ==
    /\ Unique(manifest_file) /\ Unique(manifest)
    /\ life # "down" => cfg \in Configs
    /\ life = "starting" => ~check(manifest_file, cfg)
    /\ life = "running" => Bound(manifest, cfg) /\ Bound(manifest_file, cfg)

\* A completion that reports a drain state written.
Written == \E i \in DOMAIN done : done[i].kind \in {"drained", "bound"} /\ done[i].ok

\* The drain state on disk is the intent in force, or the next one.
DrainInv ==
    life # "down" =>
      /\ ~Written => drain_file = NamesOf(cfg, drained)
      /\ Written /\ Busy => drain_file = NamesOf(cfg, Intended)
      /\ Written /\ ~Busy => drain_file = NamesOf(reload.config, reload.drained)

\* A generation that is applied is installed.
PlanInv == applied_generation = desired_generation /\ desired # None => kernel = desired

IInv == /\ TypeOK /\ WorkInv /\ CommandInv /\ BindInv /\ PlanInv
        /\ ~LateErrors => DrainInv

\* No work is under way but a validation; none is, or a reload just began.
Prepares == \E i \in DOMAIN commands : commands[i].do = "prepare"

Settled == jobs = << >> /\ done = << >> /\ ~Prepares

Free == \/ reload = None /\ ~validating
        \/ reload = [phase |-> "validating"] /\ validating /\ ~Busy

PhasesOK == /\ reload \in {None} \cup ReloadPhases
            /\ {reload_again, reload_deferred, validating} \subseteq BOOLEAN

AnswersOK == answers \in Seq(Codes) /\ Len(answers) = Len(asked)

-----------------------------------------------------------------------------
(* Configurations and manifests. *)

\* A configuration gives an id one name and a name one id, also the empty one
\* before the first start.
LEMMA ConfigsAre ==
  ASSUME NEW c \in Configs \cup {{}}
  PROVE  /\ c \subseteq Nat \X AllNames
         /\ \A u \in c : u[1] \in AllIds /\ u[2] \in AllNames /\ u = <<u[1], u[2]>>
         /\ \A u \in c, v \in c : u[1] = v[1] <=> u[2] = v[2]
<1>1. CASE c = {}
  BY <1>1
<1>2. CASE c \in Configs
  <2>1. c \subseteq Nat \X AllNames
    BY <1>2, ConstantsAssumption DEF ConstantsAssumption
  <2>2. \A u \in c, v \in c : u[1] = v[1] <=> u[2] = v[2]
    BY <1>2, ConstantsAssumption DEF ConstantsAssumption
  <2>3. ASSUME NEW u \in c PROVE u[1] \in AllIds /\ u[2] \in AllNames /\ u = <<u[1], u[2]>>
    <3>1. u \in Nat \X AllNames
      BY <2>1
    <3>2. u[1] \in Ids(c)
      BY DEF Ids
    <3>3. u[1] \in AllIds
      BY <1>2, <3>2 DEF AllIds
    <3>4. u[2] \in AllNames /\ u = <<u[1], u[2]>>
      BY <3>1, SMTT(60)
    <3> QED BY <3>3, <3>4
  <2> QED BY <2>1, <2>2, <2>3
<1> QED BY <1>1, <1>2

\* None is no value that the variables otherwise have.
LEMMA NoneIs ==
  /\ None \notin Configs /\ None \notin Nat /\ None \notin Plans
  /\ None \notin ActiveCommands /\ None \notin ReloadPhases
  /\ \A names \in SUBSET AllNames : None # names
BY ConstantsAssumption DEF ConstantsAssumption

\* The names drained are names.
LEMMA NamesOfType ==
  ASSUME NEW c \in Configs \cup {{}}, NEW ids
  PROVE  NamesOf(c, ids) \in SUBSET AllNames
<1>1. \A u \in c : u[2] \in AllNames
  BY ConfigsAre
<1> QED BY <1>1 DEF NamesOf

\* Configurations bound in one manifest agree (check, FR-MARK-4).
LEMMA BoundAgree ==
  ASSUME NEW m, NEW c, NEW d, Unique(m), Bound(m, c), Bound(m, d)
  PROVE  Agree(c, d)
<1> SUFFICES ASSUME NEW u \in c, NEW v \in d PROVE u[1] = v[1] <=> u[2] = v[2]
  BY DEF Agree
<1>1. PICK a \in m : a.id = u[1] /\ a.name = u[2]
  BY DEF Bound
<1>2. PICK b \in m : b.id = v[1] /\ b.name = v[2]
  BY DEF Bound
<1> QED BY <1>1, <1>2 DEF Unique

\* The elements of a manifest after bind.
LEMMA BindIs ==
  ASSUME NEW m \in Manifests, NEW c, NEW b \in bind(m, c)
  PROVE  \/ \E a \in m : b.id = a.id /\ b.name = a.name
         \/ \E u \in c : b.id = u[1] /\ b.name = u[2] /\ \A a \in m : a.id # u[1]
<1>1. CASE \E a \in m : b = [a EXCEPT !.removed = a.id \notin Ids(c)]
  <2>1. PICK a \in m : b = [a EXCEPT !.removed = a.id \notin Ids(c)]
    BY <1>1
  <2>2. a \in [id : AllIds, name : AllNames, removed : BOOLEAN]
    BY DEF Manifests
  <2>3. b.id = a.id /\ b.name = a.name
    BY <2>1, <2>2, SMTT(60)
  <2> QED BY <2>3
<1>2. CASE \E u \in c : b = [id |-> u[1], name |-> u[2], removed |-> FALSE] /\ \A a \in m : a.id # u[1]
  <2>1. PICK u \in c : b = [id |-> u[1], name |-> u[2], removed |-> FALSE] /\ \A a \in m : a.id # u[1]
    BY <1>2
  <2>2. b.id = u[1] /\ b.name = u[2]
    BY <2>1
  <2> QED BY <2>1, <2>2
<1>3. \/ \E a \in m : b = [a EXCEPT !.removed = a.id \notin Ids(c)]
      \/ \E u \in {v \in c : \A a \in m : a.id # v[1]} : b = [id |-> u[1], name |-> u[2], removed |-> FALSE]
  BY DEF bind
<1> QED BY <1>1, <1>2, <1>3

\* bind keeps the bindings of the manifest.
LEMMA BindKeeps ==
  ASSUME NEW m \in Manifests, NEW c, NEW a \in m
  PROVE  \E b \in bind(m, c) : b.id = a.id /\ b.name = a.name
<1> DEFINE b == [a EXCEPT !.removed = a.id \notin Ids(c)]
<1>1. b \in bind(m, c)
  BY DEF bind
<1>2. a \in [id : AllIds, name : AllNames, removed : BOOLEAN]
  BY DEF Manifests
<1>3. b.id = a.id /\ b.name = a.name
  BY <1>2, SMTT(60)
<1> QED BY <1>1, <1>3

LEMMA BindKeepsBound ==
  ASSUME NEW m \in Manifests, NEW c, NEW d, Bound(m, d)
  PROVE  Bound(bind(m, c), d)
<1> SUFFICES ASSUME NEW u \in d PROVE \E b \in bind(m, c) : b.id = u[1] /\ b.name = u[2]
  BY DEF Bound
<1>1. PICK a \in m : a.id = u[1] /\ a.name = u[2]
  BY DEF Bound
<1>2. PICK b \in bind(m, c) : b.id = a.id /\ b.name = a.name
  BY BindKeeps
<1> QED BY <1>1, <1>2

\* bind binds the configuration that check let pass.
LEMMA BindBinds ==
  ASSUME NEW m \in Manifests, NEW c, ~check(m, c)
  PROVE  Bound(bind(m, c), c)
<1> SUFFICES ASSUME NEW u \in c PROVE \E b \in bind(m, c) : b.id = u[1] /\ b.name = u[2]
  BY DEF Bound
<1>1. CASE \A a \in m : a.id # u[1]
  <2> DEFINE b == [id |-> u[1], name |-> u[2], removed |-> FALSE]
  <2>1. b \in bind(m, c)
    BY <1>1 DEF bind
  <2> QED BY <2>1
<1>2. CASE \E a \in m : a.id = u[1]
  <2>1. PICK a \in m : a.id = u[1]
    BY <1>2
  <2>2. a.name = u[2]
    BY <2>1 DEF check
  <2>3. PICK b \in bind(m, c) : b.id = a.id /\ b.name = a.name
    BY BindKeeps
  <2> QED BY <2>1, <2>2, <2>3
<1> QED BY <1>1, <1>2

\* bind gives no id and no name twice.
LEMMA BindUnique ==
  ASSUME NEW m \in Manifests, NEW c \in Configs \cup {{}}, ~check(m, c), Unique(m)
  PROVE  Unique(bind(m, c))
<1> DEFINE Old(b) == \E a \in m : b.id = a.id /\ b.name = a.name
           New(b) == \E u \in c : b.id = u[1] /\ b.name = u[2] /\ \A a \in m : a.id # u[1]
<1>1. \A b \in bind(m, c) : Old(b) \/ New(b)
  BY BindIs
<1>2. ASSUME NEW b, NEW d, Old(b), Old(d) PROVE b.id = d.id <=> b.name = d.name
  BY <1>2 DEF Unique
<1>3. ASSUME NEW b, NEW d, New(b), New(d) PROVE b.id = d.id <=> b.name = d.name
  <2>1. PICK u \in c : b.id = u[1] /\ b.name = u[2]
    BY <1>3
  <2>2. PICK v \in c : d.id = v[1] /\ d.name = v[2]
    BY <1>3
  <2>3. u[1] = v[1] <=> u[2] = v[2]
    BY ConfigsAre
  <2> QED BY <2>1, <2>2, <2>3
<1>4. ASSUME NEW b, NEW d, Old(b), New(d) PROVE b.id # d.id /\ b.name # d.name
  <2>1. PICK a \in m : b.id = a.id /\ b.name = a.name
    BY <1>4
  <2>2. PICK u \in c : d.id = u[1] /\ d.name = u[2] /\ a.id # u[1]
    BY <1>4
  <2>3. a.name # u[2]
    BY <2>2 DEF check
  <2> QED BY <2>1, <2>2, <2>3
<1> HIDE DEF Old, New
<1> SUFFICES ASSUME NEW b \in bind(m, c), NEW d \in bind(m, c) PROVE b.id = d.id <=> b.name = d.name
  BY DEF Unique
<1>5. Old(b) \/ New(b)
  BY <1>1
<1>6. Old(d) \/ New(d)
  BY <1>1
<1>7. CASE Old(b) /\ Old(d)
  BY <1>2, <1>7
<1>8. CASE New(b) /\ New(d)
  BY <1>3, <1>8
<1>9. CASE Old(b) /\ New(d)
  BY <1>4, <1>9
<1>10. CASE New(b) /\ Old(d)
  <2>1. d.id # b.id /\ d.name # b.name
    BY <1>4, <1>10
  <2> QED BY <2>1
<1> QED BY <1>5, <1>6, <1>7, <1>8, <1>9, <1>10

LEMMA BindType ==
  ASSUME NEW m \in Manifests, NEW c \in Configs \cup {{}}
  PROVE  bind(m, c) \in Manifests
<1> SUFFICES ASSUME NEW b \in bind(m, c) PROVE b \in [id : AllIds, name : AllNames, removed : BOOLEAN]
  BY DEF Manifests
<1>1. CASE \E a \in m : b = [a EXCEPT !.removed = a.id \notin Ids(c)]
  <2>1. PICK a \in m : b = [a EXCEPT !.removed = a.id \notin Ids(c)]
    BY <1>1
  <2>2. a \in [id : AllIds, name : AllNames, removed : BOOLEAN]
    BY DEF Manifests
  <2> DEFINE z == a.id \notin Ids(c)
  <2>3. z \in BOOLEAN /\ b = [a EXCEPT !.removed = z]
    BY <2>1
  <2> HIDE DEF z
  <2> QED BY <2>2, <2>3, SMTT(60)
<1>2. CASE \E u \in c : b = [id |-> u[1], name |-> u[2], removed |-> FALSE]
  <2>1. PICK u \in c : b = [id |-> u[1], name |-> u[2], removed |-> FALSE]
    BY <1>2
  <2>2. u[1] \in AllIds /\ u[2] \in AllNames
    BY ConfigsAre
  <2> QED BY <2>1, <2>2, SMTT(60)
<1> QED BY <1>1, <1>2 DEF bind

\* forget removes the bindings of one name only.
LEMMA Forgets ==
  ASSUME NEW m \in Manifests, NEW n
  PROVE  /\ forget(m, n) \in Manifests
         /\ Unique(m) => Unique(forget(m, n))
         /\ \A c : Bound(m, c) /\ n \notin Names(c) => Bound(forget(m, n), c)
         /\ \A b \in forget(m, n) : b.name # n
<1>1. \A c : Bound(m, c) /\ n \notin Names(c) => Bound(forget(m, n), c)
  BY DEF Bound, forget, Names
<1> QED BY <1>1 DEF forget, Unique, Manifests

\* The drain intent that remains after a reload, but for the uplinks it removes.
LEMMA IntentKept ==
  ASSUME NEW c, NEW d, NEW ids, Agree(c, d), ids \subseteq Ids(c)
  PROVE  LET removed == Names(c) \ Names(d) IN
         /\ NamesOf(d, ids \cap Ids(d)) \subseteq NamesOf(c, ids)
         /\ NamesOf(c, ids) \ removed \subseteq NamesOf(d, ids \cap Ids(d))
<1>1. ASSUME NEW n \in NamesOf(d, ids \cap Ids(d)) PROVE n \in NamesOf(c, ids)
  <2>1. PICK v \in d : v[1] \in ids /\ v[2] = n
    BY <1>1 DEF NamesOf
  <2>2. PICK u \in c : u[1] = v[1]
    BY <2>1 DEF Ids
  <2>3. u[2] = n
    BY <2>1, <2>2 DEF Agree
  <2> QED BY <2>1, <2>2, <2>3 DEF NamesOf, Ids
<1>2. ASSUME NEW n \in NamesOf(c, ids), n \in Names(d) PROVE n \in NamesOf(d, ids \cap Ids(d))
  <2>1. PICK u \in c : u[1] \in ids /\ u[2] = n
    BY <1>2 DEF NamesOf
  <2>2. PICK v \in d : v[2] = n
    BY <1>2 DEF Names
  <2>3. u[1] = v[1] /\ v[1] \in Ids(d)
    BY <2>1, <2>2 DEF Agree, Ids
  <2> QED BY <2>1, <2>2, <2>3 DEF NamesOf, Ids
<1>3. \A n \in NamesOf(c, ids) : n \in Names(c)
  BY DEF NamesOf, Names
<1> QED BY <1>1, <1>2, <1>3
-----------------------------------------------------------------------------
(* What a step that leaves alone the variables of a conjunct preserves. *)

LEMMA WorkKept ==
  ASSUME WorkInv,
         UNCHANGED <<jobs, done, validating, commands, command, reload, life, cfg,
                     drained, asked, manifest, manifest_file>>
  PROVE  WorkInv'
<1>1. Busy' = Busy /\ Intended' = Intended /\ \A p : Phase(p)' = Phase(p)
  BY DEF Busy, Is, Intended, Phase
<1>2. (jobs # << >> => JobOK(jobs[1]))' = (jobs # << >> => JobOK(jobs[1]))
  BY DEF JobOK, Is, Intended, Phase, Bound, DrainJob
<1>3. (done # << >> => ReportOK(done[1]))' = (done # << >> => ReportOK(done[1]))
  BY DEF ReportOK, Is, Phase, Bound
<1>4. (Phase("binding") => reload.drained = Pruned(reload.config))'
  BY DEF WorkInv, Phase, Pruned
<1> QED BY <1>1, <1>2, <1>3, <1>4 DEF WorkInv

LEMMA CommandKept ==
  ASSUME CommandInv, UNCHANGED <<command, asked, cfg, drained, applied_generation>>
  PROVE  CommandInv'
BY DEF CommandInv, Is

LEMMA CommandNone ==
  ASSUME command' = None PROVE CommandInv'
BY DEF CommandInv, Is

LEMMA BindKept ==
  ASSUME BindInv, UNCHANGED <<manifest, manifest_file, life, cfg>>
  PROVE  BindInv'
BY DEF BindInv, Bound, Unique, check

LEMMA PlanKept ==
  ASSUME PlanInv, UNCHANGED planVars PROVE PlanInv'
BY DEF PlanInv, planVars

LEMMA DrainKept ==
  ASSUME DrainInv, UNCHANGED <<life, done, drain_file, cfg, drained, command, reload>>
  PROVE  DrainInv'
<1>1. Busy' = Busy /\ Intended' = Intended /\ Written' = Written
  BY DEF Busy, Is, Intended, Written
<1> QED BY <1>1 DEF DrainInv

\* Nothing written is reported, before or after the step.
LEMMA DrainSame ==
  ASSUME DrainInv, ~Written, ~Written', UNCHANGED <<life, drain_file, cfg, drained>>
  PROVE  DrainInv'
BY DEF DrainInv

LEMMA DrainDown ==
  ASSUME life' = "down" PROVE DrainInv'
BY DEF DrainInv

LEMMA NothingWritten ==
  ASSUME done = << >> PROVE ~Written
<1>1. DOMAIN << >> = {}
  BY SMTT(60)
<1> QED BY <1>1 DEF Written

-----------------------------------------------------------------------------
(* The work in progress. *)

LEMMA OneElement ==
  ASSUME NEW x
  PROVE  /\ Head(<<x>>) = x /\ Tail(<<x>>) = << >> /\ DOMAIN <<x>> = {1} /\ <<x>>[1] = x
         /\ <<x>> # << >> /\ Len(<<x>>) = 1 /\ Append(<< >>, x) = <<x>>
BY SMTT(60)

\* The one completion that waits for the State task.
LEMMA OneReport ==
  ASSUME WorkInv, done # << >>
  PROVE  /\ done = <<Head(done)>> /\ Tail(done) = << >> /\ jobs = << >>
         /\ ReportOK(Head(done)) /\ ~validating /\ ~Prepares
         /\ Written <=> Head(done).kind \in {"drained", "bound"} /\ Head(done).ok
<1>1. done = <<done[1]>> /\ ReportOK(done[1])
  BY DEF WorkInv
<1>2. Head(done) = done[1] /\ Tail(done) = << >> /\ DOMAIN done = {1}
  <2> DEFINE x == done[1]
  <2>1. done = <<x>>
    BY <1>1
  <2> HIDE DEF x
  <2>2. Head(done) = x /\ Tail(done) = << >> /\ DOMAIN done = {1}
    BY <2>1, OneElement
  <2> QED BY <2>2 DEF x
<1>3. jobs = << >> /\ ~validating /\ ~Prepares
  BY DEF WorkInv, Prepares
<1>4. Written <=> done[1].kind \in {"drained", "bound"} /\ done[1].ok
  BY <1>2 DEF Written
<1> QED BY <1>1, <1>2, <1>3, <1>4

\* Whose completion it is.
LEMMA ReportOf ==
  ASSUME WorkInv, done # << >>
  PROVE  /\ Head(done).kind = "validated" => Phase("validating") /\ Head(done).config \in Configs
         /\ Head(done).kind = "prepared" => Phase("preparing")
         /\ Head(done).kind = "bound" =>
              /\ Phase("binding")
              /\ Head(done).ok => Bound(manifest, reload.config) /\ Bound(manifest_file, reload.config)
         /\ Head(done).kind = "drained" => Is(command, {"persisting"})
         /\ Head(done).kind = "forgotten" =>
              /\ Is(command, {"forgetting"})
              /\ Head(done).ok => \A b \in manifest_file : b.name # asked[command.order].name
<1>1. ReportOK(Head(done))
  BY OneReport
<1> QED BY <1>1 DEF ReportOK

\* The one job of the lane.
LEMMA OneJob ==
  ASSUME WorkInv, jobs # << >>
  PROVE  /\ jobs = <<Head(jobs)>> /\ Tail(jobs) = << >> /\ done = << >>
         /\ JobOK(Head(jobs)) /\ (Busy \/ Phase("binding"))
<1>1. jobs = <<jobs[1]>> /\ JobOK(jobs[1]) /\ done = << >>
  BY DEF WorkInv
<1>2. Head(jobs) = jobs[1] /\ Tail(jobs) = << >>
  <2> DEFINE x == jobs[1]
  <2>1. jobs = <<x>>
    BY <1>1
  <2> HIDE DEF x
  <2>2. Head(jobs) = x /\ Tail(jobs) = << >>
    BY <2>1, OneElement
  <2> QED BY <2>2 DEF x
<1>3. Busy \/ Phase("binding")
  BY <1>1 DEF JobOK, Busy, Is
<1> QED BY <1>1, <1>2, <1>3

\* A phase is one phase; no command writes during a reload.
LEMMA Phases ==
  ASSUME WorkInv, NEW p, Phase(p)
  PROVE  ~Busy /\ reload # None /\ \A q : q # p => ~Phase(q)
BY DEF WorkInv, Phase

\* While nothing is in progress nothing is under way.
LEMMA Quiet ==
  ASSUME WorkInv, reload = None, ~Busy
  PROVE  Settled /\ ~validating
<1>1. \A p : ~Phase(p)
  BY DEF Phase
<1>2. ~Is(command, {"persisting"}) /\ ~Is(command, {"forgetting"})
  BY DEF Busy, Is
<1>3. ~validating /\ ~Prepares
  BY <1>1 DEF WorkInv, Prepares
<1>4. jobs = << >>
  BY <1>1, <1>2 DEF WorkInv, JobOK
<1>5. done = << >>
  BY <1>1, <1>2 DEF WorkInv, ReportOK
<1> QED BY <1>3, <1>4, <1>5 DEF Settled

\* The state that the end of a reload or of a write leaves.
LEMMA Resting ==
  ASSUME life' = "running", Settled', Free'
  PROVE  WorkInv'
<1>1. jobs' = << >> /\ done' = << >> /\ ~Prepares'
  BY DEF Settled
<1>2. ~Phase("binding")' /\ (validating => Phase("validating"))' /\ (Busy => reload = None)'
  <2>1. CASE reload' = None /\ ~validating'
    BY <2>1 DEF Phase
  <2>2. CASE reload' = [phase |-> "validating"] /\ validating' /\ ~Busy'
    <3>1. reload'.phase = "validating"
      BY <2>2
    <3>2. reload' \in ReloadPhases
      BY <2>2 DEF ReloadPhases
    <3>3. reload' # None
      BY <3>2, NoneIs
    <3> QED BY <2>2, <3>1, <3>3 DEF Phase
  <2> QED BY <2>1, <2>2 DEF Free
<1> QED BY <1>1, <1>2 DEF WorkInv, Prepares
-----------------------------------------------------------------------------
(* The shapes of commands, phases and answers. *)

LEMMA CommandShapes ==
  ASSUME NEW c \in {None} \cup ActiveCommands
  PROVE  /\ Is(c, {"persisting"}) =>
              c \in [kind : {"persisting"}, order : 1..MaxOrders, id : AllIds, drain : BOOLEAN]
         /\ Is(c, {"applying"}) =>
              c \in [kind : {"applying"}, order : 1..MaxOrders, target : {None} \cup Nat,
                     late : BOOLEAN, gone : BOOLEAN]
         /\ c # None => c.order \in 1..MaxOrders
         /\ c = None \/ Is(c, {"persisting"}) \/ Is(c, {"forgetting"}) \/ Is(c, {"reloading"})
              \/ Is(c, {"applying"})
BY SMTT(60) DEF ActiveCommands, Is

LEMMA ReloadShapes ==
  ASSUME NEW r \in {None} \cup ReloadPhases, r # None
  PROVE  /\ r.phase \in {"validating", "preparing", "binding"}
         /\ r.phase \in {"preparing", "binding"} => r.config \in Configs
         /\ r.phase = "binding" => r.drained \in SUBSET AllIds
BY SMTT(60) DEF ReloadPhases

LEMMA ShapesArePhases ==
  ASSUME NEW c \in Configs, NEW d \in SUBSET AllIds
  PROVE  /\ [phase |-> "validating"] \in ReloadPhases
         /\ [phase |-> "preparing", config |-> c] \in ReloadPhases
         /\ [phase |-> "binding", config |-> c, drained |-> d] \in ReloadPhases
BY SMTT(60) DEF ReloadPhases

LEMMA ValidatingIsPhase == [phase |-> "validating"] \in ReloadPhases
BY DEF ReloadPhases

\* An answer is given once, and to the one command.
LEMMA ToldType ==
  ASSUME AnswersOK, NEW o, NEW code \in Codes
  PROVE  /\ Told(o, code) \in Seq(Codes) /\ Len(Told(o, code)) = Len(answers)
         /\ DOMAIN Told(o, code) = DOMAIN answers
         /\ \A p \in DOMAIN answers :
              Told(o, code)[p] = IF p = o /\ answers[p] = "none" THEN code ELSE answers[p]
<1>1. answers \in Seq(Codes)
  BY DEF AnswersOK
<1>2. \A p \in DOMAIN answers : Told(o, code)[p] = IF p = o /\ answers[p] = "none" THEN code ELSE answers[p]
  BY DEF Told
<1>3. DOMAIN Told(o, code) = DOMAIN answers
  BY DEF Told
<1>4. \A p \in DOMAIN answers : Told(o, code)[p] \in Codes
  BY <1>1, <1>2, SMTT(60)
<1>5. Told(o, code) = [p \in DOMAIN answers |-> Told(o, code)[p]]
  BY DEF Told
<1>6. Told(o, code) \in Seq(Codes) /\ Len(Told(o, code)) = Len(answers)
  <2> DEFINE f == Told(o, code)
  <2>1. \A p \in DOMAIN answers : f[p] \in Codes
    BY <1>4
  <2>2. f = [p \in DOMAIN answers |-> f[p]]
    BY <1>5
  <2> HIDE DEF f
  <2>3. f \in Seq(Codes) /\ Len(f) = Len(answers)
    BY <1>1, <2>1, <2>2, SMTT(60)
  <2> QED BY <2>3 DEF f
<1> QED BY <1>2, <1>3, <1>6

LEMMA AnswersTold ==
  ASSUME AnswersOK, NEW o, NEW code \in Codes, answers' = Told(o, code), asked' = asked
  PROVE  AnswersOK'
BY ToldType DEF AnswersOK

LEMMA TypeParts ==
  ASSUME TypeOK
  PROVE  PhasesOK /\ AnswersOK
BY DEF TypeOK, PhasesOK, AnswersOK

-----------------------------------------------------------------------------
(* The phases of a reload. *)

\* A reload that ends lets the next begin, unless a command writes.
LEMMA EndReload ==
  ASSUME PhasesOK, ~validating, ~Busy', end_reload(command')
  PROVE  Free' /\ PhasesOK'
<1>1. reload_again \in BOOLEAN /\ reload_deferred \in BOOLEAN /\ validating \in BOOLEAN
  BY DEF PhasesOK
<1>2. ~Is(command', {"persisting", "forgetting"})
  BY DEF Busy
<1>3. CASE reload_again
  <2>1. start_reload(None, FALSE, reload_deferred, command')
    BY <1>3 DEF end_reload
  <2>2. /\ reload' = [phase |-> "validating"] /\ reload_again' = FALSE
        /\ reload_deferred' = reload_deferred /\ validating' = TRUE
    BY <1>2, <2>1 DEF start_reload
  <2> QED BY <1>1, <2>2, ValidatingIsPhase DEF Free, PhasesOK
<1>4. CASE ~reload_again
  BY <1>1, <1>4 DEF end_reload, Free, PhasesOK
<1> QED BY <1>3, <1>4

\* So does a command that wrote its intent.
LEMMA IntentWritten ==
  ASSUME PhasesOK, reload = None, ~validating, ~Busy', intent_written(command')
  PROVE  Free' /\ PhasesOK'
<1>1. reload_again \in BOOLEAN /\ reload_deferred \in BOOLEAN /\ validating \in BOOLEAN
  BY DEF PhasesOK
<1>2. ~Is(command', {"persisting", "forgetting"})
  BY DEF Busy
<1>3. CASE reload_deferred
  <2>1. start_reload(None, reload_again, FALSE, command')
    BY <1>3 DEF intent_written
  <2>2. /\ reload' = [phase |-> "validating"] /\ reload_again' = reload_again
        /\ reload_deferred' = FALSE /\ validating' = TRUE
    BY <1>2, <2>1 DEF start_reload
  <2> QED BY <1>1, <2>2, ValidatingIsPhase DEF Free, PhasesOK
<1>4. CASE ~reload_deferred
  BY <1>1, <1>4 DEF intent_written, Free, PhasesOK, phases
<1> QED BY <1>3, <1>4

LEMMA ReloadFailed ==
  ASSUME PhasesOK, AnswersOK, command \in {None} \cup ActiveCommands, ~validating, ~Busy,
         reload_failed, asked' = asked
  PROVE  /\ Free' /\ PhasesOK' /\ AnswersOK' /\ ~Busy'
         /\ command' = command \/ command' = None
<1>1. command' = command \/ command' = None
  BY DEF reload_failed
<1>2. ~Busy'
  BY <1>1 DEF Busy, Is
<1>3. end_reload(command')
  BY DEF reload_failed
<1>4. Free' /\ PhasesOK'
  BY <1>2, <1>3, EndReload
<1>5. AnswersOK'
  <2>1. "422" \in Codes
    BY DEF Codes
  <2>2. CASE answers' = Told(command.order, "422")
    BY <2>1, <2>2, AnswersTold
  <2>3. CASE answers' = answers
    BY <2>3 DEF AnswersOK
  <2> QED BY <2>2, <2>3 DEF reload_failed
<1> QED BY <1>1, <1>2, <1>4, <1>5

\* An API command other than a preparation.
LEMMA ApiCommand ==
  ASSUME commands \in Seq([do : {"prepare"}, config : Configs] \cup [do : {"commit", "rollback"}]),
         NEW c \in {"commit", "rollback"}, ~Prepares, commands' = api_command(c)
  PROVE  ~Prepares' /\ commands' \in Seq([do : {"prepare"}, config : Configs] \cup [do : {"commit", "rollback"}])
<1> DEFINE C == [do : {"prepare"}, config : Configs] \cup [do : {"commit", "rollback"}]
           x == [do |-> c]
<1>1. x \in C /\ x.do # "prepare" /\ commands' = Append(commands, x)
  BY DEF api_command
<1> HIDE DEF C, x
<1>2. commands \in Seq(C)
  BY DEF C
<1>3. /\ commands' \in Seq(C)
      /\ \A i \in DOMAIN commands' : commands'[i] = x \/ (i \in DOMAIN commands /\ commands'[i] = commands[i])
  BY <1>1, <1>2, SMTT(60)
<1>4. ~Prepares'
  BY <1>1, <1>3 DEF Prepares
<1> QED BY <1>3, <1>4 DEF C
-----------------------------------------------------------------------------
(* What happens outside the daemon, startup and crashes. *)

\* A step that leaves alone all that the invariant speaks of but its types.
LEMMA AllKept ==
  ASSUME IInv, TypeOK',
         UNCHANGED <<jobs, done, validating, commands, command, reload, life, cfg, drained,
                     asked, manifest, manifest_file, drain_file, planVars>>
  PROVE  IInv'
<1>1. WorkInv'
  BY WorkKept DEF IInv
<1>2. CommandInv'
  BY CommandKept DEF IInv, planVars
<1>3. BindInv' /\ PlanInv'
  BY BindKept, PlanKept DEF IInv
<1>4. ~LateErrors => DrainInv'
  BY DrainKept DEF IInv
<1> QED BY <1>1, <1>2, <1>3, <1>4 DEF IInv

LEMMA EditInv ==
  ASSUME IInv, NEW config \in Configs, edit(config)
  PROVE  IInv'
<1>1. TypeOK'
  BY DEF IInv, TypeOK, edit, disk, phases, planVars, client, lane, api
<1> QED BY <1>1, AllKept DEF edit, disk, phases, planVars, client, lane, api

LEMMA SendHupInv ==
  ASSUME IInv, send_hup
  PROVE  IInv'
<1>1. TypeOK'
  BY DEF IInv, TypeOK, send_hup, disk, phases, planVars, client, lane, api
<1> QED BY <1>1, AllKept DEF send_hup, disk, phases, planVars, client, lane, api

LEMMA WakesInv ==
  ASSUME IInv, wakes
  PROVE  IInv'
<1>1. TypeOK'
  BY DEF IInv, TypeOK, wakes, outside, disk, phases, planVars, client, lane, api
<1> QED BY <1>1, AllKept DEF wakes, outside, disk, phases, planVars, client, lane, api

LEMMA StutterInv ==
  ASSUME IInv, UNCHANGED vars
  PROVE  IInv'
<1>1. TypeOK'
  BY DEF IInv, TypeOK, vars, outside, disk, phases, planVars, client, lane, api
<1> QED BY <1>1, AllKept DEF vars, outside, disk, phases, planVars, client, lane, api

LEMMA GiveUpInv ==
  ASSUME IInv, NEW o \in DOMAIN answers, give_up(o)
  PROVE  IInv'
<1>1. answers' \in Seq(Codes) /\ Len(answers') = Len(answers)
  <2>1. answers \in Seq(Codes) /\ "gone" \in Codes /\ answers' = [answers EXCEPT ![o] = "gone"]
    BY DEF IInv, TypeOK, give_up, Codes
  <2> QED BY <2>1, SMTT(60)
<1>2. TypeOK'
  BY <1>1 DEF IInv, TypeOK, give_up, outside, disk, phases, planVars, client, lane, api
<1> QED BY <1>2, AllKept DEF give_up, outside, disk, phases, planVars, client, lane, api

LEMMA SendCommandInv ==
  ASSUME IInv, NEW r \in Requests, send_command(r)
  PROVE  IInv'
<1>1. /\ asked' \in Seq(Requests) /\ Len(asked') <= MaxOrders
      /\ answers' \in Seq(Codes) /\ Len(answers') = Len(asked')
      /\ orders' \in Seq(DOMAIN asked') /\ Len(orders') <= ORDER_QUEUE
      /\ \A o \in DOMAIN asked : o \in DOMAIN asked' /\ asked'[o] = asked[o]
  <2>1. /\ asked \in Seq(Requests) /\ orders \in Seq(DOMAIN asked) /\ Len(orders) <= ORDER_QUEUE
        /\ answers \in Seq(Codes) /\ Len(answers) = Len(asked)
        /\ Len(asked) < MaxOrders /\ asked' = Append(asked, r)
    BY DEF IInv, TypeOK, send_command
  <2>2. "none" \in Codes /\ "503" \in Codes
    BY DEF Codes
  <2>3. MaxOrders \in Nat /\ ORDER_QUEUE \in Nat
    BY ConstantsAssumption DEF ConstantsAssumption
  <2>4. /\ asked' \in Seq(Requests) /\ Len(asked') = Len(asked) + 1 /\ Len(asked') <= MaxOrders
        /\ \A o \in DOMAIN asked : o \in DOMAIN asked' /\ asked'[o] = asked[o]
        /\ Len(asked') \in DOMAIN asked' /\ DOMAIN asked \subseteq DOMAIN asked'
    BY <2>1, <2>3, SMTT(60)
  <2>5. CASE Len(orders) < ORDER_QUEUE
    <3>1. answers' = Append(answers, "none") /\ orders' = Append(orders, Len(asked'))
      BY <2>5 DEF send_command
    <3>2. answers' \in Seq(Codes) /\ Len(answers') = Len(asked')
      BY <2>1, <2>2, <2>4, <3>1, SMTT(60)
    <3>3. orders' \in Seq(DOMAIN asked') /\ Len(orders') <= ORDER_QUEUE
      <4> DEFINE D == DOMAIN asked
                 E == DOMAIN asked'
                 n == Len(asked')
      <4>1. orders \in Seq(D) /\ D \subseteq E /\ n \in E /\ orders' = Append(orders, n)
        BY <2>1, <2>4, <3>1
      <4> HIDE DEF D, E, n
      <4>2. orders' \in Seq(E) /\ Len(orders') <= ORDER_QUEUE
        BY <2>3, <2>5, <4>1, SMTT(60)
      <4> QED BY <4>2 DEF E
    <3> QED BY <2>4, <3>2, <3>3
  <2>6. CASE ~(Len(orders) < ORDER_QUEUE)
    <3>1. answers' = Append(answers, "503") /\ orders' = orders
      BY <2>6 DEF send_command
    <3>2. answers' \in Seq(Codes) /\ Len(answers') = Len(asked')
      BY <2>1, <2>2, <2>4, <3>1, SMTT(60)
    <3>3. orders' \in Seq(DOMAIN asked')
      <4> DEFINE D == DOMAIN asked
                 E == DOMAIN asked'
      <4>1. orders \in Seq(D) /\ D \subseteq E
        BY <2>1, <2>4
      <4> HIDE DEF D, E
      <4>2. orders \in Seq(E)
        BY <4>1, SMTT(60)
      <4> QED BY <3>1, <4>2 DEF E
    <3> QED BY <2>1, <2>4, <3>1, <3>2, <3>3
  <2> QED BY <2>5, <2>6
<1>2. TypeOK'
  BY <1>1 DEF IInv, TypeOK, send_command, outside, disk, phases, planVars, lane, api
<1>3. UNCHANGED <<jobs, done, validating, commands, command, reload, life, cfg, drained,
                  manifest, manifest_file, drain_file, planVars>>
  BY DEF send_command, outside, disk, phases, planVars, lane, api
<1>4. command # None => asked'[command.order] = asked[command.order] /\ command.order \in DOMAIN asked'
  BY <1>1 DEF IInv, CommandInv
<1>5. WorkInv'
  <2>1. Busy' = Busy /\ Intended' = Intended /\ \A p : Phase(p)' = Phase(p)
    BY <1>3 DEF Busy, Is, Intended, Phase
  <2>2. (jobs # << >> => JobOK(jobs[1])) => (jobs # << >> => JobOK(jobs[1]))'
    BY <1>3, <1>4 DEF JobOK, Is, Intended, Phase, Bound, DrainJob
  <2>3. (done # << >> => ReportOK(done[1])) => (done # << >> => ReportOK(done[1]))'
    BY <1>3, <1>4 DEF ReportOK, Is, Phase, Bound
  <2>4. (Phase("binding") => reload.drained = Pruned(reload.config))'
    BY <1>3 DEF IInv, WorkInv, Phase, Pruned
  <2> QED BY <1>3, <2>1, <2>2, <2>3, <2>4 DEF IInv, WorkInv
<1>6. CommandInv'
  BY <1>3, <1>4 DEF IInv, CommandInv, Is, planVars
<1>7. BindInv' /\ PlanInv'
  BY <1>3, BindKept, PlanKept DEF IInv
<1>8. ~LateErrors => DrainInv'
  BY <1>3, DrainKept DEF IInv
<1> QED BY <1>2, <1>5, <1>6, <1>7, <1>8 DEF IInv
\* A daemon that does not run yet does nothing.
LEMMA WorkEmpty ==
  ASSUME command' = None, reload' = None, ~validating', jobs' = << >>, done' = << >>,
         commands' = << >>
  PROVE  WorkInv'
<1>1. \A i \in DOMAIN << >> : FALSE
  BY SMTT(60)
<1> QED BY <1>1 DEF WorkInv, Busy, Is, Phase

LEMMA DownIsEmpty ==
  ASSUME WorkInv, life # "running"
  PROVE  /\ command = None /\ reload = None /\ ~validating
         /\ jobs = << >> /\ done = << >> /\ commands = << >>
BY DEF WorkInv

\* A startup keeps the drain intent of the uplinks that the file has.
LEMMA IntentRead ==
  ASSUME NEW c \in Configs, NEW names
  PROVE  NamesOf(c, {u[1] : u \in {v \in c : v[2] \in names}}) = names \cap Names(c)
<1> DEFINE ids == {u[1] : u \in {v \in c : v[2] \in names}}
<1>1. \A u \in c, v \in c : u[1] = v[1] <=> u[2] = v[2]
  BY ConfigsAre
<1>2. ASSUME NEW u \in c PROVE u[1] \in ids <=> u[2] \in names
  BY <1>1
<1> HIDE DEF ids
<1>3. ASSUME NEW n PROVE n \in NamesOf(c, ids) <=> n \in names \cap Names(c)
  BY <1>2 DEF NamesOf, Names
<1> QED BY <1>3 DEF ids

LEMMA StartChecksInv ==
  ASSUME IInv, NEW w \in Writes, start_checks(w)
  PROVE  IInv'
<1> DEFINE kept == drain_file \cap Names(file)
<1>1. life = "down" /\ file \in Configs /\ drain_file \subseteq AllNames /\ manifest_file \in Manifests
  BY DEF IInv, TypeOK, start_checks
<1>2. /\ drain_file' = drain_file \/ drain_file' = kept
      /\ w = "written" => drain_file' = kept
  BY DEF start_checks, write_atomic
<1>3. /\ life' = IF w = "written" THEN "starting" ELSE "down"
      /\ cfg' = file /\ drained' = {u[1] : u \in {v \in file : v[2] \in drain_file}}
      /\ unread' = FALSE
      /\ UNCHANGED <<file, hup, edits, hups, manifest_file, command, phases, dirty,
                     planVars, client, answers, lane, done, api>>
  BY DEF start_checks
<1>4. TypeOK'
  <2>1. drained' \subseteq Ids(cfg')
    BY <1>3 DEF Ids
  <2>2. drain_file' \subseteq AllNames /\ life' \in {"down", "starting", "running"} /\ cfg' \in Configs
    BY <1>1, <1>2, <1>3
  <2> QED BY <1>3, <2>1, <2>2 DEF IInv, TypeOK, phases, planVars, client, lane, api
<1>5. WorkInv'
  BY <1>1, <1>3, DownIsEmpty, WorkEmpty DEF IInv, phases, lane, api
<1>6. CommandInv'
  BY <1>1, <1>3, DownIsEmpty, CommandNone DEF IInv
<1>7. BindInv'
  BY <1>1, <1>3 DEF IInv, BindInv, Unique, check, start_checks, lane
<1>8. PlanInv'
  BY <1>3, PlanKept DEF IInv
<1>9. DrainInv'
  <2>1. CASE w = "written"
    <3>1. NamesOf(cfg', drained') = kept
      BY <1>1, <1>3, IntentRead
    <3>2. ~Written'
      <4>1. done' = << >>
        BY <1>1, <1>3, DownIsEmpty DEF IInv
      <4> QED BY <4>1, SMTT(60) DEF Written
    <3> QED BY <1>2, <2>1, <3>1, <3>2 DEF DrainInv
  <2>2. CASE w # "written"
    BY <1>3, <2>2, DrainDown
  <2> QED BY <2>1, <2>2
<1> QED BY <1>4, <1>5, <1>6, <1>7, <1>8, <1>9 DEF IInv

LEMMA StartBindsInv ==
  ASSUME IInv, NEW w \in Writes, start_binds(w)
  PROVE  IInv'
<1> DEFINE bound == bind(manifest_file, cfg)
<1>1. /\ life = "starting" /\ manifest_file \in Manifests /\ cfg \in Configs \cup {{}}
      /\ Unique(manifest_file) /\ Unique(manifest) /\ ~check(manifest_file, cfg) /\ cfg \in Configs
      /\ manifest \in Manifests
  BY DEF IInv, TypeOK, start_binds, BindInv
<1>2. bound \in Manifests /\ Unique(bound) /\ Bound(bound, cfg)
  BY <1>1, BindType, BindUnique, BindBinds
<1> HIDE DEF bound
<1>3. /\ manifest_file' = manifest_file \/ manifest_file' = bound
      /\ w = "written" => manifest_file' = bound
  BY DEF start_binds, write_atomic, bound
<1>4. \/ /\ w = "written" /\ life' = "running" /\ dirty' = TRUE /\ manifest' = bound /\ serving' = cfg
      \/ w # "written" /\ life' = "down" /\ UNCHANGED <<dirty, manifest, serving>>
  BY DEF start_binds, bound
<1>5. UNCHANGED <<outside, drain_file, cfg, drained, command, phases, planVars,
                  client, answers, jobs, done, commands, next>>
  BY DEF start_binds
<1>6. TypeOK'
  BY <1>1, <1>2, <1>3, <1>4, <1>5 DEF IInv, TypeOK, outside, phases, planVars, client
<1>7. WorkInv'
  BY <1>1, <1>5, DownIsEmpty, WorkEmpty DEF IInv, phases
<1>8. CommandInv'
  BY <1>1, <1>5, DownIsEmpty, CommandNone DEF IInv
<1>9. BindInv'
  <2>1. Unique(manifest_file') /\ Unique(manifest')
    BY <1>1, <1>2, <1>3, <1>4
  <2>2. life' = "running" => Bound(manifest', cfg') /\ Bound(manifest_file', cfg')
    BY <1>2, <1>3, <1>4, <1>5
  <2>3. life' # "starting" /\ cfg' \in Configs
    BY <1>1, <1>4, <1>5
  <2> QED BY <2>1, <2>2, <2>3 DEF BindInv, Unique, Bound
<1>10. PlanInv'
  BY <1>5, PlanKept DEF IInv
<1>11. ~LateErrors => DrainInv'
  <2>1. CASE life' = "down"
    BY <2>1, DrainDown
  <2>2. CASE life' = "running"
    BY <1>1, <1>5, <2>2 DEF IInv, DrainInv, Written, Busy, Is, Intended, phases
  <2> QED BY <1>4, <2>1, <2>2
<1> QED BY <1>6, <1>7, <1>8, <1>9, <1>10, <1>11 DEF IInv

LEMMA CrashInv ==
  ASSUME IInv, Crash
  PROVE  IInv'
<1>1. answers' \in Seq(Codes) /\ Len(answers') = Len(answers)
  <2>1. /\ answers \in Seq(Codes) /\ "gone" \in Codes
        /\ answers' = [o \in DOMAIN answers |-> IF answers[o] = "none" THEN "gone" ELSE answers[o]]
    BY DEF IInv, TypeOK, Crash, Waiting, Codes
  <2> QED BY <2>1, SMTT(60)
<1>2. << >> \in Seq(DOMAIN asked) /\ Len(<< >>) = 0 /\ 0 \in Nat /\ 0 \in 0..0 /\ 0 <= 1
  BY SMTT(60)
<1>3. 0 <= ORDER_QUEUE
  BY ConstantsAssumption, SMTT(60) DEF ConstantsAssumption
<1>4. << >> \in Seq([do : {"prepare"}, config : Configs] \cup [do : {"commit", "rollback"}])
  BY SMTT(60)
<1>5. TypeOK'
  BY <1>1, <1>2, <1>3, <1>4 DEF IInv, TypeOK, Crash, disk, Manifests
<1>6. WorkInv'
  BY WorkEmpty DEF Crash
<1>7. CommandInv'
  BY CommandNone DEF Crash
<1>8. BindInv'
  BY DEF IInv, BindInv, Unique, Crash, disk
<1>9. PlanInv' /\ DrainInv'
  BY DrainDown DEF Crash, PlanInv
<1> QED BY <1>5, <1>6, <1>7, <1>8, <1>9 DEF IInv

LEMMA ForgetOfflineInv ==
  ASSUME IInv, NEW name \in AllNames, forget_offline(name)
  PROVE  IInv'
<1>1. life = "down" /\ life' = "down" /\ manifest_file' = forget(manifest_file, name)
  BY DEF forget_offline
<1>2. UNCHANGED <<outside, drain_file, life, cfg, drained, command, phases, dirty,
                  planVars, client, answers, lane, done, api, faults>>
  BY DEF forget_offline
<1>3. manifest_file' \in Manifests /\ Unique(manifest_file')
  BY <1>1, Forgets DEF IInv, TypeOK, BindInv
<1>4. TypeOK'
  BY <1>2, <1>3 DEF IInv, TypeOK, outside, phases, planVars, client, lane, api
<1>5. WorkInv'
  BY <1>1, <1>2, DownIsEmpty, WorkEmpty DEF IInv, phases, lane, api
<1>6. CommandInv'
  BY <1>1, <1>2, DownIsEmpty, CommandNone DEF IInv
<1>7. BindInv'
  BY <1>1, <1>2, <1>3 DEF IInv, BindInv, Unique, lane
<1>8. PlanInv' /\ DrainInv'
  BY <1>1, <1>2, PlanKept, DrainDown DEF IInv
<1> QED BY <1>4, <1>5, <1>6, <1>7, <1>8 DEF IInv
-----------------------------------------------------------------------------
(* The persistence lane. *)

\* Whose job it is.
LEMMA JobOf ==
  ASSUME WorkInv, jobs # << >>
  PROVE  /\ Head(jobs).kind = "drain" =>
              Is(command, {"persisting"}) /\ Head(jobs).state = NamesOf(cfg, Intended)
         /\ Head(jobs).kind = "forget" =>
              Is(command, {"forgetting"}) /\ Head(jobs).name = asked[command.order].name
         /\ Head(jobs).kind = "bind" =>
              /\ Phase("binding")
              /\ Head(jobs).config = reload.config
              /\ Head(jobs).drain = DrainJob(reload.config, reload.drained)
         /\ Head(jobs).kind = "prune" =>
              /\ Phase("binding")
              /\ Head(jobs).state = NamesOf(reload.config, reload.drained)
              /\ Bound(manifest, reload.config) /\ Bound(manifest_file, reload.config)
<1>1. JobOK(Head(jobs))
  BY OneJob
<1> QED BY <1>1 DEF JobOK

\* A job runs only while the daemon does, and nothing else is under way.
LEMMA JobAlone ==
  ASSUME TypeOK, WorkInv, jobs # << >>
  PROVE  life = "running" /\ ~validating /\ ~Prepares /\ done = << >> /\ ~Written
<1>1. life = "running" /\ done = << >> /\ ~Written
  BY NothingWritten DEF WorkInv
<1>2. CASE Busy
  BY <1>1, <1>2 DEF WorkInv, Phase, Prepares
<1>3. CASE Phase("binding")
  BY <1>1, <1>3, Phases DEF WorkInv, Prepares
<1> QED BY <1>1, <1>2, <1>3, OneJob

\* A job that is done is reported.
LEMMA LaneReports ==
  ASSUME TypeOK, WorkInv, jobs # << >>, NEW d, jobs' = Tail(jobs), done' = Append(done, d),
         UNCHANGED <<validating, commands, command, reload, life, cfg, drained>>,
         ReportOK(d)'
  PROVE  /\ WorkInv' /\ Len(jobs') <= 1
         /\ Written' <=> d.kind \in {"drained", "bound"} /\ d.ok
<1>1. jobs' = << >> /\ done' = <<d>>
  BY OneJob, OneElement
<1>2. Len(jobs') <= 1
  <2>1. Len(<< >>) <= 1
    BY SMTT(60)
  <2> QED BY <1>1, <2>1
<1>3. done'[1] = d /\ DOMAIN done' = {1}
  BY <1>1, OneElement
<1>4. Written' <=> d.kind \in {"drained", "bound"} /\ d.ok
  BY <1>3 DEF Written
<1>5. ~validating' /\ ~Prepares' /\ life' = "running"
  BY JobAlone DEF Prepares
<1>6. (Busy => reload = None)' /\ (Phase("binding") => reload.drained = Pruned(reload.config))'
  BY DEF WorkInv, Busy, Is, Phase, Pruned
<1>7. WorkInv'
  BY <1>1, <1>3, <1>5, <1>6 DEF WorkInv, Prepares
<1> QED BY <1>2, <1>4, <1>7

\* How a write ends.
LEMMA WriteEnds ==
  ASSUME NEW w \in Writes
  PROVE  w \in {"written", "failed", "late"} /\ (~LateErrors => w # "late")
BY DEF Writes

LEMMA PersistDrainInv ==
  ASSUME IInv, NEW w \in Writes, persist_drain(w)
  PROVE  IInv'
<1> DEFINE d == [kind |-> "drained", ok |-> w = "written"]
<1>1. /\ jobs # << >> /\ Head(jobs).kind = "drain" /\ jobs' = Tail(jobs)
      /\ done' = Append(done, d)
  BY DEF persist_drain, Runs, Reports
<1>2. UNCHANGED <<outside, manifest_file, life, cfg, drained, command, phases, dirty,
                  planVars, client, answers, manifest, api>>
  BY DEF persist_drain
<1>3. Is(command, {"persisting"}) /\ Head(jobs).state = NamesOf(cfg, Intended)
  BY <1>1, JobOf DEF IInv
<1>4. /\ w = "written" => drain_file' = NamesOf(cfg, Intended)
      /\ w = "failed" => drain_file' = drain_file
      /\ drain_file' = drain_file \/ drain_file' = NamesOf(cfg, Intended)
  BY <1>3 DEF persist_drain, write_atomic
<1>5. d.kind = "drained" /\ (d.ok <=> w = "written")
  OBVIOUS
<1> HIDE DEF d
<1>6. ReportOK(d)'
  BY <1>2, <1>3, <1>5 DEF ReportOK, Is
<1>7. /\ WorkInv' /\ Len(jobs') <= 1
      /\ Written' <=> d.kind \in {"drained", "bound"} /\ d.ok
  BY <1>1, <1>2, <1>6, LaneReports DEF IInv, phases, api
<1>8. TypeOK'
  <2>1. drain_file' \subseteq AllNames
    BY <1>4, NamesOfType DEF IInv, TypeOK
  <2> QED BY <1>2, <1>7, <2>1 DEF IInv, TypeOK, outside, phases, planVars, client, api
<1>9. CommandInv' /\ BindInv' /\ PlanInv'
  BY <1>2, CommandKept, BindKept, PlanKept DEF IInv, client, planVars
<1>10. ASSUME ~LateErrors PROVE DrainInv'
  <2>1. Busy /\ Busy' /\ Intended' = Intended
    BY <1>2, <1>3 DEF Busy, Is, Intended
  <2>2. CASE w = "written"
    BY <1>2, <1>4, <1>5, <1>7, <2>1, <2>2 DEF DrainInv
  <2>3. CASE w = "failed"
    <3>1. ~Written' /\ ~Written
      BY <1>1, <1>5, <1>7, <2>3, JobAlone DEF IInv
    <3> QED BY <1>2, <1>4, <1>10, <2>3, <3>1, DrainSame DEF IInv
  <2> QED BY <1>10, <2>2, <2>3, WriteEnds
<1> QED BY <1>7, <1>8, <1>9, <1>10 DEF IInv

LEMMA PersistPruneInv ==
  ASSUME IInv, NEW w \in Writes, persist_prune(w)
  PROVE  IInv'
<1> DEFINE d == [kind |-> "bound", ok |-> w = "written"]
           names == NamesOf(reload.config, reload.drained)
<1>1. /\ jobs # << >> /\ Head(jobs).kind = "prune" /\ jobs' = Tail(jobs)
      /\ done' = Append(done, d)
  BY DEF persist_prune, Runs, Reports
<1>2. UNCHANGED <<outside, manifest_file, life, cfg, drained, command, phases, dirty,
                  planVars, client, answers, manifest, api>>
  BY DEF persist_prune
<1>3. /\ Phase("binding") /\ Head(jobs).state = names
      /\ Bound(manifest, reload.config) /\ Bound(manifest_file, reload.config)
  BY <1>1, JobOf DEF IInv
<1>4. /\ w = "written" => drain_file' = names
      /\ w = "failed" => drain_file' = drain_file
      /\ drain_file' = drain_file \/ drain_file' = names
  BY <1>3 DEF persist_prune, write_atomic
<1>5. d.kind = "bound" /\ (d.ok <=> w = "written")
  OBVIOUS
<1> HIDE DEF d
<1>6. ReportOK(d)'
  BY <1>2, <1>3, <1>5 DEF ReportOK, Phase, Bound, phases
<1>7. /\ WorkInv' /\ Len(jobs') <= 1
      /\ Written' <=> d.kind \in {"drained", "bound"} /\ d.ok
  BY <1>1, <1>2, <1>6, LaneReports DEF IInv, phases, api
<1>8. TypeOK'
  <2>1. reload.config \in Configs
    BY <1>3, ReloadShapes DEF IInv, TypeOK, Phase
  <2>2. names \subseteq AllNames
    BY <2>1, NamesOfType
  <2>3. drain_file' \subseteq AllNames
    BY <1>4, <2>2 DEF IInv, TypeOK
  <2> QED BY <1>2, <1>7, <2>3 DEF IInv, TypeOK, outside, phases, planVars, client, api
<1>9. CommandInv' /\ BindInv' /\ PlanInv'
  BY <1>2, CommandKept, BindKept, PlanKept DEF IInv, client, planVars
<1>10. ASSUME ~LateErrors PROVE DrainInv'
  <2>1. ~Busy /\ ~Busy' /\ reload' = reload
    BY <1>2, <1>3, Phases DEF IInv, Busy, Is, phases
  <2>2. CASE w = "written"
    BY <1>2, <1>4, <1>5, <1>7, <2>1, <2>2 DEF DrainInv
  <2>3. CASE w = "failed"
    <3>1. ~Written' /\ ~Written
      BY <1>1, <1>5, <1>7, <2>3, JobAlone DEF IInv
    <3> QED BY <1>2, <1>4, <1>10, <2>3, <3>1, DrainSame DEF IInv
  <2> QED BY <1>10, <2>2, <2>3, WriteEnds
<1> QED BY <1>7, <1>8, <1>9, <1>10 DEF IInv

LEMMA PersistForgetInv ==
  ASSUME IInv, NEW w \in Writes, persist_forget(w)
  PROVE  IInv'
<1> DEFINE name == Head(jobs).name
           released == forget(manifest, name)
           ok == forgettable(manifest, name) /\ w = "written"
<1>1. jobs # << >> /\ Head(jobs).kind = "forget" /\ jobs' = Tail(jobs)
  BY DEF persist_forget, Runs
<1>2. UNCHANGED <<outside, drain_file, life, cfg, drained, command, phases, dirty,
                  planVars, client, answers, api>>
  BY DEF persist_forget
<1>3. Is(command, {"forgetting"}) /\ name = asked[command.order].name
  BY <1>1, JobOf DEF IInv
<1>4. name \notin Names(cfg) /\ life = "running"
  BY <1>1, <1>3, JobAlone DEF IInv, CommandInv
<1>5. /\ released \in Manifests /\ Unique(released) /\ Bound(released, cfg)
      /\ \A b \in released : b.name # name
  BY <1>4, Forgets DEF IInv, TypeOK, BindInv
<1>6. PICK d : /\ done' = Append(done, d) /\ d.kind = "forgotten"
               /\ d.ok => manifest_file' = released
               /\ manifest_file' = manifest_file \/ manifest_file' = released
               /\ manifest' = manifest \/ manifest' = released
  <2>1. CASE forgettable(manifest, name)
    BY <2>1 DEF persist_forget, write_atomic, Reports
  <2>2. CASE ~forgettable(manifest, name)
    BY <2>2 DEF persist_forget, Reports
  <2> QED BY <2>1, <2>2
<1> HIDE DEF released
<1>7. ReportOK(d)'
  BY <1>2, <1>3, <1>5, <1>6 DEF ReportOK, Is, client
<1>8. /\ WorkInv' /\ Len(jobs') <= 1
      /\ Written' <=> d.kind \in {"drained", "bound"} /\ d.ok
  BY <1>1, <1>2, <1>6, <1>7, LaneReports DEF IInv, phases, api
<1>9. TypeOK'
  BY <1>2, <1>5, <1>6, <1>8 DEF IInv, TypeOK, outside, phases, planVars, client, api
<1>10. CommandInv' /\ PlanInv'
  BY <1>2, CommandKept, PlanKept DEF IInv, client, planVars
<1>11. BindInv'
  <2>1. Unique(manifest') /\ Unique(manifest_file') /\ Bound(manifest', cfg) /\ Bound(manifest_file', cfg)
    BY <1>4, <1>5, <1>6 DEF IInv, BindInv
  <2>2. life' = "running" /\ cfg' \in Configs /\ cfg' = cfg
    BY <1>2, <1>4 DEF IInv, BindInv
  <2> QED BY <2>1, <2>2 DEF BindInv, Unique, Bound
<1>12. ASSUME ~LateErrors PROVE DrainInv'
  <2>1. ~Written' /\ ~Written
    BY <1>1, <1>6, <1>8, JobAlone DEF IInv
  <2> QED BY <1>2, <1>12, <2>1, DrainSame DEF IInv
<1> QED BY <1>8, <1>9, <1>10, <1>11, <1>12 DEF IInv
\* The drain intent of two configurations that agree and both have the ids.
LEMMA SameIntent ==
  ASSUME NEW c, NEW d, NEW ids, Agree(c, d), ids \subseteq Ids(c), ids \subseteq Ids(d)
  PROVE  NamesOf(c, ids) = NamesOf(d, ids)
<1>1. Agree(d, c)
  BY DEF Agree
<1>2. ids \cap Ids(d) = ids /\ ids \cap Ids(c) = ids
  OBVIOUS
<1>3. NamesOf(d, ids) \subseteq NamesOf(c, ids)
  <2>1. NamesOf(d, ids \cap Ids(d)) \subseteq NamesOf(c, ids)
    BY IntentKept
  <2> QED BY <1>2, <2>1
<1>4. NamesOf(c, ids) \subseteq NamesOf(d, ids)
  <2>1. NamesOf(c, ids \cap Ids(c)) \subseteq NamesOf(d, ids)
    BY <1>1, IntentKept
  <2> QED BY <1>2, <2>1
<1> QED BY <1>3, <1>4

LEMMA PersistBindInv ==
  ASSUME IInv, NEW w \in Writes, persist_bind(w)
  PROVE  IInv'
<1> DEFINE config == reload.config
           kept == reload.drained
           bound == bind(manifest, config)
<1>1. jobs # << >> /\ Head(jobs).kind = "bind"
  BY DEF persist_bind, Runs
<1>2. UNCHANGED <<outside, drain_file, life, cfg, drained, command, phases, dirty,
                  planVars, client, answers, api>>
  BY DEF persist_bind
<1>3. Phase("binding") /\ Head(jobs).config = config /\ Head(jobs).drain = DrainJob(config, kept)
  BY <1>1, JobOf DEF IInv
<1>4. config \in Configs /\ kept = Pruned(config)
  BY <1>3, ReloadShapes DEF IInv, TypeOK, Phase, WorkInv
<1>5. life = "running" /\ done = << >> /\ ~Written /\ ~validating /\ ~Prepares
  BY <1>1, JobAlone DEF IInv
<1>6. /\ Unique(manifest) /\ Unique(manifest_file) /\ Bound(manifest, cfg) /\ Bound(manifest_file, cfg)
      /\ manifest \in Manifests /\ manifest_file \in Manifests
  BY <1>5 DEF IInv, BindInv, TypeOK
<1>7. ~Busy /\ ~Busy' /\ reload' = reload /\ Phase("binding")'
  BY <1>2, <1>3, Phases DEF IInv, Busy, Is, phases, Phase
<1>c. CommandInv' /\ PlanInv'
  BY <1>2, CommandKept, PlanKept DEF IInv, client, planVars
<1>8. CASE check(manifest, config)
  <2> DEFINE d == [kind |-> "bound", ok |-> FALSE]
  <2>1. /\ jobs' = Tail(jobs) /\ done' = Append(done, d)
        /\ UNCHANGED <<manifest_file, manifest, faults>>
    BY <1>3, <1>8 DEF persist_bind, Reports
  <2>2. d.kind = "bound" /\ ~d.ok
    OBVIOUS
  <2> HIDE DEF d
  <2>3. ReportOK(d)'
    BY <1>7, <2>2 DEF ReportOK
  <2>4. /\ WorkInv' /\ Len(jobs') <= 1
        /\ Written' <=> d.kind \in {"drained", "bound"} /\ d.ok
    BY <1>1, <1>2, <2>1, <2>3, LaneReports DEF IInv, phases, api
  <2>5. TypeOK'
    BY <1>2, <2>1, <2>4 DEF IInv, TypeOK, outside, phases, planVars, client, api
  <2>6. BindInv'
    BY <1>2, <2>1, BindKept DEF IInv
  <2>7. ASSUME ~LateErrors PROVE DrainInv'
    BY <1>2, <1>5, <2>2, <2>4, <2>7, DrainSame DEF IInv
  <2> QED BY <1>c, <2>4, <2>5, <2>6, <2>7 DEF IInv
<1>9. CASE ~check(manifest, config)
  <2>1. /\ bound \in Manifests /\ Unique(bound) /\ Bound(bound, cfg) /\ Bound(bound, config)
    BY <1>4, <1>6, <1>9, BindType, BindUnique, BindKeepsBound, BindBinds
  <2>2. /\ write_atomic(w, manifest_file, bound)
        /\ manifest' = IF w = "written" THEN bound ELSE manifest
        /\ IF w = "written" /\ Head(jobs).drain # None
             THEN /\ jobs' = <<[kind |-> "prune", state |-> Head(jobs).drain]>> \o Tail(jobs)
                  /\ UNCHANGED done
             ELSE jobs' = Tail(jobs) /\ Reports("bound", w = "written")
    BY <1>3, <1>9 DEF persist_bind
  <2> HIDE DEF bound
  <2>3. /\ manifest_file' = manifest_file \/ manifest_file' = bound
        /\ w = "written" => manifest_file' = bound /\ manifest' = bound
        /\ manifest' = manifest \/ manifest' = bound
    BY <2>2 DEF write_atomic
  <2>4. BindInv'
    <3>1. Unique(manifest') /\ Unique(manifest_file') /\ Bound(manifest', cfg) /\ Bound(manifest_file', cfg)
      BY <1>6, <2>1, <2>3
    <3>2. life' = "running" /\ cfg' \in Configs /\ cfg' = cfg
      BY <1>2, <1>5 DEF IInv, BindInv
    <3> QED BY <3>1, <3>2 DEF BindInv, Unique, Bound
  <2>5. CASE w = "written" /\ Head(jobs).drain # None
    <3>j. PICK j : j = [kind |-> "prune", state |-> NamesOf(config, kept)]
      OBVIOUS
    <3>1. Head(jobs).drain = NamesOf(config, kept)
      BY <1>3, <2>5 DEF DrainJob
    <3>2. j.kind = "prune" /\ j.state = NamesOf(config, kept)
      BY <3>j
    <3>3. jobs' = <<j>> \o << >> /\ done' = done
      BY <1>1, <2>2, <2>5, <3>j, <3>1, OneJob DEF IInv
    <3>4. <<j>> \o << >> = <<j>>
      BY SMTT(60)
    <3>5. jobs' = <<j>> /\ jobs' # << >> /\ jobs'[1] = j /\ Len(jobs') = 1
      BY <3>3, <3>4, OneElement
    <3>6. JobOK(j)'
      BY <1>7, <2>1, <2>3, <2>5, <3>2 DEF JobOK, Bound
    <3>7. ~validating' /\ ~Prepares' /\ life' = "running" /\ done' = << >>
      BY <1>2, <1>5, <3>3 DEF Prepares, phases, api
    <3>8. WorkInv'
      BY <1>2, <1>4, <1>7, <3>5, <3>6, <3>7 DEF WorkInv, Prepares, Pruned
    <3>9. TypeOK'
      <4>1. Len(jobs') <= 1
        BY <3>5, SMTT(60)
      <4> QED BY <1>2, <2>1, <2>3, <4>1 DEF IInv, TypeOK, outside, phases, planVars, client, api
    <3>10. ASSUME ~LateErrors PROVE DrainInv'
      <4>1. ~Written'
        BY <1>5, <3>3 DEF Written
      <4> QED BY <1>2, <1>5, <3>10, <4>1, DrainSame DEF IInv
    <3> QED BY <1>c, <2>4, <3>8, <3>9, <3>10 DEF IInv
  <2>6. CASE ~(w = "written" /\ Head(jobs).drain # None)
    <3> DEFINE d == [kind |-> "bound", ok |-> w = "written"]
    <3>1. jobs' = Tail(jobs) /\ done' = Append(done, d)
      BY <2>2, <2>6 DEF Reports
    <3>2. d.kind = "bound" /\ (d.ok <=> w = "written")
      OBVIOUS
    <3> HIDE DEF d
    <3>3. ReportOK(d)'
      BY <1>7, <2>1, <2>3, <3>2 DEF ReportOK, Bound
    <3>4. /\ WorkInv' /\ Len(jobs') <= 1
          /\ Written' <=> d.kind \in {"drained", "bound"} /\ d.ok
      BY <1>1, <1>2, <3>1, <3>3, LaneReports DEF IInv, phases, api
    <3>5. TypeOK'
      BY <1>2, <2>1, <2>3, <3>4 DEF IInv, TypeOK, outside, phases, planVars, client, api
    <3>6. ASSUME ~LateErrors PROVE DrainInv'
      <4>1. CASE w # "written"
        BY <1>2, <1>5, <3>2, <3>4, <3>6, <4>1, DrainSame DEF IInv
      <4>2. CASE w = "written"
        <5>1. NamesOf(config, kept) # None
          BY <1>4, NamesOfType, NoneIs
        <5>2. kept = drained
          BY <1>3, <2>6, <4>2, <5>1 DEF DrainJob
        <5>3. drained \subseteq Ids(cfg) /\ drained \subseteq Ids(config)
          BY <1>4, <5>2 DEF IInv, TypeOK, Pruned
        <5>4. Agree(cfg, config)
          BY <2>1, BoundAgree
        <5>5. NamesOf(cfg, drained) = NamesOf(config, drained)
          BY <5>3, <5>4, SameIntent
        <5>6. drain_file = NamesOf(cfg, drained)
          BY <1>5, <3>6 DEF IInv, DrainInv
        <5>7. drain_file' = NamesOf(reload.config, reload.drained)'
          BY <1>2, <1>7, <5>2, <5>5, <5>6
        <5>8. Written'
          BY <3>2, <3>4, <4>2
        <5> QED BY <1>7, <5>7, <5>8 DEF DrainInv
      <4> QED BY <4>1, <4>2
    <3> QED BY <1>c, <2>4, <3>4, <3>5, <3>6 DEF IInv
  <2> QED BY <2>5, <2>6
<1> QED BY <1>8, <1>9
-----------------------------------------------------------------------------
(* Reloads. *)

\* A completion is what is under way.
LEMMA Reported ==
  ASSUME NEW d, jobs' = << >>, done' = <<d>>, ReportOK(d)', ~validating', ~Prepares',
         life' = "running", (Busy => reload = None)',
         (Phase("binding") => reload.drained = Pruned(reload.config))'
  PROVE  /\ WorkInv' /\ Len(jobs') <= 1
         /\ Written' <=> d.kind \in {"drained", "bound"} /\ d.ok
<1>1. Len(<< >>) <= 1
  BY SMTT(60)
<1>2. done'[1] = d /\ DOMAIN done' = {1}
  BY OneElement
<1>3. Written' <=> d.kind \in {"drained", "bound"} /\ d.ok
  BY <1>2 DEF Written
<1>4. WorkInv'
  BY <1>2 DEF WorkInv, Prepares
<1> QED BY <1>1, <1>3, <1>4

\* A validation, and a preparation, is alone under way.
LEMMA ReloadAlone ==
  ASSUME TypeOK, WorkInv, Phase("validating") \/ Phase("preparing")
  PROVE  /\ life = "running" /\ jobs = << >> /\ ~Busy /\ ~Phase("binding")
         /\ Phase("preparing") => ~validating
         /\ Phase("validating") => ~Prepares
<1>1. life = "running"
  BY DEF WorkInv, Phase
<1>2. ~Busy /\ ~Phase("binding") /\ (Phase("preparing") => ~Phase("validating"))
  BY Phases
<1>3. jobs = << >>
  BY <1>2, OneJob
<1>4. Phase("preparing") => ~validating
  BY <1>2 DEF WorkInv
<1>5. Phase("validating") => ~Prepares
  BY <1>2 DEF WorkInv, Prepares
<1> QED BY <1>1, <1>2, <1>3, <1>4, <1>5

LEMMA ValidateInv ==
  ASSUME IInv, NEW ok \in BOOLEAN, validate(ok)
  PROVE  IInv'
<1>1. PICK d : d = [kind |-> "validated", ok |-> ok, config |-> file]
  OBVIOUS
<1>2. d.kind = "validated" /\ d.config \in Configs
  BY <1>1 DEF IInv, TypeOK
<1>3. Phase("validating") /\ done = << >>
  BY DEF validate, IInv, WorkInv
<1>4. life = "running" /\ jobs = << >> /\ ~Busy /\ ~Phase("binding") /\ ~Prepares
  BY <1>3, ReloadAlone DEF IInv
<1>5. /\ ~validating' /\ validating' \in BOOLEAN /\ unread' \in BOOLEAN
      /\ UNCHANGED <<file, hup, edits, hups, disk, life, cfg, drained, command, reload,
                     reload_again, reload_deferred, dirty, planVars, client, answers,
                     lane, api>>
  BY DEF validate
<1>6. done' = <<d>> /\ jobs' = << >>
  BY <1>1, <1>3, <1>4, <1>5, OneElement DEF validate, lane
<1>7. ReportOK(d)'
  BY <1>2, <1>3, <1>5 DEF ReportOK, Phase
<1>8. ~Busy' /\ ~Phase("binding")' /\ ~Prepares' /\ life' = "running"
  BY <1>4, <1>5 DEF Busy, Is, Phase, Prepares, api
<1>9. /\ WorkInv' /\ Len(jobs') <= 1
      /\ Written' <=> d.kind \in {"drained", "bound"} /\ d.ok
  BY <1>5, <1>6, <1>7, <1>8, Reported
<1>10. TypeOK'
  BY <1>5, <1>9 DEF IInv, TypeOK, disk, planVars, client, lane, api
<1>11. CommandInv' /\ BindInv' /\ PlanInv'
  BY <1>5, CommandKept, BindKept, PlanKept DEF IInv, client, planVars, disk, lane
<1>12. ASSUME ~LateErrors PROVE DrainInv'
  BY <1>2, <1>3, <1>5, <1>9, <1>12, NothingWritten, DrainSame DEF IInv, disk
<1> QED BY <1>9, <1>10, <1>11, <1>12 DEF IInv

LEMMA ManagerInv ==
  ASSUME IInv, NEW ok \in BOOLEAN, manager(ok)
  PROVE  IInv'
<1> DEFINE C == [do : {"prepare"}, config : Configs] \cup [do : {"commit", "rollback"}]
           n == Len(commands)
<1>1. commands \in Seq(C) /\ commands # << >> /\ commands' = Tail(commands)
  BY DEF IInv, TypeOK, manager
<1>2. UNCHANGED <<outside, disk, life, cfg, drained, command, phases, dirty, planVars,
                  client, answers, lane>>
  BY DEF manager
<1> HIDE DEF C
<1>3. /\ Head(commands) \in C /\ commands' \in Seq(C) /\ Head(commands) = commands[1]
      /\ 1 \in DOMAIN commands
      /\ n = 1 => commands' = << >>
  BY <1>1, SMTT(60)
<1>4. \A i \in DOMAIN commands' :
         /\ i + 1 \in DOMAIN commands /\ commands'[i] = commands[i + 1]
         /\ i + 1 = n => i = Len(commands')
  BY <1>1, SMTT(60)
<1>5. CASE Head(commands).do = "prepare"
  <2>1. PICK d : d = [kind |-> "prepared", ok |-> ok]
    OBVIOUS
  <2>2. Phase("preparing") /\ n = 1 /\ done = << >>
    BY <1>3, <1>5 DEF IInv, WorkInv
  <2>3. life = "running" /\ jobs = << >> /\ ~Busy /\ ~Phase("binding") /\ ~validating
    BY <2>2, ReloadAlone DEF IInv
  <2>4. /\ next' = (IF ok THEN Head(commands).config ELSE None)
        /\ done' = Append(done, d) /\ UNCHANGED serving
    BY <1>5, <2>1 DEF manager
  <2>5. Head(commands).config \in Configs
    BY <1>3, <1>5, SMTT(60) DEF C
  <2>6. jobs' = << >> /\ done' = <<d>> /\ ~validating' /\ life' = "running"
    BY <1>2, <2>2, <2>3, <2>4, OneElement DEF lane, phases
  <2>7. ~Prepares'
    <3>1. \A i \in DOMAIN << >> : FALSE
      BY SMTT(60)
    <3> QED BY <1>3, <2>2, <3>1 DEF Prepares
  <2>8. ~Busy' /\ ~Phase("binding")'
    BY <1>2, <2>3 DEF Busy, Is, Phase, phases
  <2>9. d.kind = "prepared"
    BY <2>1
  <2>10. ReportOK(d)'
    BY <1>2, <2>2, <2>9 DEF ReportOK, Phase, phases
  <2>11. /\ WorkInv' /\ Len(jobs') <= 1
         /\ Written' <=> d.kind \in {"drained", "bound"} /\ d.ok
    BY <2>6, <2>7, <2>8, <2>10, Reported
  <2>12. TypeOK'
    BY <1>2, <1>3, <2>4, <2>5, <2>11 DEF IInv, TypeOK, outside, disk, phases, planVars, client, lane, C
  <2>13. CommandInv' /\ BindInv' /\ PlanInv'
    BY <1>2, CommandKept, BindKept, PlanKept DEF IInv, client, planVars, disk, lane
  <2>14. ASSUME ~LateErrors PROVE DrainInv'
    BY <1>2, <2>2, <2>9, <2>11, <2>14, NothingWritten, DrainSame DEF IInv, disk
  <2> QED BY <2>11, <2>12, <2>13, <2>14 DEF IInv
<1>6. CASE Head(commands).do # "prepare"
  <2>1. /\ done' = done
        /\ next' = None
        /\ serving' = serving \/ (serving' = next /\ next # None)
    BY <1>6 DEF manager
  <2>2. TypeOK'
    BY <1>2, <1>3, <2>1 DEF IInv, TypeOK, outside, disk, phases, planVars, client, lane, C
  <2>3. UNCHANGED <<jobs, done, validating, command, reload, life, cfg, drained,
                    asked, manifest, manifest_file, drain_file, planVars>>
    BY <1>2, <2>1 DEF disk, phases, client, lane
  <2>4. WorkInv'
    <3>1. Busy' = Busy /\ Intended' = Intended /\ \A p : Phase(p)' = Phase(p)
      BY <2>3 DEF Busy, Is, Intended, Phase
    <3>2. (jobs # << >> => JobOK(jobs[1]))' = (jobs # << >> => JobOK(jobs[1]))
      BY <2>3 DEF JobOK, Is, Intended, Phase, Bound, DrainJob
    <3>3. (done # << >> => ReportOK(done[1]))' = (done # << >> => ReportOK(done[1]))
      BY <2>3 DEF ReportOK, Is, Phase, Bound
    <3>4. (Phase("binding") => reload.drained = Pruned(reload.config))'
      BY <2>3 DEF IInv, WorkInv, Phase, Pruned
    <3>5. \A i \in DOMAIN commands' :
             commands'[i].do = "prepare" =>
                Phase("preparing")' /\ i = Len(commands') /\ done' = << >>
      BY <1>4, <2>3, <3>1 DEF IInv, WorkInv
    <3>6. life = "running"
      BY <1>1 DEF IInv, WorkInv
    <3> QED BY <2>3, <3>1, <3>2, <3>3, <3>4, <3>5, <3>6 DEF IInv, WorkInv
  <2>5. CommandInv' /\ BindInv' /\ PlanInv'
    BY <2>3, CommandKept, BindKept, PlanKept DEF IInv, planVars
  <2>6. ~LateErrors => DrainInv'
    BY <2>3, DrainKept DEF IInv
  <2> QED BY <2>2, <2>4, <2>5, <2>6 DEF IInv
<1> QED BY <1>5, <1>6

LEMMA TakeHupInv ==
  ASSUME IInv, take_hup
  PROVE  IInv'
<1>1. /\ life = "running" /\ hup' \in BOOLEAN
      /\ UNCHANGED <<file, unread, edits, hups, disk, life, cfg, drained, command,
                     dirty, planVars, client, answers, lane, done, api, faults>>
  BY DEF take_hup, Idle
<1>2. start_reload(reload, reload_again, reload_deferred, command)
  BY DEF take_hup
<1>3. PhasesOK
  BY TypeParts DEF IInv
<1>4. CASE reload # None \/ Busy
  <2>1. reload' = reload /\ validating' = validating /\ PhasesOK'
    BY <1>2, <1>3, <1>4 DEF start_reload, Busy, PhasesOK, IInv, WorkInv
  <2>2. TypeOK'
    BY <1>1, <2>1 DEF IInv, TypeOK, PhasesOK, disk, planVars, client, lane, api
  <2> QED BY <1>1, <2>1, <2>2, AllKept DEF disk, client, lane, api
<1>5. CASE reload = None /\ ~Busy
  <2>1. reload' = [phase |-> "validating"] /\ validating' = TRUE /\ PhasesOK'
    BY <1>2, <1>3, <1>5, ValidatingIsPhase DEF start_reload, Busy, PhasesOK
  <2>2. TypeOK'
    BY <1>1, <2>1 DEF IInv, TypeOK, PhasesOK, disk, planVars, client, lane, api
  <2>3. Settled /\ Settled' /\ Free' /\ life' = "running"
    BY <1>1, <1>5, <2>1, Quiet DEF IInv, Settled, Prepares, Free, Busy, Is, lane, api
  <2>4. WorkInv'
    BY <2>3, Resting
  <2>5. CommandInv' /\ BindInv' /\ PlanInv'
    BY <1>1, CommandKept, BindKept, PlanKept DEF IInv, planVars, disk, client, lane
  <2>6. ~Written /\ ~Written'
    BY <1>1, <2>3, NothingWritten DEF Settled, Written
  <2>7. ASSUME ~LateErrors PROVE DrainInv'
    BY <1>1, <2>6, <2>7, DrainSame DEF IInv, disk
  <2> QED BY <2>2, <2>4, <2>5, <2>7 DEF IInv
<1> QED BY <1>4, <1>5
\* The State task handles the one completion.
LEMMA Completed ==
  ASSUME IInv, NEW kind, Completes(kind)
  PROVE  /\ life = "running" /\ done # << >> /\ Head(done).kind = kind
         /\ done' = << >> /\ jobs = << >> /\ ~validating /\ ~Prepares /\ ~Written'
         /\ Written <=> kind \in {"drained", "bound"} /\ Head(done).ok
<1>1. life = "running" /\ done # << >> /\ Head(done).kind = kind /\ done' = Tail(done)
  BY DEF Completes, Idle
<1>2. /\ Tail(done) = << >> /\ jobs = << >> /\ ~validating /\ ~Prepares
      /\ Written <=> Head(done).kind \in {"drained", "bound"} /\ Head(done).ok
  BY <1>1, OneReport DEF IInv
<1>3. done' = << >>
  BY <1>1, <1>2
<1>4. ~Written'
  <2>1. DOMAIN << >> = {}
    BY SMTT(60)
  <2> QED BY <1>3, <2>1 DEF Written
<1> QED BY <1>1, <1>2, <1>3, <1>4

\* A reload that fails ends, and another may begin.
LEMMA FailedReload ==
  ASSUME IInv, ~Busy, ~validating, life' = "running", jobs' = << >>, done' = << >>, ~Prepares',
         reload_failed, UNCHANGED <<asked, cfg, drained, applied_generation>>
  PROVE  /\ WorkInv' /\ CommandInv' /\ PhasesOK' /\ AnswersOK'
         /\ command' \in {None} \cup ActiveCommands
<1>1. PhasesOK /\ AnswersOK /\ command \in {None} \cup ActiveCommands
  BY TypeParts DEF IInv, TypeOK
<1>2. Free' /\ PhasesOK' /\ AnswersOK' /\ (command' = command \/ command' = None)
  BY <1>1, ReloadFailed
<1>3. WorkInv'
  BY <1>2, Resting DEF Settled
<1>4. CommandInv'
  BY <1>2, CommandKept, CommandNone DEF IInv
<1> QED BY <1>1, <1>2, <1>3, <1>4

LEMMA ReloadValidatedInv ==
  ASSUME IInv, reload_validated
  PROVE  IInv'
<1>1. /\ Completes("validated")
      /\ UNCHANGED <<outside, disk, life, cfg, drained, dirty, planVars, client, lane,
                     serving, next, faults>>
  BY DEF reload_validated
<1>2. /\ life = "running" /\ done # << >> /\ Head(done).kind = "validated"
      /\ done' = << >> /\ jobs = << >> /\ ~validating /\ ~Prepares /\ ~Written' /\ ~Written
  BY <1>1, Completed
<1>3. Phase("validating") /\ Head(done).config \in Configs
  BY <1>2, ReportOf DEF IInv
<1>4. ~Busy
  BY <1>3, Phases DEF IInv
<1>5. BindInv' /\ PlanInv'
  BY <1>1, BindKept, PlanKept DEF IInv, disk, lane
<1>6. ASSUME ~LateErrors PROVE DrainInv'
  BY <1>1, <1>2, <1>6, DrainSame DEF IInv, disk
<1>7. CASE Head(done).ok
  <2>1. PICK x : x = Head(done).config
    OBVIOUS
  <2>2. /\ reload' = [phase |-> "preparing", config |-> x]
        /\ commands' = Append(commands, [do |-> "prepare", config |-> x])
        /\ UNCHANGED <<command, answers, reload_again, reload_deferred, validating>>
    BY <1>7, <2>1 DEF reload_validated
  <2>3. reload' \in ReloadPhases /\ reload' # None /\ reload'.phase = "preparing"
    <3>1. {} \in SUBSET AllIds /\ x \in Configs
      BY <1>3, <2>1
    <3>2. reload' \in ReloadPhases
      BY <2>2, <3>1, ShapesArePhases
    <3> QED BY <2>2, <3>2, NoneIs
  <2> DEFINE C == [do : {"prepare"}, config : Configs] \cup [do : {"commit", "rollback"}]
             y == [do |-> "prepare", config |-> x]
  <2>4. y \in C /\ commands \in Seq(C) /\ commands' = Append(commands, y)
    BY <1>3, <2>1, <2>2 DEF IInv, TypeOK
  <2> HIDE DEF C, y
  <2>5. /\ commands' \in Seq(C)
        /\ \A i \in DOMAIN commands' :
              i = Len(commands') \/ (i \in DOMAIN commands /\ commands'[i] = commands[i])
    BY <2>4, SMTT(60)
  <2>6. TypeOK'
    BY <1>1, <2>2, <2>3, <2>5 DEF IInv, TypeOK, outside, disk, planVars, client, lane, C
  <2>7. WorkInv'
    <3>1. Phase("preparing")' /\ ~Phase("binding")'
      BY <2>3 DEF Phase
    <3>2. ~Busy' /\ jobs' = << >> /\ ~validating' /\ life' = "running"
      BY <1>1, <1>2, <1>4, <2>2 DEF Busy, lane
    <3>3. \A i \in DOMAIN commands' : commands'[i].do = "prepare" => i = Len(commands')
      BY <1>2, <2>5 DEF Prepares
    <3> QED BY <1>2, <3>1, <3>2, <3>3 DEF WorkInv
  <2>8. CommandInv'
    BY <1>1, <2>2, CommandKept DEF IInv, client, planVars
  <2> QED BY <1>5, <1>6, <2>6, <2>7, <2>8 DEF IInv
<1>8. CASE ~Head(done).ok
  <2>1. reload_failed /\ commands' = commands
    BY <1>8 DEF reload_validated
  <2>2. ~Prepares' /\ jobs' = << >> /\ life' = "running"
    BY <1>1, <1>2, <2>1 DEF Prepares, lane
  <2>3. /\ WorkInv' /\ CommandInv' /\ PhasesOK' /\ AnswersOK'
        /\ command' \in {None} \cup ActiveCommands
    BY <1>1, <1>2, <1>4, <2>1, <2>2, FailedReload DEF client, planVars
  <2>4. TypeOK'
    BY <1>1, <2>1, <2>3 DEF IInv, TypeOK, PhasesOK, AnswersOK, outside, disk, planVars, client, lane
  <2> QED BY <1>5, <1>6, <2>3, <2>4 DEF IInv
<1> QED BY <1>7, <1>8

\* The ids drained are ids.
LEMMA DrainedIds ==
  ASSUME TypeOK, NEW config
  PROVE  Pruned(config) \in SUBSET AllIds
<1>1. drained \subseteq Ids(cfg) /\ cfg \in Configs \cup {{}}
  BY DEF TypeOK
<1>2. \A u \in cfg : u[1] \in AllIds
  BY <1>1, ConfigsAre
<1> QED BY <1>1, <1>2 DEF Pruned, Ids

LEMMA ApiPreparedInv ==
  ASSUME IInv, NEW full \in BOOLEAN, api_prepared(full)
  PROVE  IInv'
<1>1. /\ Completes("prepared")
      /\ UNCHANGED <<outside, disk, life, cfg, drained, dirty, planVars, client,
                     manifest, serving, next>>
  BY DEF api_prepared
<1>2. /\ life = "running" /\ done # << >> /\ Head(done).kind = "prepared"
      /\ done' = << >> /\ jobs = << >> /\ ~validating /\ ~Prepares /\ ~Written' /\ ~Written
  <2>1. "prepared" \notin {"drained", "bound"}
    OBVIOUS
  <2> QED BY <1>1, <2>1, Completed
<1>3. Phase("preparing") /\ ~Busy
  BY <1>2, ReportOf, Phases DEF IInv
<1>4. BindInv' /\ PlanInv'
  BY <1>1, BindKept, PlanKept DEF IInv, disk
<1>5. ASSUME ~LateErrors PROVE DrainInv'
  BY <1>1, <1>2, <1>5, DrainSame DEF IInv, disk
<1>6. ASSUME reload_failed, jobs' = jobs, ~Prepares',
             commands' \in Seq([do : {"prepare"}, config : Configs] \cup [do : {"commit", "rollback"}])
      PROVE  IInv'
  <2>1. /\ WorkInv' /\ CommandInv' /\ PhasesOK' /\ AnswersOK'
        /\ command' \in {None} \cup ActiveCommands
    BY <1>1, <1>2, <1>3, <1>6, FailedReload DEF client, planVars
  <2>2. TypeOK'
    BY <1>1, <1>6, <2>1 DEF IInv, TypeOK, PhasesOK, AnswersOK, outside, disk, planVars, client
  <2> QED BY <1>4, <1>5, <2>1, <2>2 DEF IInv
<1>7. CASE ~Head(done).ok
  <2>1. reload_failed /\ jobs' = jobs /\ commands' = commands
    BY <1>7 DEF api_prepared
  <2>2. ~Prepares'
    BY <1>2, <2>1 DEF Prepares
  <2> QED BY <1>6, <2>1, <2>2 DEF IInv, TypeOK
<1>8. CASE Head(done).ok /\ full
  <2>1. reload_failed /\ jobs' = jobs /\ commands' = api_command("rollback")
    BY <1>8 DEF api_prepared
  <2>2. /\ ~Prepares'
        /\ commands' \in Seq([do : {"prepare"}, config : Configs] \cup [do : {"commit", "rollback"}])
    BY <1>2, <2>1, ApiCommand DEF IInv, TypeOK
  <2> QED BY <1>6, <2>1, <2>2
<1>9. CASE Head(done).ok /\ ~full
  <2>1. PICK x : x = reload.config
    OBVIOUS
  <2>2. PICK kept : kept = Pruned(reload.config)
    OBVIOUS
  <2>3. PICK j : j = [kind |-> "bind", config |-> x, drain |-> DrainJob(x, kept)]
    OBVIOUS
  <2>4. /\ jobs' = Append(jobs, j)
        /\ reload' = [phase |-> "binding", config |-> x, drained |-> kept]
        /\ UNCHANGED <<command, answers, reload_again, reload_deferred, validating, commands, faults>>
    BY <1>9, <2>1, <2>2, <2>3 DEF api_prepared
  <2>5. x \in Configs /\ kept \in SUBSET AllIds
    <3>1. x \in Configs
      BY <1>3, <2>1, ReloadShapes DEF IInv, TypeOK, Phase
    <3> QED BY <2>2, <3>1, DrainedIds DEF IInv
  <2>6. reload' \in ReloadPhases
    BY <2>4, <2>5, ShapesArePhases
  <2>7. Phase("binding")' /\ reload'.config = x /\ reload'.drained = kept
    BY <2>4, <2>6, NoneIs DEF Phase
  <2>8. jobs' = <<j>> /\ jobs' # << >> /\ jobs'[1] = j /\ Len(jobs') = 1
    BY <1>2, <2>4, OneElement
  <2>9. Len(jobs') <= 1
    BY <2>8, SMTT(60)
  <2>10. DrainJob(x, kept)' = DrainJob(x, kept)
    BY <1>1 DEF DrainJob
  <2>11. JobOK(j)'
    <3>1. j.kind = "bind" /\ j.config = x /\ j.drain = DrainJob(x, kept)
      BY <2>3
    <3>2. j.drain = DrainJob(reload.config, reload.drained)'
      BY <2>7, <2>10, <3>1 DEF DrainJob
    <3> QED BY <2>7, <3>1, <3>2 DEF JobOK
  <2>12. ~Busy' /\ ~validating' /\ ~Prepares' /\ life' = "running"
    BY <1>1, <1>2, <1>3, <2>4 DEF Busy, Prepares
  <2>13. reload'.drained = Pruned(reload.config)'
    BY <1>1, <2>1, <2>2, <2>7 DEF Pruned
  <2>14. WorkInv'
    BY <1>2, <2>8, <2>11, <2>12, <2>13 DEF WorkInv, Prepares
  <2>15. TypeOK'
    BY <1>1, <2>4, <2>6, <2>9 DEF IInv, TypeOK, outside, disk, planVars, client
  <2>16. CommandInv'
    BY <1>1, <2>4, CommandKept DEF IInv, client, planVars
  <2> QED BY <1>4, <1>5, <2>14, <2>15, <2>16 DEF IInv
<1> QED BY <1>7, <1>8, <1>9
\* What a reload leaves of the command in progress.
LEMMA BoundCommand ==
  ASSUME command \in {None} \cup ActiveCommands, ~Busy,
         NEW config, NEW again \in BOOLEAN, NEW c,
         Is(command, {"reloading"}) /\ ~again =>
            c = [kind |-> "applying", order |-> command.order,
                 target |-> None, late |-> FALSE, gone |-> FALSE],
         Is(command, {"applying"}) =>
            c = [command EXCEPT !.gone = command.gone \/ Drops(command.order, config)],
         ~(Is(command, {"reloading"}) /\ ~again) /\ ~Is(command, {"applying"}) => c = command
  PROVE  /\ c \in {None} \cup ActiveCommands /\ ~Is(c, {"persisting", "forgetting"})
         /\ c # None => command # None /\ c.order = command.order
         /\ Is(c, {"reloading"}) => Is(command, {"reloading"})
         /\ Is(c, {"applying"}) =>
              \/ Is(command, {"reloading"}) /\ c.target = None
              \/ /\ Is(command, {"applying"}) /\ c.target = command.target
                 /\ c.gone <=> command.gone \/ Drops(command.order, config)
<1>0. ~Is(command, {"persisting"}) /\ ~Is(command, {"forgetting"})
  BY DEF Busy, Is
<1>1. CASE Is(command, {"reloading"}) /\ ~again
  <2>1. command.order \in 1..MaxOrders /\ command # None
    BY <1>1, CommandShapes DEF Is
  <2>2. c = [kind |-> "applying", order |-> command.order, target |-> None,
             late |-> FALSE, gone |-> FALSE]
    BY <1>1
  <2> DEFINE o == command.order
  <2>3. o \in 1..MaxOrders /\ c = [kind |-> "applying", order |-> o, target |-> None,
                                    late |-> FALSE, gone |-> FALSE]
    BY <2>1, <2>2
  <2> HIDE DEF o
  <2>a. /\ c \in [kind : {"applying"}, order : 1..MaxOrders, target : {None} \cup Nat,
                  late : BOOLEAN, gone : BOOLEAN]
        /\ c.kind = "applying" /\ c.order = o /\ c.target = None
    BY <2>3, SMTT(60)
  <2>b. c \in ActiveCommands
    BY <2>a DEF ActiveCommands
  <2>4. c.kind = "applying" /\ c.order = command.order /\ c.target = None
    BY <2>a DEF o
  <2>5. ~Is(c, {"persisting", "forgetting"}) /\ ~Is(c, {"reloading"})
    BY <2>4 DEF Is
  <2> QED BY <1>1, <2>1, <2>b, <2>4, <2>5
<1>2. CASE Is(command, {"applying"})
  <2> DEFINE z == command.gone \/ Drops(command.order, config)
  <2>1. /\ command \in [kind : {"applying"}, order : 1..MaxOrders, target : {None} \cup Nat,
                        late : BOOLEAN, gone : BOOLEAN]
        /\ command # None /\ ~Is(command, {"reloading"})
    BY <1>2, CommandShapes DEF Is
  <2>2. c = [command EXCEPT !.gone = z] /\ z \in BOOLEAN
    BY <1>2, <2>1
  <2> HIDE DEF z
  <2>3. /\ c \in [kind : {"applying"}, order : 1..MaxOrders, target : {None} \cup Nat,
                  late : BOOLEAN, gone : BOOLEAN]
        /\ c.kind = "applying" /\ c.order = command.order /\ c.target = command.target
        /\ c.gone = z
    BY <2>1, <2>2, SMTT(60)
  <2>4. c \in ActiveCommands
    BY <2>3 DEF ActiveCommands
  <2>5. ~Is(c, {"persisting", "forgetting"}) /\ ~Is(c, {"reloading"})
    BY <2>3 DEF Is
  <2> QED BY <1>2, <2>1, <2>3, <2>4, <2>5 DEF z
<1>3. CASE ~(Is(command, {"reloading"}) /\ ~again) /\ ~Is(command, {"applying"})
  <2>1. c = command
    BY <1>3
  <2>2. ~Is(c, {"persisting", "forgetting"})
    BY <1>0, <2>1 DEF Is
  <2> QED BY <1>3, <2>1, <2>2
<1> QED BY <1>1, <1>2, <1>3

LEMMA ReloadBoundInv ==
  ASSUME IInv, reload_bound
  PROVE  IInv'
<1> DEFINE config == reload.config
<1>1. /\ Completes("bound")
      /\ UNCHANGED <<outside, disk, life, planVars, client, lane, serving, next, faults>>
  BY DEF reload_bound
<1>2. /\ life = "running" /\ done # << >> /\ Head(done).kind = "bound"
      /\ done' = << >> /\ jobs = << >> /\ ~validating /\ ~Prepares /\ ~Written'
      /\ Written <=> Head(done).ok
  <2>1. "bound" \in {"drained", "bound"}
    OBVIOUS
  <2> QED BY <1>1, <2>1, Completed
<1>3. Phase("binding") /\ ~Busy
  BY <1>2, ReportOf, Phases DEF IInv
<1>4. config \in Configs /\ reload.drained = Pruned(config)
  BY <1>3, ReloadShapes DEF IInv, TypeOK, Phase, WorkInv
<1>5. jobs' = << >> /\ life' = "running"
  BY <1>1, <1>2 DEF lane
<1>6. PlanInv'
  BY <1>1, PlanKept DEF IInv
<1>7. CASE Head(done).ok
  <2>1. /\ commands' = api_command("commit") /\ cfg' = config /\ drained' = drained \cap Ids(config)
        /\ dirty' = TRUE /\ end_reload(command') /\ answers' = answers
    BY <1>4, <1>7 DEF reload_bound, Pruned
  <2>2. /\ command' \in {None} \cup ActiveCommands /\ ~Is(command', {"persisting", "forgetting"})
        /\ command' # None => command # None /\ command'.order = command.order
        /\ Is(command', {"reloading"}) => Is(command, {"reloading"})
        /\ Is(command', {"applying"}) =>
             \/ Is(command, {"reloading"}) /\ command'.target = None
             \/ /\ Is(command, {"applying"}) /\ command'.target = command.target
                /\ command'.gone <=> command.gone \/ Drops(command.order, config)
    <3>1. PICK c : c = command'
      OBVIOUS
    <3>2. PICK again : again = reload_again
      OBVIOUS
    <3>3. PICK x : x = config
      OBVIOUS
    <3>4. again \in BOOLEAN /\ command \in {None} \cup ActiveCommands
      BY <3>2 DEF IInv, TypeOK
    <3>5. /\ Is(command, {"reloading"}) /\ ~again =>
               c = [kind |-> "applying", order |-> command.order,
                    target |-> None, late |-> FALSE, gone |-> FALSE]
          /\ Is(command, {"applying"}) =>
               c = [command EXCEPT !.gone = command.gone \/ Drops(command.order, x)]
          /\ ~(Is(command, {"reloading"}) /\ ~again) /\ ~Is(command, {"applying"}) => c = command
      <4>1. Is(command, {"reloading"}) => ~Is(command, {"applying"})
        BY DEF Is
      <4> QED BY <1>7, <3>1, <3>2, <3>3, <4>1 DEF reload_bound
    <3>6. /\ c \in {None} \cup ActiveCommands /\ ~Is(c, {"persisting", "forgetting"})
          /\ c # None => command # None /\ c.order = command.order
          /\ Is(c, {"reloading"}) => Is(command, {"reloading"})
          /\ Is(c, {"applying"}) =>
               \/ Is(command, {"reloading"}) /\ c.target = None
               \/ /\ Is(command, {"applying"}) /\ c.target = command.target
                  /\ c.gone <=> command.gone \/ Drops(command.order, x)
      BY <1>3, <3>4, <3>5, BoundCommand
    <3> QED BY <3>1, <3>3, <3>6
  <2>3. ~Busy'
    BY <2>2 DEF Busy
  <2>4. Free' /\ PhasesOK'
    BY <1>2, <2>1, <2>3, EndReload, TypeParts DEF IInv
  <2>5. /\ ~Prepares'
        /\ commands' \in Seq([do : {"prepare"}, config : Configs] \cup [do : {"commit", "rollback"}])
    <3>1. "commit" \in {"commit", "rollback"}
      OBVIOUS
    <3> QED BY <1>2, <2>1, <3>1, ApiCommand DEF IInv, TypeOK
  <2>6. WorkInv'
    BY <1>2, <1>5, <2>4, <2>5, Resting DEF Settled
  <2>7. TypeOK'
    <3>1. drained' \subseteq Ids(cfg') /\ cfg' \in Configs
      BY <1>4, <2>1
    <3> QED BY <1>1, <2>1, <2>2, <2>4, <2>5, <3>1
            DEF IInv, TypeOK, PhasesOK, outside, disk, planVars, client, lane
  <2>8. /\ Bound(manifest, config) /\ Bound(manifest_file, config) /\ Bound(manifest, cfg)
        /\ Unique(manifest) /\ Unique(manifest_file)
    BY <1>2, <1>7, ReportOf DEF IInv, BindInv
  <2>9. BindInv'
    BY <1>1, <1>4, <1>5, <2>1, <2>8 DEF BindInv, Bound, Unique, disk, lane
  <2>10. CommandInv'
    <3>1. Agree(cfg, config)
      BY <2>8, BoundAgree
    <3>2. drained \subseteq Ids(cfg)
      BY DEF IInv, TypeOK
    <3>3. LET removed == Names(cfg) \ Names(config) IN
          /\ NamesOf(config, drained \cap Ids(config)) \subseteq NamesOf(cfg, drained)
          /\ NamesOf(cfg, drained) \ removed \subseteq NamesOf(config, drained \cap Ids(config))
      BY <3>1, <3>2, IntentKept
    <3>4. \A n \in NamesOf(cfg, drained) :
             n \in Names(config) => n \in NamesOf(config, drained \cap Ids(config))
      BY <3>3
    <3>5. asked' = asked /\ applied_generation' = applied_generation
      BY <1>1 DEF client, planVars
    <3>6. command' # None => command'.order \in DOMAIN asked'
      BY <2>2, <3>5 DEF IInv, CommandInv
    <3>7. Is(command', {"reloading"}) => asked'[command'.order].action = "reload"
      BY <2>2, <3>5 DEF IInv, CommandInv, Is
    <3>8. ~Is(command', {"persisting"}) /\ ~Is(command', {"forgetting"})
      BY <2>2 DEF Is
    <3>9. ASSUME Is(command', {"applying"})
          PROVE  /\ asked[command.order].action \in {"drain", "undrain", "reload"}
                 /\ asked[command.order].action = "drain" =>
                      command'.gone \/ asked[command.order].name \in NamesOf(cfg', drained')
                 /\ asked[command.order].action = "undrain" =>
                      asked[command.order].name \notin NamesOf(cfg', drained')
                 /\ command'.target # None => applied_generation < command'.target
      <4>1. CASE Is(command, {"reloading"}) /\ command'.target = None
        BY <4>1 DEF IInv, CommandInv
      <4>2. CASE /\ Is(command, {"applying"}) /\ command'.target = command.target
                 /\ command'.gone <=> command.gone \/ Drops(command.order, config)
        <5>1. asked[command.order].action = "drain" =>
                command'.gone \/ asked[command.order].name \in NamesOf(cfg', drained')
          BY <2>1, <3>4, <4>2 DEF IInv, CommandInv, Drops
        <5>2. asked[command.order].action = "undrain" =>
                asked[command.order].name \notin NamesOf(cfg', drained')
          BY <2>1, <3>3, <4>2 DEF IInv, CommandInv
        <5> QED BY <4>2, <5>1, <5>2 DEF IInv, CommandInv
      <4> QED BY <2>2, <3>9, <4>1, <4>2
    <3>10. Is(command', {"applying"}) => command'.order = command.order
      BY <2>2 DEF Is
    <3> QED BY <3>5, <3>6, <3>7, <3>8, <3>9, <3>10 DEF CommandInv, Is
  <2>11. ASSUME ~LateErrors PROVE DrainInv'
    <3>1. drain_file = NamesOf(config, reload.drained)
      BY <1>2, <1>3, <1>7, <2>11 DEF IInv, DrainInv
    <3>2. drain_file' = NamesOf(cfg', drained')
      BY <1>1, <1>4, <2>1, <3>1 DEF disk, Pruned
    <3> QED BY <1>2, <3>2 DEF DrainInv
  <2> QED BY <1>6, <2>6, <2>7, <2>9, <2>10, <2>11 DEF IInv
<1>8. CASE ~Head(done).ok
  <2>1. /\ commands' = api_command("rollback") /\ reload_failed
        /\ UNCHANGED <<cfg, drained, dirty>>
    BY <1>8 DEF reload_bound
  <2>2. /\ ~Prepares'
        /\ commands' \in Seq([do : {"prepare"}, config : Configs] \cup [do : {"commit", "rollback"}])
    <3>1. "rollback" \in {"commit", "rollback"}
      OBVIOUS
    <3> QED BY <1>2, <2>1, <3>1, ApiCommand DEF IInv, TypeOK
  <2>3. /\ WorkInv' /\ CommandInv' /\ PhasesOK' /\ AnswersOK'
        /\ command' \in {None} \cup ActiveCommands
    BY <1>1, <1>2, <1>3, <1>5, <2>1, <2>2, FailedReload DEF client, planVars
  <2>4. TypeOK'
    BY <1>1, <2>1, <2>2, <2>3
       DEF IInv, TypeOK, PhasesOK, AnswersOK, outside, disk, planVars, client, lane
  <2>5. BindInv'
    BY <1>1, <2>1, BindKept DEF IInv, disk, lane
  <2>6. ASSUME ~LateErrors PROVE DrainInv'
    BY <1>1, <1>2, <1>8, <2>1, <2>6, DrainSame DEF IInv, disk
  <2> QED BY <1>6, <2>3, <2>4, <2>5, <2>6 DEF IInv
<1> QED BY <1>7, <1>8
-----------------------------------------------------------------------------
(* Commands. *)

\* What start_order leaves alone.
Frame == UNCHANGED <<outside, disk, life, cfg, drained, dirty, planVars, asked, manifest, done, api>>

LEMMA Taken ==
  ASSUME IInv, NEW o \in DOMAIN asked, Takes(o)
  PROVE  /\ life = "running" /\ command = None /\ reload = None
         /\ Settled /\ ~validating /\ ~Written
         /\ orders' \in Seq(DOMAIN asked) /\ Len(orders') <= ORDER_QUEUE
         /\ o \in 1..MaxOrders
<1>1. life = "running" /\ command = None /\ reload = None
  BY DEF Takes, Idle
<1>2. Settled /\ ~validating
  BY <1>1, Quiet DEF IInv, Busy, Is
<1>3. ~Written
  BY <1>2, NothingWritten DEF Settled
<1>4. orders' \in Seq(DOMAIN asked) /\ Len(orders') <= ORDER_QUEUE
  <2> DEFINE D == DOMAIN asked
  <2>1. orders \in Seq(D) /\ Len(orders) <= ORDER_QUEUE /\ orders # << >> /\ orders' = Tail(orders)
    BY DEF IInv, TypeOK, Takes
  <2>2. ORDER_QUEUE \in Nat
    BY ConstantsAssumption DEF ConstantsAssumption
  <2> HIDE DEF D
  <2>3. orders' \in Seq(D) /\ Len(orders') <= ORDER_QUEUE
    BY <2>1, <2>2, SMTT(60)
  <2> QED BY <2>3 DEF D
<1>5. o \in 1..MaxOrders
  <2>1. asked \in Seq(Requests) /\ Len(asked) <= MaxOrders /\ MaxOrders \in Nat
    BY ConstantsAssumption DEF IInv, TypeOK, ConstantsAssumption
  <2> QED BY <2>1, SMTT(60)
<1> QED BY <1>1, <1>2, <1>3, <1>4, <1>5

\* An order that starts nothing.
LEMMA NothingStarted ==
  ASSUME IInv, NEW o \in DOMAIN asked, Takes(o), Frame, AnswersOK', UNCHANGED <<command, phases, jobs>>
  PROVE  IInv'
<1>1. orders' \in Seq(DOMAIN asked) /\ Len(orders') <= ORDER_QUEUE
  BY Taken
<1>2. TypeOK'
  BY <1>1 DEF IInv, TypeOK, AnswersOK, Frame, outside, disk, phases, planVars, api
<1> QED BY <1>2, AllKept DEF Frame, disk, phases, planVars, api

LEMMA RefusedInv ==
  ASSUME IInv, NEW o \in DOMAIN asked, Takes(o), Frame, NEW code \in Codes, Refuses(o, code)
  PROVE  IInv'
<1>1. AnswersOK'
  BY AnswersTold, TypeParts DEF IInv, Refuses, Frame
<1> QED BY <1>1, NothingStarted DEF Refuses

\* A command in progress that the lane is to write.
LEMMA PersistsInv ==
  ASSUME IInv, NEW o \in DOMAIN asked, Takes(o), Frame, NEW full \in BOOLEAN, NEW job, NEW c,
         Persists(o, job, c, full),
         c \in ActiveCommands, c.kind \in {"persisting", "forgetting"},
         command' = c => JobOK(job)' /\ CommandInv'
  PROVE  IInv'
<1>0. AnswersOK
  BY TypeParts DEF IInv
<1>1. CASE full
  <2>1. "503" \in Codes
    BY DEF Codes
  <2>2. AnswersOK'
    BY <1>0, <1>1, <2>1, AnswersTold DEF Persists, Frame
  <2> QED BY <1>1, <2>2, NothingStarted DEF Persists
<1>2. CASE ~full
  <2>1. jobs' = Append(jobs, job) /\ command' = c /\ UNCHANGED <<answers, phases, faults>>
    BY <1>2 DEF Persists
  <2>2. /\ life = "running" /\ command = None /\ reload = None
        /\ Settled /\ ~validating /\ ~Written
        /\ orders' \in Seq(DOMAIN asked) /\ Len(orders') <= ORDER_QUEUE
    BY Taken
  <2>3. jobs' = <<job>> /\ jobs' # << >> /\ jobs'[1] = job /\ Len(jobs') = 1
    BY <2>1, <2>2, OneElement DEF Settled
  <2>4. Len(jobs') <= 1
    BY <2>3, SMTT(60)
  <2>5. TypeOK'
    BY <2>1, <2>2, <2>4 DEF IInv, TypeOK, Frame, outside, disk, phases, planVars, api
  <2>6. reload' = None /\ ~validating' /\ ~Prepares' /\ done' = << >> /\ life' = "running"
    BY <2>1, <2>2 DEF Frame, phases, api, Settled, Prepares
  <2>7. WorkInv'
    BY <2>1, <2>3, <2>6 DEF WorkInv, Phase, Prepares
  <2>8. BindInv' /\ PlanInv'
    BY BindKept, PlanKept DEF IInv, Frame, disk
  <2>9. ~Written'
    BY <2>2 DEF Written, Frame
  <2>10. ASSUME ~LateErrors PROVE DrainInv'
    BY <2>2, <2>9, <2>10, DrainSame DEF IInv, Frame, disk
  <2> QED BY <2>1, <2>5, <2>7, <2>8, <2>10 DEF IInv
<1> QED BY <1>1, <1>2

\* The id of a configured name.
LEMMA IdOfName ==
  ASSUME NEW c \in Configs \cup {{}}, NEW n \in Names(c)
  PROVE  LET id == CHOOSE i \in AllIds : <<i, n>> \in c IN
         id \in AllIds /\ <<id, n>> \in c
<1>1. PICK u \in c : u[2] = n
  BY DEF Names
<1>2. u[1] \in AllIds /\ u = <<u[1], u[2]>>
  BY ConfigsAre
<1>3. u[1] \in AllIds /\ <<u[1], n>> \in c
  BY <1>1, <1>2
<1> QED BY <1>3

LEMMA StartDrainInv ==
  ASSUME IInv, NEW o \in DOMAIN asked, Takes(o), Frame, NEW full \in BOOLEAN, NEW drain \in BOOLEAN,
         asked[o].action = (IF drain THEN "drain" ELSE "undrain"), start_drain(o, drain, full)
  PROVE  IInv'
<1>1. PICK n : n = asked[o].name
  OBVIOUS
<1>2. PICK id : id = CHOOSE i \in AllIds : <<i, n>> \in cfg
  OBVIOUS
<1>3. PICK last : last = (drain /\ ~asked[o].force /\ LastCandidate(id))
  OBVIOUS
<1>4. PICK ids : ids = IF drain THEN drained \cup {id} ELSE drained \ {id}
  OBVIOUS
<1>5. PICK job : job = [kind |-> "drain", state |-> NamesOf(cfg, ids)]
  OBVIOUS
<1>6. PICK c : c = [kind |-> "persisting", order |-> o, id |-> id, drain |-> drain]
  OBVIOUS
<1>7. "404" \in Codes /\ "409" \in Codes
  BY DEF Codes
<1>8. CASE n \notin Names(cfg)
  <2>1. Refuses(o, "404")
    BY <1>1, <1>8 DEF start_drain
  <2> QED BY <1>7, <2>1, RefusedInv
<1>9. CASE n \in Names(cfg) /\ last
  <2>1. Refuses(o, "409")
    BY <1>1, <1>2, <1>3, <1>9 DEF start_drain
  <2> QED BY <1>7, <2>1, RefusedInv
<1>10. CASE n \in Names(cfg) /\ ~last
  <2>1. Persists(o, job, c, full)
    BY <1>1, <1>2, <1>3, <1>4, <1>5, <1>6, <1>10 DEF start_drain
  <2>2. id \in AllIds /\ <<id, n>> \in cfg
    BY <1>2, <1>10, IdOfName DEF IInv, TypeOK
  <2>3. o \in 1..MaxOrders
    BY Taken
  <2>4. c \in [kind : {"persisting"}, order : 1..MaxOrders, id : AllIds, drain : BOOLEAN]
    BY <1>6, <2>2, <2>3
  <2>5. c \in ActiveCommands /\ c # None
    BY <2>4, NoneIs DEF ActiveCommands
  <2>6. c.kind = "persisting" /\ c.order = o /\ c.id = id /\ c.drain = drain
    BY <1>6
  <2>7. job.kind = "drain" /\ job.state = NamesOf(cfg, ids)
    BY <1>5
  <2>8. ASSUME command' = c PROVE JobOK(job)' /\ CommandInv'
    <3>1. /\ asked' = asked /\ cfg' = cfg /\ drained' = drained
          /\ Is(command', {"persisting"})
      BY <2>5, <2>6, <2>8 DEF Frame, Is
    <3>2. Intended' = ids
      BY <1>4, <2>6, <2>8, <3>1 DEF Intended
    <3>3. JobOK(job)'
      BY <2>7, <3>1, <3>2 DEF JobOK
    <3>4. ~Is(command', {"forgetting"}) /\ ~Is(command', {"reloading"}) /\ ~Is(command', {"applying"})
      BY <2>6, <2>8 DEF Is
    <3>5. CommandInv'
      BY <1>1, <2>2, <2>6, <2>8, <3>1, <3>4 DEF CommandInv
    <3> QED BY <3>3, <3>5
  <2> QED BY <2>1, <2>5, <2>6, <2>8, PersistsInv
<1> QED BY <1>8, <1>9, <1>10

LEMMA StartForgetInv ==
  ASSUME IInv, NEW o \in DOMAIN asked, Takes(o), Frame, NEW full \in BOOLEAN,
         asked[o].action = "forget", start_forget(o, full)
  PROVE  IInv'
<1>1. PICK n : n = asked[o].name
  OBVIOUS
<1>2. PICK job : job = [kind |-> "forget", name |-> n]
  OBVIOUS
<1>3. PICK c : c = [kind |-> "forgetting", order |-> o]
  OBVIOUS
<1>4. CASE n \in Names(cfg)
  <2>1. Refuses(o, "409") /\ "409" \in Codes
    BY <1>1, <1>4 DEF start_forget, Codes
  <2> QED BY <2>1, RefusedInv
<1>5. CASE n \notin Names(cfg)
  <2>1. Persists(o, job, c, full)
    BY <1>1, <1>2, <1>3, <1>5 DEF start_forget
  <2>2. o \in 1..MaxOrders
    BY Taken
  <2>3. c \in [kind : {"reloading", "forgetting"}, order : 1..MaxOrders]
    BY <1>3, <2>2
  <2>4. c \in ActiveCommands /\ c # None
    BY <2>3, NoneIs DEF ActiveCommands
  <2>5. c.kind = "forgetting" /\ c.order = o /\ job.kind = "forget" /\ job.name = n
    BY <1>2, <1>3
  <2>6. ASSUME command' = c PROVE JobOK(job)' /\ CommandInv'
    <3>1. asked' = asked /\ cfg' = cfg /\ Is(command', {"forgetting"})
      BY <2>4, <2>5, <2>6 DEF Frame, Is
    <3>2. JobOK(job)'
      BY <1>1, <2>5, <2>6, <3>1 DEF JobOK
    <3>3. ~Is(command', {"persisting"}) /\ ~Is(command', {"reloading"}) /\ ~Is(command', {"applying"})
      BY <2>5, <2>6 DEF Is
    <3>4. CommandInv'
      BY <1>1, <1>5, <2>5, <2>6, <3>1, <3>3 DEF CommandInv
    <3> QED BY <3>2, <3>4
  <2> QED BY <2>1, <2>4, <2>5, <2>6, PersistsInv
<1> QED BY <1>4, <1>5

LEMMA StartOrderInv ==
  ASSUME IInv, NEW o \in DOMAIN asked, NEW full \in BOOLEAN, start_order(o, full)
  PROVE  IInv'
<1>1. Takes(o) /\ Frame
  BY DEF start_order, Frame
<1>2. CASE UNCHANGED <<command, phases, jobs, answers, faults>>
  <2>1. AnswersOK'
    BY <1>1, <1>2, TypeParts DEF IInv, AnswersOK, Frame
  <2> QED BY <1>1, <1>2, <2>1, NothingStarted
<1>3. CASE Asks(o, "drain") /\ start_drain(o, TRUE, full)
  <2>1. asked[o].action = (IF TRUE THEN "drain" ELSE "undrain") /\ TRUE \in BOOLEAN
    BY <1>3 DEF Asks
  <2> QED BY <1>1, <1>3, <2>1, StartDrainInv
<1>4. CASE Asks(o, "undrain") /\ start_drain(o, FALSE, full)
  <2>1. asked[o].action = (IF FALSE THEN "drain" ELSE "undrain") /\ FALSE \in BOOLEAN
    BY <1>4 DEF Asks
  <2> QED BY <1>1, <1>4, <2>1, StartDrainInv
<1>5. CASE Asks(o, "forget") /\ start_forget(o, full)
  BY <1>1, <1>5, StartForgetInv DEF Asks
<1>6. CASE /\ Asks(o, "reload")
           /\ command' = [kind |-> "reloading", order |-> o]
           /\ start_reload(reload, reload_again, reload_deferred, command')
           /\ UNCHANGED <<jobs, answers, faults>>
  <2>1. /\ life = "running" /\ command = None /\ reload = None
        /\ Settled /\ ~validating /\ ~Written
        /\ orders' \in Seq(DOMAIN asked) /\ Len(orders') <= ORDER_QUEUE
        /\ o \in 1..MaxOrders
    BY <1>1, Taken
  <2>2. command'.kind = "reloading" /\ command'.order = o
    BY <1>6
  <2>3. command' \in [kind : {"reloading", "forgetting"}, order : 1..MaxOrders]
    BY <1>6, <2>1
  <2>4. command' \in ActiveCommands
    BY <2>3 DEF ActiveCommands
  <2>5. ~Is(command', {"persisting", "forgetting"}) /\ ~Busy'
    BY <2>2 DEF Is, Busy
  <2>6. /\ reload' = [phase |-> "validating"] /\ validating' = TRUE
        /\ reload_again' = reload_again /\ reload_deferred' = reload_deferred
    BY <1>6, <2>1, <2>5 DEF start_reload
  <2>7. Free' /\ Settled' /\ life' = "running"
    BY <1>1, <1>6, <2>1, <2>5, <2>6 DEF Free, Settled, Prepares, Frame, api
  <2>8. WorkInv'
    BY <2>7, Resting
  <2>9. TypeOK'
    BY <1>1, <1>6, <2>1, <2>4, <2>6, ValidatingIsPhase
       DEF IInv, TypeOK, Frame, outside, disk, planVars, api
  <2>10. CommandInv'
    <3>1. ~Is(command', {"persisting"}) /\ ~Is(command', {"forgetting"}) /\ ~Is(command', {"applying"})
      BY <2>2 DEF Is
    <3>2. asked' = asked /\ asked[o].action = "reload"
      BY <1>1, <1>6 DEF Frame, Asks
    <3> QED BY <2>2, <3>1, <3>2 DEF CommandInv
  <2>11. BindInv' /\ PlanInv'
    BY <1>1, BindKept, PlanKept DEF IInv, Frame, disk
  <2>12. ~Written'
    BY <1>1, <2>1 DEF Written, Frame
  <2>13. ASSUME ~LateErrors PROVE DrainInv'
    BY <1>1, <2>1, <2>12, <2>13, DrainSame DEF IInv, Frame, disk
  <2> QED BY <2>8, <2>9, <2>10, <2>11, <2>13 DEF IInv
<1> QED BY <1>2, <1>3, <1>4, <1>5, <1>6 DEF start_order
LEMMA ForgottenInv ==
  ASSUME IInv, forgotten
  PROVE  IInv'
<1>1. /\ Completes("forgotten") /\ command' = None /\ intent_written(command')
      /\ answers' = Told(command.order, IF Head(done).ok THEN "200" ELSE "409")
      /\ UNCHANGED <<outside, disk, life, cfg, drained, dirty, planVars, client, lane, api, faults>>
  BY DEF forgotten
<1>2. /\ life = "running" /\ done # << >> /\ Head(done).kind = "forgotten"
      /\ done' = << >> /\ jobs = << >> /\ ~validating /\ ~Prepares /\ ~Written' /\ ~Written
  <2>1. "forgotten" \notin {"drained", "bound"}
    OBVIOUS
  <2> QED BY <1>1, <2>1, Completed
<1>3. Busy /\ reload = None
  <2>1. Busy
    BY <1>2, ReportOf DEF IInv, Busy, Is
  <2> QED BY <2>1 DEF IInv, WorkInv
<1>4. ~Busy'
  BY <1>1 DEF Busy, Is
<1>5. Free' /\ PhasesOK'
  BY <1>1, <1>2, <1>3, <1>4, IntentWritten, TypeParts DEF IInv
<1>6. WorkInv'
  BY <1>1, <1>2, <1>5, Resting DEF Settled, Prepares, lane, api
<1>7. AnswersOK'
  <2>1. (IF Head(done).ok THEN "200" ELSE "409") \in Codes
    BY DEF Codes
  <2>2. asked' = asked
    BY <1>1 DEF client
  <2> QED BY <1>1, <2>1, <2>2, AnswersTold, TypeParts DEF IInv
<1>8. TypeOK'
  BY <1>1, <1>5, <1>7 DEF IInv, TypeOK, PhasesOK, AnswersOK, outside, disk, planVars, client, lane, api
<1>9. CommandInv' /\ BindInv' /\ PlanInv'
  BY <1>1, CommandNone, BindKept, PlanKept DEF IInv, disk, lane
<1>10. ASSUME ~LateErrors PROVE DrainInv'
  BY <1>1, <1>2, <1>10, DrainSame DEF IInv, disk
<1> QED BY <1>6, <1>8, <1>9, <1>10 DEF IInv

LEMMA DrainWrittenInv ==
  ASSUME IInv, drain_written
  PROVE  IInv'
<1>1. /\ Completes("drained") /\ intent_written(command')
      /\ UNCHANGED <<outside, disk, life, cfg, planVars, client, lane, api, faults>>
  BY DEF drain_written
<1>2. /\ life = "running" /\ done # << >> /\ Head(done).kind = "drained"
      /\ done' = << >> /\ jobs = << >> /\ ~validating /\ ~Prepares /\ ~Written'
      /\ Written <=> Head(done).ok
  <2>1. "drained" \in {"drained", "bound"}
    OBVIOUS
  <2> QED BY <1>1, <2>1, Completed
<1>3. Is(command, {"persisting"})
  BY <1>2, ReportOf DEF IInv
<1>4. Busy /\ reload = None
  <2>1. Busy
    BY <1>3 DEF Busy, Is
  <2> QED BY <2>1 DEF IInv, WorkInv
<1>5. PhasesOK /\ AnswersOK
  BY TypeParts DEF IInv
<1>6. ASSUME ~Busy' PROVE WorkInv' /\ PhasesOK'
  <2>1. Free' /\ PhasesOK'
    BY <1>1, <1>2, <1>4, <1>5, <1>6, IntentWritten
  <2> QED BY <1>1, <1>2, <2>1, Resting DEF Settled, Prepares, lane, api
<1>7. BindInv' /\ PlanInv'
  BY <1>1, BindKept, PlanKept DEF IInv, disk, lane
<1>8. CASE Head(done).ok
  <2> DEFINE o == command.order
  <2>1. /\ drained' = Intended /\ dirty' = TRUE /\ answers' = answers
        /\ command' = [kind |-> "applying", order |-> command.order,
                       target |-> None, late |-> FALSE, gone |-> FALSE]
    BY <1>8 DEF drain_written, Intended
  <2>2. command.order \in 1..MaxOrders /\ command.drain \in BOOLEAN
    <3>1. command \in [kind : {"persisting"}, order : 1..MaxOrders, id : AllIds, drain : BOOLEAN]
      BY <1>3, CommandShapes DEF IInv, TypeOK
    <3> QED BY <3>1
  <2>3. o \in 1..MaxOrders /\ command' = [kind |-> "applying", order |-> o, target |-> None,
                                          late |-> FALSE, gone |-> FALSE]
    BY <2>1, <2>2
  <2> HIDE DEF o
  <2>4. /\ command' \in [kind : {"applying"}, order : 1..MaxOrders, target : {None} \cup Nat,
                         late : BOOLEAN, gone : BOOLEAN]
        /\ command'.kind = "applying" /\ command'.order = o /\ command'.target = None
    BY <2>3, SMTT(60)
  <2>5. command' \in ActiveCommands
    BY <2>4 DEF ActiveCommands
  <2>6. ~Is(command', {"persisting"}) /\ ~Is(command', {"forgetting"}) /\ ~Is(command', {"reloading"}) /\ ~Busy'
    BY <2>4 DEF Is, Busy
  <2>7. WorkInv' /\ PhasesOK'
    BY <1>6, <2>6
  <2>8. /\ asked[o].action = (IF command.drain THEN "drain" ELSE "undrain")
        /\ <<command.id, asked[o].name>> \in cfg /\ o \in DOMAIN asked
    BY <1>3 DEF IInv, CommandInv, o, Is
  <2>9. TypeOK'
    <3>1. command.id \in Ids(cfg)
      <4>1. <<command.id, asked[o].name>>[1] = command.id
        BY SMTT(60)
      <4> QED BY <2>8, <4>1 DEF Ids
    <3>2. drained' \subseteq Ids(cfg')
      BY <1>1, <2>1, <3>1 DEF IInv, TypeOK, Intended
    <3> QED BY <1>1, <2>1, <2>5, <2>7, <3>2
            DEF IInv, TypeOK, PhasesOK, outside, disk, planVars, client, lane, api
  <2>10. CommandInv'
    <3> DEFINE n == asked[o].name
               i == command.id
    <3>0. /\ asked[o].action = "drain" => drained' = drained \cup {i}
          /\ asked[o].action = "undrain" => drained' = drained \ {i}
      BY <2>1, <2>8 DEF Intended
    <3>1. <<i, n>> \in cfg
      BY <2>8
    <3> HIDE DEF n, i
    <3>2. \A u \in cfg : u[2] = n <=> u[1] = i
      <4>1. <<i, n>>[1] = i /\ <<i, n>>[2] = n
        BY SMTT(60)
      <4> QED BY <3>1, <4>1, ConfigsAre DEF IInv, TypeOK
    <3>3. n \in NamesOf(cfg, drained \cup {i})
      <4>1. <<i, n>>[1] = i /\ <<i, n>>[2] = n
        BY SMTT(60)
      <4> QED BY <3>1, <4>1 DEF NamesOf
    <3>4. n \notin NamesOf(cfg, drained \ {i})
      BY <3>2 DEF NamesOf
    <3>5. asked' = asked /\ cfg' = cfg
      BY <1>1 DEF client
    <3> QED BY <2>4, <2>6, <2>8, <3>0, <3>3, <3>4, <3>5 DEF CommandInv, n
  <2>11. ASSUME ~LateErrors PROVE DrainInv'
    <3>1. drain_file = NamesOf(cfg, Intended)
      BY <1>2, <1>4, <1>8, <2>11 DEF IInv, DrainInv
    <3> QED BY <1>1, <1>2, <2>1, <3>1 DEF DrainInv, disk
  <2> QED BY <1>7, <2>7, <2>9, <2>10, <2>11 DEF IInv
<1>9. CASE ~Head(done).ok
  <2>1. answers' = Told(command.order, "500") /\ command' = None /\ UNCHANGED <<drained, dirty>>
    BY <1>9 DEF drain_written
  <2>2. ~Busy'
    BY <2>1 DEF Busy, Is
  <2>3. WorkInv' /\ PhasesOK'
    BY <1>6, <2>2
  <2>4. AnswersOK'
    <3>1. "500" \in Codes /\ asked' = asked
      BY <1>1 DEF Codes, client
    <3> QED BY <1>5, <2>1, <3>1, AnswersTold
  <2>5. TypeOK'
    BY <1>1, <2>1, <2>3, <2>4
       DEF IInv, TypeOK, PhasesOK, AnswersOK, outside, disk, planVars, client, lane, api
  <2>6. CommandInv'
    BY <2>1, CommandNone
  <2>7. ASSUME ~LateErrors PROVE DrainInv'
    BY <1>1, <1>2, <1>9, <2>1, <2>7, DrainSame DEF IInv, disk
  <2> QED BY <1>7, <2>3, <2>5, <2>6, <2>7 DEF IInv
<1> QED BY <1>8, <1>9

\* A step that changes the command in progress only while it is being applied.
LEMMA WorkApplying ==
  ASSUME WorkInv, life = "running",
         ~Is(command, {"applying"}) => command' = command,
         Is(command, {"applying"}) => command' = None \/ Is(command', {"applying"}),
         UNCHANGED <<jobs, done, validating, commands, reload, life, cfg, drained, asked,
                     manifest, manifest_file>>
  PROVE  WorkInv' /\ (Busy' <=> Busy) /\ (Busy => Intended' = Intended)
<1>1. CASE ~Is(command, {"applying"})
  <2>1. command' = command
    BY <1>1
  <2>2. Busy' = Busy /\ Intended' = Intended
    BY <2>1 DEF Busy, Is, Intended
  <2>3. WorkInv'
    BY <2>1, WorkKept
  <2> QED BY <2>2, <2>3
<1>2. CASE Is(command, {"applying"})
  <2>1. ~Is(command, {"persisting"}) /\ ~Is(command, {"forgetting"}) /\ ~Busy
    BY <1>2 DEF Is, Busy
  <2>2. ~Is(command', {"persisting"}) /\ ~Is(command', {"forgetting"}) /\ ~Busy'
    BY <1>2 DEF Is, Busy
  <2>3. \A p : Phase(p)' = Phase(p)
    BY DEF Phase
  <2>4. (jobs # << >> => JobOK(jobs[1])) => (jobs # << >> => JobOK(jobs[1]))'
    BY <2>1, <2>3 DEF JobOK, Bound, DrainJob
  <2>5. (done # << >> => ReportOK(done[1])) => (done # << >> => ReportOK(done[1]))'
    BY <2>1, <2>3 DEF ReportOK, Bound
  <2>6. (Phase("binding") => reload.drained = Pruned(reload.config))'
    BY DEF WorkInv, Phase, Pruned
  <2>7. WorkInv'
    BY <2>1, <2>2, <2>3, <2>4, <2>5, <2>6 DEF WorkInv
  <2> QED BY <2>1, <2>2, <2>7
<1> QED BY <1>1, <1>2

LEMMA DrainApplying ==
  ASSUME DrainInv, Busy' <=> Busy, Busy => Intended' = Intended,
         UNCHANGED <<life, done, drain_file, cfg, drained, reload>>
  PROVE  DrainInv'
<1>1. Written' = Written
  BY DEF Written
<1> QED BY <1>1 DEF DrainInv

\* A command that is being applied keeps its order.
Applying == [kind : {"applying"}, order : 1..MaxOrders, target : {None} \cup Nat,
             late : BOOLEAN, gone : BOOLEAN]

LEMMA ApplyingIs ==
  ASSUME NEW c \in Applying
  PROVE  c \in ActiveCommands /\ Is(c, {"applying"}) /\ c.kind = "applying" /\ c # None
<1>1. c \in ActiveCommands
  BY DEF ActiveCommands, Applying
<1>2. c.kind = "applying"
  BY DEF Applying
<1> QED BY <1>1, <1>2, NoneIs DEF Is

LEMMA Late ==
  ASSUME NEW c \in Applying, NEW z \in BOOLEAN
  PROVE  LET e == [c EXCEPT !.late = z] IN
         e \in Applying /\ e.order = c.order /\ e.target = c.target /\ e.gone = c.gone
BY SMTT(60) DEF Applying

LEMMA WithTarget ==
  ASSUME NEW c \in Applying, NEW t \in {None} \cup Nat
  PROVE  LET e == [c EXCEPT !.target = t] IN
         e \in Applying /\ e.order = c.order /\ e.target = t /\ e.gone = c.gone
BY SMTT(60) DEF Applying

LEMMA CommandWaitedInv ==
  ASSUME IInv, command_waited
  PROVE  IInv'
<1>1. /\ life = "running" /\ Is(command, {"applying"}) /\ command' = [command EXCEPT !.late = TRUE]
      /\ dirty' = TRUE
      /\ UNCHANGED <<outside, disk, life, cfg, drained, phases, planVars, client,
                     answers, lane, done, api, faults>>
  BY DEF command_waited, Idle
<1>2. command \in Applying
  BY <1>1, CommandShapes DEF IInv, TypeOK, Applying
<1>3. /\ command' \in Applying /\ command'.order = command.order
      /\ command'.target = command.target /\ command'.gone = command.gone
  BY <1>1, <1>2, Late
<1>4. command' \in ActiveCommands /\ command'.kind = "applying"
  BY <1>3, ApplyingIs
<1>5. Is(command', {"applying"})
  BY <1>3, ApplyingIs
<1>6. WorkInv' /\ (Busy' <=> Busy) /\ (Busy => Intended' = Intended)
  BY <1>1, <1>5, WorkApplying DEF IInv, disk, phases, client, lane, api
<1>7. TypeOK'
  BY <1>1, <1>4 DEF IInv, TypeOK, outside, disk, phases, planVars, client, lane, api
<1>8. CommandInv'
  <2>1. ~Is(command', {"persisting"}) /\ ~Is(command', {"forgetting"}) /\ ~Is(command', {"reloading"})
    BY <1>4 DEF Is
  <2>2. asked' = asked /\ cfg' = cfg /\ drained' = drained /\ applied_generation' = applied_generation
    BY <1>1 DEF client, planVars
  <2> QED BY <1>1, <1>3, <2>1, <2>2 DEF IInv, CommandInv, Is
<1>9. BindInv' /\ PlanInv'
  BY <1>1, BindKept, PlanKept DEF IInv, disk, lane
<1>10. ASSUME ~LateErrors PROVE DrainInv'
  BY <1>1, <1>6, <1>10, DrainApplying DEF IInv, disk, phases
<1> QED BY <1>6, <1>7, <1>8, <1>9, <1>10 DEF IInv
\* check_command ends a command that is applied, and says so, or that waited.
LEMMA Checked ==
  ASSUME AnswersOK, NEW c \in {None} \cup ActiveCommands, NEW g \in Nat, check_command(c, g),
         asked' = asked
  PROVE  /\ AnswersOK'
         /\ command' = c \/ (command' = None /\ Is(c, {"applying"}))
         /\ Is(command', {"applying"}) => command' = c /\ (c.target # None => g < c.target)
         /\ \A o \in DOMAIN answers :
              Waiting(o) /\ answers'[o] = "200" =>
                 o = c.order /\ Is(c, {"applying"}) /\ c.target # None /\ g >= c.target
<1> DEFINE applied == Is(c, {"applying"}) /\ c.target # None /\ g >= c.target
           answered == Is(c, {"applying"}) /\ (applied \/ c.late)
<1>1. /\ command' = IF answered THEN None ELSE c
      /\ answers' = IF answered THEN Told(c.order, IF applied THEN "200" ELSE "202") ELSE answers
  BY DEF check_command
<1>2. Is(c, {"applying"}) => c.target \in {None} \cup Nat
  <2>1. Is(c, {"applying"}) => c \in Applying
    BY CommandShapes DEF Applying
  <2> QED BY <2>1 DEF Applying
<1>3. Is(c, {"applying"}) /\ c.target # None /\ ~(g >= c.target) => g < c.target
  BY <1>2, SMTT(60)
<1>4. Is(command', {"applying"}) => command' = c /\ (c.target # None => g < c.target)
  <2>1. CASE answered
    BY <1>1, <2>1 DEF Is
  <2>2. CASE ~answered
    BY <1>1, <1>3, <2>2
  <2> QED BY <2>1, <2>2
<1>5. "200" \in Codes /\ "202" \in Codes
  BY DEF Codes
<1>6. CASE answered /\ applied
  <2>1. answers' = Told(c.order, "200")
    BY <1>1, <1>6
  <2>2. AnswersOK'
    BY <1>5, <2>1, AnswersTold
  <2>3. \A o \in DOMAIN answers : answers'[o] = IF o = c.order /\ answers[o] = "none" THEN "200" ELSE answers[o]
    BY <1>5, <2>1, ToldType
  <2>4. \A o \in DOMAIN answers : Waiting(o) /\ answers'[o] = "200" => o = c.order
    BY <2>3 DEF Waiting
  <2> QED BY <1>1, <1>4, <1>6, <2>2, <2>4
<1>7. CASE answered /\ ~applied
  <2>1. answers' = Told(c.order, "202")
    BY <1>1, <1>7
  <2>2. AnswersOK'
    BY <1>5, <2>1, AnswersTold
  <2>3. \A o \in DOMAIN answers : answers'[o] = IF o = c.order /\ answers[o] = "none" THEN "202" ELSE answers[o]
    BY <1>5, <2>1, ToldType
  <2>4. \A o \in DOMAIN answers : Waiting(o) => answers'[o] # "200"
    BY <2>3 DEF Waiting
  <2> QED BY <1>1, <1>4, <1>7, <2>2, <2>4
<1>8. CASE ~answered
  <2>1. answers' = answers /\ command' = c
    BY <1>1, <1>8
  <2>2. AnswersOK'
    BY <2>1 DEF AnswersOK
  <2>3. \A o \in DOMAIN answers : Waiting(o) => answers'[o] # "200"
    BY <2>1 DEF Waiting
  <2> QED BY <1>4, <2>1, <2>2, <2>3
<1> QED BY <1>6, <1>7, <1>8

\* What a pass does to the command in progress, the answers and the kernel.
LEMMA StepIs ==
  ASSUME IInv, NEW outcome \in Passes, step(outcome)
  PROVE  /\ command' \in {None} \cup ActiveCommands /\ AnswersOK'
         /\ ~Is(command, {"applying"}) => command' = command
         /\ Is(command, {"applying"}) =>
              \/ command' = None
              \/ /\ Is(command', {"applying"}) /\ command'.order = command.order
                 /\ command'.gone = command.gone
                 /\ command'.target # None => applied_generation' < command'.target
         /\ {desired', kernel'} \subseteq {None} \cup Plans
         /\ desired_generation' \in Nat /\ applied_generation' \in 0..desired_generation'
         /\ PlanInv'
         /\ \A o \in DOMAIN answers :
              Waiting(o) /\ answers'[o] = "200" =>
                 Is(command, {"applying"}) /\ o = command.order /\ kernel' = Plan
<1>1. PICK g : g = desired_generation + (IF desired = Plan THEN 0 ELSE 1)
  OBVIOUS
<1>2. PICK c : c = Targeted(command, g)
  OBVIOUS
<1>3. /\ desired_generation \in Nat /\ applied_generation \in 0..desired_generation
      /\ {desired, kernel} \subseteq {None} \cup Plans
      /\ command \in {None} \cup ActiveCommands /\ AnswersOK /\ asked' = asked
  BY TypeParts DEF IInv, TypeOK, step, client
<1>4. /\ g \in Nat /\ applied_generation \in Nat /\ applied_generation \in 0..g
      /\ g \in 0..g
      /\ applied_generation >= g => desired = Plan /\ applied_generation = desired_generation
      /\ desired # Plan => applied_generation # g
      /\ desired = Plan => g = desired_generation
  <2>1. CASE desired = Plan
    <3>1. g = desired_generation + 0
      BY <1>1, <2>1
    <3> QED BY <1>3, <2>1, <3>1, SMTT(60)
  <2>2. CASE desired # Plan
    <3>1. g = desired_generation + 1
      BY <1>1, <2>2
    <3> QED BY <1>3, <2>2, <3>1, SMTT(60)
  <2> QED BY <2>1, <2>2
<1>5. Plan \in Plans /\ Plan # None
  <2>1. cfg \in Configs
    BY DEF IInv, BindInv, step
  <2>2. NamesOf(cfg, Ids(cfg) \ drained) \in SUBSET AllNames
    BY <2>1, NamesOfType
  <2>3. Plan \in Plans
    BY <2>1, <2>2 DEF Plan, Plans
  <2> QED BY <2>3, NoneIs
<1>6. /\ ~Is(command, {"applying"}) => c = command
      /\ Is(command, {"applying"}) =>
           /\ c \in Applying /\ c.order = command.order /\ c.gone = command.gone
           /\ c.target = IF command.target = None THEN g ELSE command.target
  <2>1. CASE Is(command, {"applying"}) /\ command.target = None
    <3>1. command \in Applying /\ g \in {None} \cup Nat
      BY <1>3, <1>4, <2>1, CommandShapes DEF Applying
    <3>2. c = [command EXCEPT !.target = g]
      BY <1>2, <2>1 DEF Targeted
    <3> QED BY <2>1, <3>1, <3>2, WithTarget
  <2>2. CASE ~(Is(command, {"applying"}) /\ command.target = None)
    <3>1. c = command
      BY <1>2, <2>2 DEF Targeted
    <3>2. Is(command, {"applying"}) => command \in Applying
      BY <1>3, CommandShapes DEF Applying
    <3> QED BY <2>2, <3>1, <3>2
  <2> QED BY <2>1, <2>2
<1>7. /\ c \in {None} \cup ActiveCommands
      /\ Is(c, {"applying"}) <=> Is(command, {"applying"})
  BY <1>3, <1>6, ApplyingIs
\* A command that was not answered before is applied by this plan, if at all.
<1>8. ASSUME Is(command, {"applying"}), command.target # None, applied_generation >= command.target
      PROVE  FALSE
  <2>1. applied_generation < command.target
    BY <1>8 DEF IInv, CommandInv
  <2>2. command.target \in Nat
    <3>1. command \in Applying
      BY <1>3, <1>8, CommandShapes DEF Applying
    <3>2. command.target \in {None} \cup Nat
      BY <3>1 DEF Applying
    <3> QED BY <1>8, <3>2
  <2> QED BY <1>4, <1>8, <2>1, <2>2, SMTT(60)
<1>9. ASSUME Is(c, {"applying"}), c.target # None, applied_generation >= c.target
      PROVE  kernel = Plan
  <2>1. command.target = None /\ c.target = g
    BY <1>6, <1>7, <1>8, <1>9
  <2>2. desired = Plan /\ applied_generation = desired_generation
    BY <1>4, <1>9, <2>1
  <2> QED BY <1>5, <2>2 DEF IInv, PlanInv
<1>10. CASE outcome = "unplanned"
  <2>1. /\ check_command(command, applied_generation)
        /\ UNCHANGED <<desired, desired_generation, applied_generation, kernel>>
    BY <1>10 DEF step
  <2>2. PICK d : d = command
    OBVIOUS
  <2>3. PICK h : h = applied_generation
    OBVIOUS
  <2>4. d \in {None} \cup ActiveCommands /\ h \in Nat /\ check_command(d, h)
    BY <1>3, <1>4, <2>1, <2>2, <2>3
  <2>5. /\ AnswersOK'
        /\ command' = d \/ (command' = None /\ Is(d, {"applying"}))
        /\ Is(command', {"applying"}) => command' = d /\ (d.target # None => h < d.target)
        /\ \A o \in DOMAIN answers :
             Waiting(o) /\ answers'[o] = "200" =>
                o = d.order /\ Is(d, {"applying"}) /\ d.target # None /\ h >= d.target
    BY <1>3, <2>4, Checked
  <2>6. \A o \in DOMAIN answers : Waiting(o) => answers'[o] # "200"
    BY <1>8, <2>2, <2>3, <2>5
  <2>7. PlanInv'
    BY <2>1 DEF IInv, PlanInv
  <2> QED BY <1>3, <2>1, <2>2, <2>3, <2>5, <2>6, <2>7
<1>11. ASSUME NEW h \in Nat, check_command(c, h), h = applied_generation',
              desired' = Plan, desired_generation' = g, applied_generation' \in 0..g,
              kernel' \in {None} \cup Plans, PlanInv',
              Is(c, {"applying"}) /\ c.target # None /\ h >= c.target => kernel' = Plan
       PROVE  /\ command' \in {None} \cup ActiveCommands /\ AnswersOK'
              /\ ~Is(command, {"applying"}) => command' = command
              /\ Is(command, {"applying"}) =>
                   \/ command' = None
                   \/ /\ Is(command', {"applying"}) /\ command'.order = command.order
                      /\ command'.gone = command.gone
                      /\ command'.target # None => applied_generation' < command'.target
              /\ {desired', kernel'} \subseteq {None} \cup Plans
              /\ desired_generation' \in Nat /\ applied_generation' \in 0..desired_generation'
              /\ PlanInv'
              /\ \A o \in DOMAIN answers :
                   Waiting(o) /\ answers'[o] = "200" =>
                      Is(command, {"applying"}) /\ o = command.order /\ kernel' = Plan
  <2>1. /\ AnswersOK'
        /\ command' = c \/ (command' = None /\ Is(c, {"applying"}))
        /\ Is(command', {"applying"}) => command' = c /\ (c.target # None => h < c.target)
        /\ \A o \in DOMAIN answers :
             Waiting(o) /\ answers'[o] = "200" =>
                o = c.order /\ Is(c, {"applying"}) /\ c.target # None /\ h >= c.target
    BY <1>3, <1>7, <1>11, Checked
  <2>2. \A o \in DOMAIN answers :
           Waiting(o) /\ answers'[o] = "200" =>
              Is(command, {"applying"}) /\ o = command.order /\ kernel' = Plan
    BY <1>6, <1>7, <1>11, <2>1
  <2>3. command' \in {None} \cup ActiveCommands
    BY <1>7, <2>1
  <2>4. ~Is(command, {"applying"}) => command' = command
    BY <1>6, <1>7, <2>1
  <2>5. Is(command, {"applying"}) =>
           \/ command' = None
           \/ /\ Is(command', {"applying"}) /\ command'.order = command.order
              /\ command'.gone = command.gone
              /\ command'.target # None => applied_generation' < command'.target
    BY <1>6, <1>7, <1>11, <2>1
  <2> QED BY <1>4, <1>5, <1>11, <2>1, <2>2, <2>3, <2>4, <2>5
<1>12. CASE outcome = "done"
  <2>1. /\ desired' = Plan /\ desired_generation' = g /\ kernel = Plan /\ kernel' = kernel
        /\ applied_generation' = g /\ check_command(c, g)
    BY <1>1, <1>2, <1>12 DEF step
  <2>2. PlanInv'
    BY <2>1 DEF PlanInv
  <2> QED BY <1>4, <1>5, <1>11, <2>1, <2>2
<1>13. CASE outcome = "works"
  <2>1. /\ desired' = Plan /\ desired_generation' = g /\ kernel' = Plan
        /\ applied_generation' = applied_generation /\ check_command(c, applied_generation)
    BY <1>1, <1>2, <1>13 DEF step
  <2>2. PlanInv'
    BY <2>1 DEF PlanInv
  <2>3. PICK h : h = applied_generation
    OBVIOUS
  <2>4. h \in Nat /\ check_command(c, h) /\ h = applied_generation'
    BY <1>4, <2>1, <2>3
  <2> QED BY <1>4, <1>5, <1>11, <2>1, <2>2, <2>3, <2>4
<1>14. ASSUME desired' = Plan, desired_generation' = g, kernel' = kernel, applied_generation' = applied_generation
       PROVE  PlanInv'
  <2>1. CASE desired = Plan
    BY <1>4, <1>5, <1>14, <2>1 DEF IInv, PlanInv
  <2>2. CASE desired # Plan
    BY <1>4, <1>14, <2>2 DEF PlanInv
  <2> QED BY <2>1, <2>2
<1>15. CASE outcome = "waits"
  <2>1. /\ desired' = Plan /\ desired_generation' = g /\ kernel' = kernel
        /\ applied_generation' = applied_generation /\ check_command(c, applied_generation)
    BY <1>1, <1>2, <1>15 DEF step
  <2>2. PlanInv'
    BY <1>14, <2>1
  <2>3. PICK h : h = applied_generation
    OBVIOUS
  <2>4. h \in Nat /\ check_command(c, h) /\ h = applied_generation'
    BY <1>4, <2>1, <2>3
  <2> QED BY <1>3, <1>4, <1>9, <1>11, <2>1, <2>2, <2>3, <2>4
<1>16. CASE outcome = "fails"
  <2>1. /\ desired' = Plan /\ desired_generation' = g /\ kernel' = kernel
        /\ applied_generation' = applied_generation
        /\ IF Is(command, {"applying"})
             THEN command' = None /\ answers' = Told(command.order, "500")
             ELSE UNCHANGED <<command, answers>>
    BY <1>1, <1>16 DEF step
  <2>2. PlanInv'
    BY <1>14, <2>1
  <2>3. AnswersOK' /\ \A o \in DOMAIN answers : Waiting(o) => answers'[o] # "200"
    <3>1. CASE Is(command, {"applying"})
      <4>1. "500" \in Codes /\ answers' = Told(command.order, "500")
        BY <2>1, <3>1 DEF Codes
      <4>2. AnswersOK'
        BY <1>3, <4>1, AnswersTold
      <4>3. \A o \in DOMAIN answers :
               answers'[o] = IF o = command.order /\ answers[o] = "none" THEN "500" ELSE answers[o]
        BY <1>3, <4>1, ToldType
      <4> QED BY <4>2, <4>3 DEF Waiting
    <3>2. CASE ~Is(command, {"applying"})
      BY <1>3, <2>1, <3>2 DEF AnswersOK, Waiting
    <3> QED BY <3>1, <3>2
  <2> QED BY <1>3, <1>4, <1>5, <2>1, <2>2, <2>3
<1> QED BY <1>10, <1>12, <1>13, <1>15, <1>16 DEF Passes

LEMMA StepInv ==
  ASSUME IInv, NEW outcome \in Passes, step(outcome)
  PROVE  IInv'
<1>1. /\ life = "running" /\ dirty' \in BOOLEAN
      /\ UNCHANGED <<outside, disk, life, cfg, drained, phases, client, lane, done, api>>
  BY DEF step
<1>2. /\ command' \in {None} \cup ActiveCommands /\ AnswersOK'
      /\ ~Is(command, {"applying"}) => command' = command
      /\ Is(command, {"applying"}) =>
           \/ command' = None
           \/ /\ Is(command', {"applying"}) /\ command'.order = command.order
              /\ command'.gone = command.gone
              /\ command'.target # None => applied_generation' < command'.target
      /\ {desired', kernel'} \subseteq {None} \cup Plans
      /\ desired_generation' \in Nat /\ applied_generation' \in 0..desired_generation'
      /\ PlanInv'
  BY StepIs
<1>3. TypeOK'
  BY <1>1, <1>2 DEF IInv, TypeOK, AnswersOK, outside, disk, phases, client, lane, api
<1>4. WorkInv' /\ (Busy' <=> Busy) /\ (Busy => Intended' = Intended)
  BY <1>1, <1>2, WorkApplying DEF IInv, disk, phases, client, lane, api
<1>5. BindInv'
  BY <1>1, BindKept DEF IInv, disk, lane
<1>6. ASSUME ~LateErrors PROVE DrainInv'
  BY <1>1, <1>4, <1>6, DrainApplying DEF IInv, disk, phases
<1>7. CommandInv'
  <2>1. asked' = asked /\ cfg' = cfg /\ drained' = drained
    BY <1>1 DEF client
  <2>2. CASE ~Is(command, {"applying"})
    BY <1>2, <2>1, <2>2 DEF IInv, CommandInv, Is
  <2>3. CASE Is(command, {"applying"}) /\ command' = None
    BY <2>3, CommandNone
  <2>4. CASE Is(command, {"applying"}) /\ command' # None
    <3>1. ~Is(command', {"persisting"}) /\ ~Is(command', {"forgetting"}) /\ ~Is(command', {"reloading"})
      BY <1>2, <2>4 DEF Is
    <3>2. command # None
      BY <2>4 DEF Is
    <3> QED BY <1>2, <2>1, <2>4, <3>1, <3>2 DEF IInv, CommandInv
  <2> QED BY <2>2, <2>3, <2>4
<1> QED BY <1>2, <1>3, <1>4, <1>5, <1>6, <1>7 DEF IInv
-----------------------------------------------------------------------------
(* The theorems. *)

LEMMA InitInv ==
  ASSUME Init
  PROVE  IInv
<1>1. /\ << >> \in Seq(Requests) /\ << >> \in Seq(Codes) /\ Len(<< >>) = 0 /\ 0 \in Nat
      /\ 0 \in 0..0 /\ 0 <= 1 /\ \A S : << >> \in Seq(S)
  BY SMTT(60)
<1>2. 0 <= ORDER_QUEUE /\ 0 <= MaxOrders
  <2>1. ORDER_QUEUE \in Nat /\ MaxOrders \in Nat
    BY ConstantsAssumption DEF ConstantsAssumption
  <2> QED BY <2>1, SMTT(60)
<1>3. TypeOK
  BY <1>1, <1>2 DEF Init, TypeOK, Manifests
<1>4. WorkInv
  <2>1. \A i \in DOMAIN << >> : FALSE
    BY SMTT(60)
  <2> QED BY <2>1 DEF Init, WorkInv, Busy, Is, Phase
<1>5. CommandInv
  BY DEF Init, CommandInv, Is
<1>6. BindInv /\ PlanInv /\ DrainInv
  BY DEF Init, BindInv, PlanInv, DrainInv, Unique
<1> QED BY <1>3, <1>4, <1>5, <1>6 DEF IInv

LEMMA NextInv ==
  ASSUME IInv, [Next]_vars
  PROVE  IInv'
<1>1. CASE StateTask
  BY <1>1, TakeHupInv, ReloadValidatedInv, ApiPreparedInv, ReloadBoundInv, StartOrderInv,
     ForgottenInv, DrainWrittenInv, StepInv, WakesInv, CommandWaitedInv DEF StateTask
<1>2. CASE InputOutput
  BY <1>2, ValidateInv, ManagerInv, PersistDrainInv, PersistBindInv, PersistPruneInv,
     PersistForgetInv DEF InputOutput
<1>3. CASE Outside
  BY <1>3, StartChecksInv, StartBindsInv, CrashInv, ForgetOfflineInv, EditInv, SendHupInv,
     SendCommandInv, GiveUpInv DEF Outside
<1>4. CASE UNCHANGED vars
  BY <1>4, StutterInv
<1> QED BY <1>1, <1>2, <1>3, <1>4 DEF Next

\* The invariant that the others follow from: one piece of work at a time, and
\* each file either as the running state says or as the piece of work says.
THEOREM InductiveAlways == Spec => []IInv
<1>1. Init => IInv
  BY InitInv
<1>2. IInv /\ [Next]_vars => IInv'
  BY NextInv
<1> QED BY <1>1, <1>2, PTL DEF Spec

\* The types, with at most one administrative job in the persistence lane
\* (daemon.rs, start_order and api_prepared send one and wait).
THEOREM TypeCorrect == Spec => []TypeOK
<1>1. IInv => TypeOK
  BY DEF IInv
<1> QED BY <1>1, InductiveAlways, PTL

\* Every running uplink has its binding in the manifest on disk, and no id and
\* no name is bound twice (state.rs, check and bind; worker.rs, persist), for
\* any configurations, commands and failures, late errors of a write included.
THEOREM BindingsHoldAlways == Spec => []BindingsHold
<1>1. IInv => BindingsHold
  BY DEF IInv, BindInv, Bound, Unique, BindingsHold
<1> QED BY <1>1, InductiveAlways, PTL

\* Where a write that fails leaves the old file (state.rs, write_atomic), the
\* drain intent in force is the one that a restart would find, but for the
\* uplinks whose intent is being changed (daemon.rs, drain_written and
\* reload_bound; worker.rs, persist).
THEOREM IntentIsDurableAlways ==
  ASSUME ~LateErrors
  PROVE  Spec => []IntentIsDurable
<1>1. ASSUME IInv, life = "running"
      PROVE  drain_file \ Unsettled = NamesOf(cfg, drained) \ Unsettled
  <2>1. DrainInv /\ life # "down"
    BY <1>1 DEF IInv
  <2>2. CASE ~Written
    BY <2>1, <2>2 DEF DrainInv
  <2>3. ASSUME Written
        PROVE  done # << >> /\ (Is(command, {"persisting"}) \/ (Phase("binding") /\ Bound(manifest, reload.config)))
    <3>1. done # << >>
      BY <2>3, NothingWritten
    <3>2. Head(done).kind \in {"drained", "bound"} /\ Head(done).ok
      BY <1>1, <2>3, <3>1, OneReport DEF IInv
    <3> QED BY <1>1, <3>1, <3>2, ReportOf DEF IInv
  <2>4. CASE Written /\ Is(command, {"persisting"})
    <3>1. Busy
      BY <2>4 DEF Busy, Is
    <3>2. drain_file = NamesOf(cfg, Intended)
      BY <2>1, <2>4, <3>1 DEF DrainInv
    <3>3. NamesOf(cfg, {command.id}) \subseteq Unsettled
      BY <2>4 DEF Unsettled
    <3>4. ASSUME NEW n, n \notin NamesOf(cfg, {command.id})
          PROVE  n \in NamesOf(cfg, Intended) <=> n \in NamesOf(cfg, drained)
      BY <3>4 DEF NamesOf, Intended
    <3> QED BY <3>2, <3>3, <3>4
  <2>5. CASE Written /\ Phase("binding") /\ Bound(manifest, reload.config)
    <3>1. ~Busy /\ reload # None /\ reload.phase = "binding"
      BY <1>1, <2>5, Phases DEF IInv, Phase
    <3>2. drain_file = NamesOf(reload.config, reload.drained) /\ reload.drained = drained \cap Ids(reload.config)
      BY <1>1, <2>1, <2>5, <3>1 DEF DrainInv, IInv, WorkInv, Pruned
    <3>3. Agree(cfg, reload.config) /\ drained \subseteq Ids(cfg)
      <4>1. Unique(manifest) /\ Bound(manifest, cfg) /\ drained \subseteq Ids(cfg)
        BY <1>1 DEF IInv, BindInv, TypeOK
      <4> QED BY <2>5, <4>1, BoundAgree
    <3> DEFINE removed == Names(cfg) \ Names(reload.config)
    <3>4. /\ NamesOf(reload.config, drained \cap Ids(reload.config)) \subseteq NamesOf(cfg, drained)
          /\ NamesOf(cfg, drained) \ removed \subseteq NamesOf(reload.config, drained \cap Ids(reload.config))
      BY <3>3, IntentKept
    <3>5. removed \subseteq Unsettled
      BY <3>1 DEF Unsettled
    <3> HIDE DEF removed
    <3> QED BY <3>2, <3>4, <3>5
  <2> QED BY <2>2, <2>3, <2>4, <2>5
<1>2. IInv => IntentIsDurable
  BY <1>1 DEF IntentIsDurable
<1> QED BY <1>2, InductiveAlways, PTL

-----------------------------------------------------------------------------
(* Answers. *)

\* Only forgotten and step answer with 200.
LEMMA OtherAnswers ==
  ASSUME IInv, [Next]_vars, NEW o \in DOMAIN answers, Waiting(o), answers'[o] = "200"
  PROVE  forgotten \/ \E outcome \in Passes : step(outcome)
<1>0. answers[o] = "none" /\ AnswersOK
  BY TypeParts DEF Waiting, IInv
<1>1. ASSUME answers' = answers PROVE FALSE
  BY <1>0, <1>1
<1>2. ASSUME NEW p, NEW code \in Codes \ {"200"}, answers' = Told(p, code) PROVE FALSE
  <2>1. code \in Codes /\ code # "200"
    BY <1>2
  <2>2. \A q \in DOMAIN answers :
           Told(p, code)[q] = IF q = p /\ answers[q] = "none" THEN code ELSE answers[q]
    BY DEF Told
  <2> QED BY <1>0, <1>2, <2>1, <2>2
<1>3. {"404", "409", "422", "500", "503"} \subseteq Codes \ {"200"}
  BY DEF Codes
<1>4. ASSUME reload_failed PROVE FALSE
  <2>1. CASE answers' = answers
    BY <1>1, <2>1
  <2>2. CASE answers' = Told(command.order, "422")
    <3>1. PICK p : p = command.order
      OBVIOUS
    <3> QED BY <1>2, <1>3, <2>2, <3>1
  <2> QED BY <1>4, <2>1, <2>2 DEF reload_failed
<1>5. CASE StateTask
  <2>1. CASE take_hup \/ wakes \/ command_waited
    BY <1>1, <2>1 DEF take_hup, wakes, command_waited
  <2>2. CASE reload_validated
    BY <1>1, <1>4, <2>2 DEF reload_validated
  <2>3. CASE \E full \in BOOLEAN : api_prepared(full)
    BY <1>1, <1>4, <2>3 DEF api_prepared
  <2>4. CASE reload_bound
    BY <1>1, <1>4, <2>4 DEF reload_bound
  <2>5. ASSUME NEW p \in DOMAIN asked, NEW full \in BOOLEAN, start_order(p, full) PROVE FALSE
    <3>1. ASSUME NEW code \in Codes \ {"200"}, Refuses(p, code) PROVE FALSE
      BY <1>2, <3>1 DEF Refuses
    <3>2. ASSUME NEW job, NEW c, Persists(p, job, c, full) PROVE FALSE
      <4>1. answers' = answers \/ answers' = Told(p, "503")
        BY <3>2 DEF Persists
      <4> QED BY <1>1, <1>2, <1>3, <4>1
    <3>3. ASSUME NEW drain \in BOOLEAN, start_drain(p, drain, full) PROVE FALSE
      <4>1. answers' = answers \/ answers' = Told(p, "503") \/ answers' = Told(p, "404")
               \/ answers' = Told(p, "409")
        BY <3>3 DEF start_drain, Refuses, Persists
      <4> QED BY <1>1, <1>2, <1>3, <4>1
    <3>4. ASSUME start_forget(p, full) PROVE FALSE
      <4>1. answers' = answers \/ answers' = Told(p, "503") \/ answers' = Told(p, "409")
        BY <3>4 DEF start_forget, Refuses, Persists
      <4> QED BY <1>1, <1>2, <1>3, <4>1
    <3> QED BY <1>1, <2>5, <3>3, <3>4 DEF start_order
  <2>6. CASE drain_written
    <3>1. PICK p : p = command.order
      OBVIOUS
    <3>2. answers' = answers \/ answers' = Told(p, "500")
      BY <2>6, <3>1 DEF drain_written
    <3> QED BY <1>1, <1>2, <1>3, <3>2
  <2> QED BY <1>5, <2>1, <2>2, <2>3, <2>4, <2>5, <2>6 DEF StateTask
<1>6. CASE InputOutput
  BY <1>1, <1>6 DEF InputOutput, validate, manager, persist_drain, persist_bind,
                    persist_prune, persist_forget
<1>7. CASE Outside
  <2>1. CASE \E w \in Writes : start_checks(w) \/ start_binds(w)
    BY <1>1, <2>1 DEF start_checks, start_binds
  <2>2. CASE Crash
    BY <1>0, <2>2 DEF Crash, Waiting
  <2>3. CASE \E name \in AllNames : forget_offline(name)
    BY <1>1, <2>3 DEF forget_offline
  <2>4. CASE \E config \in Configs : edit(config)
    BY <1>1, <2>4 DEF edit
  <2>5. CASE send_hup
    BY <1>1, <2>5 DEF send_hup
  <2>6. ASSUME NEW r \in Requests, send_command(r) PROVE FALSE
    <3>1. answers' = Append(answers, "none") \/ answers' = Append(answers, "503")
      BY <2>6 DEF send_command
    <3>2. answers \in Seq(Codes)
      BY <1>0 DEF AnswersOK
    <3>3. answers'[o] = answers[o]
      BY <3>1, <3>2, SMTT(60)
    <3> QED BY <1>0, <3>3
  <2>7. ASSUME NEW p \in DOMAIN answers, give_up(p) PROVE FALSE
    <3>1. answers'[o] = "gone" \/ answers'[o] = answers[o]
      BY <2>7 DEF give_up
    <3> QED BY <1>0, <3>1
  <2> QED BY <1>7, <2>1, <2>2, <2>3, <2>4, <2>5, <2>6, <2>7 DEF Outside
<1>8. CASE UNCHANGED vars
  BY <1>1, <1>8 DEF vars
<1> QED BY <1>5, <1>6, <1>7, <1>8 DEF Next

\* A drained name is not in the plan, any other configured one is.
LEMMA PlanUses ==
  ASSUME NEW c \in Configs \cup {{}}, NEW ids, NEW n
  PROVE  /\ n \in NamesOf(c, ids) => n \notin NamesOf(c, Ids(c) \ ids)
         /\ n \in Names(c) /\ n \notin NamesOf(c, ids) => n \in NamesOf(c, Ids(c) \ ids)
<1>1. \A u \in c, v \in c : u[1] = v[1] <=> u[2] = v[2]
  BY ConfigsAre
<1>2. ASSUME n \in NamesOf(c, ids), n \in NamesOf(c, Ids(c) \ ids) PROVE FALSE
  BY <1>1, <1>2 DEF NamesOf
<1>3. n \in Names(c) /\ n \notin NamesOf(c, ids) => n \in NamesOf(c, Ids(c) \ ids)
  BY DEF NamesOf, Names, Ids
<1> QED BY <1>2, <1>3

\* A command answered with 200 is in the kernel's routing, or its binding is
\* gone from the manifest on disk (daemon.rs, check_command and forgotten),
\* whatever reloads, retries and failures come before the answer.
THEOREM OkIsAppliedAlways == Spec => OkIsApplied
<1> DEFINE Holds(o) ==
      LET r    == asked[o]
          plan == IF kernel' = None THEN <<{}, {}>> ELSE kernel'
      IN  CASE r.action = "drain"   -> command.gone \/ r.name \notin plan[2]
            [] r.action = "undrain" -> r.name \in Names(cfg) => r.name \in plan[2]
            [] r.action = "reload"  -> plan[1] = cfg
            [] r.action = "forget"  -> \A b \in manifest_file : b.name # r.name
<1>1. ASSUME IInv, [Next]_vars, NEW o \in DOMAIN answers, Waiting(o), answers'[o] = "200"
      PROVE  Holds(o)
  <2>1. CASE forgotten
    <3>1. Completes("forgotten") /\ answers' = Told(command.order, IF Head(done).ok THEN "200" ELSE "409")
      BY <2>1 DEF forgotten
    <3>2. done # << >> /\ Head(done).kind = "forgotten"
      BY <3>1 DEF Completes
    <3>3. PICK code : code = IF Head(done).ok THEN "200" ELSE "409"
      OBVIOUS
    <3>4. PICK p : p = command.order
      OBVIOUS
    <3>5. code \in Codes
      BY <3>3 DEF Codes
    <3>6. answers' = Told(p, code)
      BY <3>1, <3>3, <3>4
    <3>7. answers'[o] = IF o = p /\ answers[o] = "none" THEN code ELSE answers[o]
      BY <1>1, <3>5, <3>6, ToldType, TypeParts DEF IInv
    <3>8. o = command.order /\ Head(done).ok
      BY <1>1, <3>3, <3>4, <3>7 DEF Waiting
    <3>9. Is(command, {"forgetting"}) /\ \A b \in manifest_file : b.name # asked[o].name
      BY <1>1, <3>2, <3>8, ReportOf DEF IInv
    <3>10. asked[o].action = "forget"
      BY <1>1, <3>8, <3>9 DEF IInv, CommandInv
    <3> QED BY <3>9, <3>10
  <2>2. ASSUME NEW outcome \in Passes, step(outcome) PROVE Holds(o)
    <3>1. Is(command, {"applying"}) /\ o = command.order /\ kernel' = Plan
      BY <1>1, <2>2, StepIs
    <3>2. cfg \in Configs
      BY <1>1, <2>2 DEF IInv, BindInv, step
    <3>3. Plan # None
      <4>1. NamesOf(cfg, Ids(cfg) \ drained) \in SUBSET AllNames
        BY <3>2, NamesOfType
      <4>2. Plan \in Plans
        BY <3>2, <4>1 DEF Plan, Plans
      <4> QED BY <4>2, NoneIs
    <3> DEFINE plan == IF kernel' = None THEN <<{}, {}>> ELSE kernel'
    <3>4. plan[1] = cfg /\ plan[2] = NamesOf(cfg, Ids(cfg) \ drained)
      <4> DEFINE used == NamesOf(cfg, Ids(cfg) \ drained)
      <4>1. plan = <<cfg, used>>
        BY <3>1, <3>3 DEF Plan
      <4> HIDE DEF used, plan
      <4>2. plan[1] = cfg /\ plan[2] = used
        BY <4>1, SMTT(60)
      <4> QED BY <4>2 DEF used
    <3>5. /\ asked[o].action \in {"drain", "undrain", "reload"}
          /\ asked[o].action = "drain" => command.gone \/ asked[o].name \in NamesOf(cfg, drained)
          /\ asked[o].action = "undrain" => asked[o].name \notin NamesOf(cfg, drained)
      BY <1>1, <3>1 DEF IInv, CommandInv
    <3>6. CASE asked[o].action = "drain"
      <4>1. command.gone \/ asked[o].name \notin plan[2]
        <5>1. cfg \in Configs \cup {{}}
          BY <3>2
        <5> HIDE DEF plan
        <5>2. CASE asked[o].name \in NamesOf(cfg, drained)
          <6>1. asked[o].name \notin NamesOf(cfg, Ids(cfg) \ drained)
            BY <5>1, <5>2, PlanUses
          <6> QED BY <3>4, <6>1
        <5> QED BY <3>5, <3>6, <5>2
      <4> QED BY <3>6, <4>1
    <3>7. CASE asked[o].action = "undrain"
      <4>1. asked[o].name \in Names(cfg) => asked[o].name \in plan[2]
        <5>1. cfg \in Configs \cup {{}} /\ asked[o].name \notin NamesOf(cfg, drained)
          BY <3>2, <3>5, <3>7
        <5> HIDE DEF plan
        <5>2. asked[o].name \in Names(cfg) => asked[o].name \in NamesOf(cfg, Ids(cfg) \ drained)
          BY <5>1, PlanUses
        <5> QED BY <3>4, <5>2
      <4> QED BY <3>7, <4>1
    <3>8. CASE asked[o].action = "reload"
      BY <3>4, <3>8
    <3> QED BY <3>5, <3>6, <3>7, <3>8
  <2> QED BY <1>1, <2>1, <2>2, OtherAnswers
<1>2. IInv /\ [Next]_vars =>
        [\A o \in DOMAIN answers : Waiting(o) /\ answers'[o] = "200" => Holds(o)]_vars
  BY <1>1
<1> QED BY <1>2, InductiveAlways, PTL DEF Spec, OkIsApplied

=============================================================================
