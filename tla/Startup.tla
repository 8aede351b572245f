------------------------------ MODULE Startup -------------------------------
(***************************************************************************)
(* The commands that use the state directory: run, run --dry-run, run      *)
(* --reset-state and cleanup (main.rs, daemon.rs, cleanup.rs, state.rs),   *)
(* as processes that contend for the instance lock, crash or fail between  *)
(* any two of their steps, and leave files and kernel objects to the next, *)
(* which may have another configuration.                                   *)
(*                                                                         *)
(* Simplifications.  Rules and routes of a layout are one object, named by *)
(* its priority range and marks; sysctls are in Sysctls, bindings of ids   *)
(* and the offline forget in Commands, the contents of a checkpoint in     *)
(* PathHealth.                                                             *)
(***************************************************************************)
EXTENDS Naturals, FiniteSets

CONSTANTS
  Procs,      \* processes that may run at a time
  Configs,    \* configurations: range, marks, managed, uplinks
  Absent, Corrupt,   \* contents of a file that is not there or not readable
  MaxRuns,    \* bound: commands started
  MaxDamages  \* bound: files damaged, or left by another version

Uplinks == UNION {c.uplinks : c \in Configs}
Structure(c) == [range |-> c.range, marks |-> c.marks, managed |-> c.managed]
Layout(c) == [range |-> c.range, marks |-> c.marks]
Recorded(m) == {m.structure, Layout(m.structure)}
Manifests == [structure : {Structure(c) : c \in Configs}, uplinks : SUBSET Uplinks]

VARIABLES
  config,      \* the configuration file
  lock,        \* the process that holds the instance lock
  manifest, drain, checkpoint,   \* the files of the state directory
  tmp,         \* manifest.tmp: what the next rename installs
  rules,       \* the layouts that have rules or routes
  table,       \* the structure that the nftables table is of
  proc,        \* the processes
  runs, damages,
  orphans      \* history: what a manifest that was damaged had recorded

files == <<manifest, drain, checkpoint, tmp>>
kernel == <<rules, table>>
vars == <<config, lock, manifest, drain, checkpoint, tmp, rules, table, proc, runs, damages,
          orphans>>

Commands == [name : {"run"}, dry_run : BOOLEAN, reset_state : BOOLEAN]
              \cup [name : {"cleanup"}, dry_run : {FALSE}, reset_state : {FALSE}]

\* cfg and found: the configuration loaded and the manifest read; kept: the intent
\* it goes on with; cleaning: it cleans up; began: what was there when it took the
\* lock (history); status: how it ended.
NoProc == [at |-> "none", command |-> Absent, cfg |-> Absent, found |-> Absent, kept |-> Absent,
           cleaning |-> FALSE, began |-> Absent, status |-> Absent]

Init ==
  /\ config \in Configs
  /\ lock = Absent
  /\ manifest = Absent /\ drain = Absent /\ checkpoint = Absent /\ tmp = Absent
  /\ rules = {} /\ table = Absent
  /\ proc = [p \in Procs |-> NoProc]
  /\ runs = 0 /\ damages = 0 /\ orphans = {}

-----------------------------------------------------------------------------
(* Processes.                                                              *)

At(p, step) == proc[p].at = step
Go(p, step) == proc' = [proc EXCEPT ![p].at = step]

\* The kernel releases the lock of a process that ends.
Released(p) == IF lock = p THEN Absent ELSE lock

Exit(p, status) ==
  /\ proc' = [proc EXCEPT ![p] = [NoProc EXCEPT !.at = "exited", !.status = status]]
  /\ lock' = Released(p)

Entry(c) == IF c.dry_run THEN "manifest" ELSE "lock"

\* The step after the lock was taken.
Locked(c) == IF c.name = "cleanup" THEN "inventory"
             ELSE IF c.reset_state THEN "reset_drain" ELSE "manifest"

\* The command line is parsed and the configuration loaded; trust, accounts and
\* the platform are checked, without effect (Refused, Failed).
Start(p) ==
  /\ proc[p].at \in {"none", "exited"} /\ runs < MaxRuns
  /\ runs' = runs + 1
  /\ \E c \in Commands :
       proc' = [proc EXCEPT ![p] = [NoProc EXCEPT !.command = c, !.cfg = config,
                  !.at = Entry(c)]]
  /\ UNCHANGED <<config, lock, files, kernel, damages, orphans>>

\* Mutant: the lock is taken although another process holds it.
Available_always == TRUE

Available == lock = Absent

Now == [manifest |-> manifest, drain |-> drain, checkpoint |-> checkpoint,
        rules |-> rules, table |-> table]

\* InstanceLock::acquire does not wait.
Acquire(p) ==
  /\ At(p, "lock")
  /\ IF Available
     THEN /\ lock' = p
          /\ proc' = [proc EXCEPT ![p].at = Locked(proc[p].command), ![p].began = Now]
     ELSE Exit(p, "failed")
  /\ UNCHANGED <<config, files, kernel, runs, damages, orphans>>

\* Any error of the system between two steps, and kill -9: what was done stays.
Dies(p) ==
  /\ proc[p].at \notin {"none", "exited"}
  /\ Exit(p, "failed")
  /\ UNCHANGED <<config, files, kernel, runs, damages, orphans>>

-----------------------------------------------------------------------------
(* StateDir.                                                               *)

\* StateDir::reset: drain state, then checkpoint; used by run and by cleanup.
ResetDrain(p) ==
  /\ At(p, "reset_drain")
  /\ drain' = Absent
  /\ Go(p, "reset_checkpoint")
  /\ UNCHANGED <<config, lock, manifest, checkpoint, tmp, kernel, runs, damages, orphans>>

ResetCheckpoint(p) ==
  /\ At(p, "reset_checkpoint")
  /\ checkpoint' = Absent
  /\ Go(p, IF proc[p].cleaning THEN "remove_manifest" ELSE "manifest")
  /\ UNCHANGED <<config, lock, manifest, drain, tmp, kernel, runs, damages, orphans>>

\* run: whether the manifest that was found is ignored.
Discards(command) == manifest = Corrupt /\ command.reset_state /\ ~ command.dry_run

\* Manifest::check, for the structure.
conflicts(m, cfg) == m.structure # Structure(cfg)

ReadManifest(p) ==
  LET c == proc[p].command IN
  /\ At(p, "manifest")
  /\ IF Discards(c) \/ manifest = Absent
     THEN proc' = [proc EXCEPT ![p].at = "drain", ![p].found = Absent] /\ UNCHANGED lock
     ELSE IF manifest = Corrupt THEN Exit(p, "corrupt")
     ELSE IF conflicts(manifest, proc[p].cfg) THEN Exit(p, "conflict")
     ELSE proc' = [proc EXCEPT ![p].at = "drain", ![p].found = manifest] /\ UNCHANGED lock
  /\ UNCHANGED <<config, files, kernel, runs, damages, orphans>>

\* StateDir::drain; the intent of uplinks that are not configured goes.
ReadDrain(p) ==
  LET intent == IF drain \in {Absent, Corrupt} THEN {} ELSE drain
      kept == intent \cap proc[p].cfg.uplinks
      prunes == kept # intent /\ ~ proc[p].command.dry_run
  IN /\ At(p, "drain")
     /\ IF drain = Corrupt THEN Exit(p, "corrupt")
        ELSE /\ proc' = [proc EXCEPT ![p].at = IF prunes THEN "prune" ELSE "dump",
                                     ![p].kept = kept]
             /\ UNCHANGED lock
     /\ UNCHANGED <<config, files, kernel, runs, damages, orphans>>

PruneDrain(p) ==
  /\ At(p, "prune")
  /\ drain' = proc[p].kept
  /\ Go(p, "dump")
  /\ UNCHANGED <<config, lock, manifest, checkpoint, tmp, kernel, runs, damages, orphans>>

-----------------------------------------------------------------------------
(* run: the inventory, the manifest ahead of the kernel, the daemon.       *)

\* checks::adoptable: without manifest, rules in the range have the roles of
\* this layout.
adoptable(cfg) == \A l \in rules : l.range = cfg.range => l = Layout(cfg)

\* The first dump and the findings in it; a dry run prints what it would do.
Dump(p) ==
  /\ At(p, "dump")
  /\ IF proc[p].found = Absent /\ ~ adoptable(proc[p].cfg) THEN Exit(p, "findings")
     ELSE IF proc[p].command.dry_run THEN Exit(p, "done")
     ELSE Go(p, "write_ahead") /\ UNCHANGED lock
  /\ UNCHANGED <<config, files, kernel, runs, damages, orphans>>

\* Manifest::new or the manifest found, then Manifest::bind.
Bound(p) ==
  LET f == proc[p].found IN
  [structure |-> Structure(proc[p].cfg),
   uplinks |-> proc[p].cfg.uplinks \cup IF f = Absent THEN {} ELSE f.uplinks]

\* write_atomic: all of it in a new file first.
write_tmp(p) == tmp' = Bound(p) /\ UNCHANGED manifest

WriteAhead(p) ==
  /\ At(p, "write_ahead")
  /\ write_tmp(p)
  /\ Go(p, "rename")
  /\ UNCHANGED <<config, lock, drain, checkpoint, kernel, runs, damages, orphans>>

\* An error of the directory's fsync comes after the rename (Dies).
Rename(p) ==
  /\ At(p, "rename")
  /\ manifest' = tmp /\ tmp' = Absent
  /\ Go(p, "up")
  /\ orphans' = orphans \ Recorded(tmp)
  /\ UNCHANGED <<config, lock, drain, checkpoint, kernel, runs, damages>>

InstallRules(p) ==
  /\ At(p, "up")
  /\ Layout(proc[p].cfg) \notin rules
  /\ rules' = rules \cup {Layout(proc[p].cfg)}
  /\ UNCHANGED <<config, lock, files, table, proc, runs, damages, orphans>>

\* One table, whatever the structure: a transaction replaces it.
InstallTable(p) ==
  /\ At(p, "up") /\ proc[p].cfg.managed
  /\ table' = Structure(proc[p].cfg)
  /\ table # table'
  /\ UNCHANGED <<config, lock, files, rules, proc, runs, damages, orphans>>

\* A drain command, and a checkpoint.
Persist(p) ==
  /\ At(p, "up")
  /\ drain' \in SUBSET proc[p].cfg.uplinks
  /\ checkpoint' = Structure(proc[p].cfg)
  /\ <<drain, checkpoint>> # <<drain', checkpoint'>>
  /\ UNCHANGED <<config, lock, manifest, tmp, kernel, proc, runs, damages, orphans>>

\* SIGTERM: the artifacts stay, or are cleaned up in the same process.
Stop(p, on_shutdown) ==
  /\ At(p, "up")
  /\ checkpoint' = Structure(proc[p].cfg)
  /\ IF on_shutdown = "cleanup" THEN Go(p, "inventory") /\ UNCHANGED lock
     ELSE Exit(p, "done")
  /\ UNCHANGED <<config, manifest, drain, tmp, kernel, runs, damages, orphans>>

-----------------------------------------------------------------------------
(* cleanup.                                                                *)

\* Mutant: only the configuration is cleaned up.
Structures_cfg(p) == {Structure(proc[p].cfg)}

\* The union of the installed layout and the configured one.
Structures(p) == {Structure(proc[p].cfg)}
                   \cup IF proc[p].found = Absent THEN {} ELSE {proc[p].found.structure}

Inventory(p) ==
  /\ At(p, "inventory")
  /\ IF manifest = Corrupt THEN Exit(p, "corrupt")
     ELSE /\ proc' = [proc EXCEPT ![p].at = "remove_table", ![p].found = manifest,
                                  ![p].cleaning = TRUE, ![p].began = Absent]
          /\ UNCHANGED lock
  /\ UNCHANGED <<config, files, kernel, runs, damages, orphans>>

RemoveTable(p) ==
  /\ At(p, "remove_table")
  /\ table' = IF \E s \in Structures(p) : s.managed THEN Absent ELSE table
  /\ Go(p, "remove_rules")
  /\ UNCHANGED <<config, lock, files, rules, runs, damages, orphans>>

\* teardown goes by range: what is there need not have the layout's marks.
RemoveRules(p) ==
  /\ At(p, "remove_rules")
  /\ rules' = {l \in rules : \A s \in Structures(p) : s.range # l.range}
  /\ Go(p, "reset_drain")
  /\ UNCHANGED <<config, lock, files, table, runs, damages, orphans>>

RemoveManifest(p) ==
  /\ At(p, "remove_manifest")
  /\ manifest' = Absent
  /\ Exit(p, "done")
  /\ UNCHANGED <<config, drain, checkpoint, tmp, kernel, runs, damages, orphans>>

-----------------------------------------------------------------------------
(* The administrator and the disk.                                         *)

Edit ==
  /\ runs < MaxRuns
  /\ config' \in Configs \ {config}
  /\ UNCHANGED <<lock, files, kernel, proc, runs, damages, orphans>>

\* A file is lost to the disk, or was written by another version.
Damage ==
  /\ damages < MaxDamages /\ damages' = damages + 1
  /\ \/ /\ manifest \notin {Absent, Corrupt}
        /\ manifest' = Corrupt
        /\ orphans' = orphans \cup Recorded(manifest)
        /\ UNCHANGED drain
     \/ /\ drain \notin {Absent, Corrupt}
        /\ drain' = Corrupt /\ UNCHANGED <<manifest, orphans>>
  /\ UNCHANGED <<config, lock, checkpoint, tmp, kernel, proc, runs>>

-----------------------------------------------------------------------------
Next ==
  \/ Edit \/ Damage
  \/ \E p \in Procs :
       \/ Start(p) \/ Acquire(p) \/ Dies(p)
       \/ ResetDrain(p) \/ ResetCheckpoint(p) \/ ReadManifest(p) \/ ReadDrain(p) \/ PruneDrain(p)
       \/ Dump(p) \/ WriteAhead(p) \/ Rename(p)
       \/ InstallRules(p) \/ InstallTable(p) \/ Persist(p)
       \/ \E s \in {"keep", "cleanup"} : Stop(p, s)
       \/ Inventory(p) \/ RemoveTable(p) \/ RemoveRules(p) \/ RemoveManifest(p)

Spec == Init /\ [][Next]_vars

-----------------------------------------------------------------------------
(* Properties.                                                             *)

Steps == {"none", "lock", "reset_drain", "reset_checkpoint", "manifest", "drain", "prune", "dump",
          "write_ahead", "rename", "up", "inventory", "remove_table", "remove_rules",
          "remove_manifest", "exited"}

Readable(m) == m \notin {Absent, Corrupt}

\* Types of the variables; a process that is past the lock holds it.
TypeOK ==
  /\ config \in Configs /\ lock \in Procs \cup {Absent}
  /\ manifest \in Manifests \cup {Absent, Corrupt}
  /\ drain \in SUBSET Uplinks \cup {Absent, Corrupt}
  /\ rules \subseteq {Layout(c) : c \in Configs}
  /\ tmp \in Manifests \cup {Absent}
  /\ \A p \in Procs :
       /\ proc[p].at \in Steps
       /\ proc[p].at \notin {"none", "lock", "exited"} /\ ~ proc[p].command.dry_run => lock = p

\* IMPL-5: whatever is installed, the manifest on disk records it, at every
\* moment and across crashes, failed commands, edits of the configuration and
\* interrupted cleanups: it is written before and removed after.  Only what a
\* damaged manifest had recorded may be unrecorded.
InstalledIsRecorded ==
  /\ \A l \in rules \ orphans :
       Readable(manifest) /\ l = Layout(manifest.structure)
  /\ table \notin orphans \cup {Absent} => Readable(manifest) /\ table = manifest.structure

\* IMPL-6: when a start is refused for what it read (a corrupt file, another
\* structure in the manifest, foreign rules), the kernel and the manifest are what
\* they were when it took the lock, whatever other processes do meanwhile.  Of the
\* other files it may have discarded what --reset-state names, and the intent of
\* uplinks that are not configured.  (A file may be damaged at any time.)
RefusedChangesNothing ==
  [][\A p \in Procs :
       LET was == proc[p].began
           discarded == IF proc[p].command.reset_state THEN {Absent} ELSE {}
           pruned == IF was.drain \in {Absent, Corrupt} THEN {} ELSE {was.drain \cap proc[p].cfg.uplinks}
       IN  (/\ proc[p].at \in {"manifest", "drain", "dump"} /\ ~ proc[p].command.dry_run
            /\ proc'[p].status \in {"corrupt", "conflict", "findings"})
           => /\ rules' = was.rules /\ table' = was.table
              /\ manifest' \in {was.manifest, Corrupt}
              /\ drain' \in {was.drain, Corrupt} \cup discarded \cup pruned
              /\ checkpoint' \in {was.checkpoint} \cup discarded]_vars
=============================================================================
