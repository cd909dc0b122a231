------------------------------ MODULE Extensions ------------------------------
(***************************************************************************)
(* packages/game-plugin/src/extensions/manager.ts: extensions of the       *)
(* plugin that are enabled in, disabled in and run in projects.  To enable *)
(* one is to write its skill for every host, its configuration and the     *)
(* record install.json, all under the lock of the project, and to enter    *)
(* the project in the registry of the user, which has no lock.             *)
(*                                                                         *)
(* The text of a skill is the version that wrote it, the launcher that is  *)
(* in it included, or Mine, what a user made of it.                        *)
(***************************************************************************)
EXTENDS Naturals, FiniteSets

CONSTANTS
  Actors,      \* processes of the plugin
  Projects, Exts, Hosts,
  Free,        \* not a process: nobody has the lock
  Versions,    \* releases of the plugin, numbers from 1
  Meddles,     \* TRUE: users edit while an operation is at work
  Races,       \* TRUE: two processes may be at the registry at a time
  MaxOps,      \* bound: operations
  MaxEdits,    \* bound: edits by users
  MaxFaults    \* bound: writes that fail, and processes that die

VARIABLES
  file,      \* the skills: per project, extension and host
  config,    \* config.json, likewise
  rec,       \* install.json, likewise
  lock,      \* per project: extension-operation.lock
  reg,       \* extension-projects.json
  proc,      \* per process: the operation it is in
  backups,   \* extension-backups: the files a user's text was moved from
  mine,      \* history: the files a user has edited
  died,      \* history: the projects an operation died in
  counts     \* what the bounds count

vars == <<file, config, rec, lock, reg, proc, backups, mine, died, counts>>

Absent == 0
Mine == Cardinality(Versions) + 1
NoRecord == [version |-> 0, sha |-> [h \in Hosts |-> 0]]
Idle == [op |-> "none", step |-> "idle", project |-> Free, ext |-> Free, version |-> 0, hosts |-> {},
         left |-> {}, old |-> NoRecord, saved |-> [h \in Hosts |-> 0], seen |-> {}, todo |-> {}, ok |-> TRUE]

Files == Projects \X Exts \X Hosts
Texts == {Absent, Mine} \cup Versions
Records == [version : {0} \cup Versions, sha : [Hosts -> {0} \cup Versions]]
Steps == {"idle", "busy", "lock", "check", "await", "config", "files", "record", "read", "register", "undo", "remove",
          "forget", "run", "unlock", "next"}

\* Types; a lock is held by a process at work in that project, unless one died.
TypeOK ==
  /\ file \in [Files -> Texts] /\ config \in [Projects \X Exts -> {0} \cup Versions]
  /\ rec \in [Projects \X Exts -> Records] /\ reg \in SUBSET Projects
  /\ lock \in [Projects -> {Free} \cup Actors] /\ died \in SUBSET Projects
  /\ backups \in SUBSET Files /\ mine \in SUBSET Files
  /\ \A a \in Actors : proc[a].step \in Steps /\ proc[a].old \in Records
  /\ \A p \in Projects \ died : lock[p] # Free => proc[lock[p]].project = p

Init ==
  /\ file = [f \in Files |-> Absent] /\ config = [k \in Projects \X Exts |-> 0]
  /\ rec = [k \in Projects \X Exts |-> NoRecord] /\ lock = [p \in Projects |-> Free]
  /\ reg = {} /\ proc = [a \in Actors |-> Idle] /\ backups = {} /\ mine = {} /\ died = {}
  /\ counts = [ops |-> 0, edits |-> 0, faults |-> 0]

Count(what, bound) == counts[what] < bound /\ counts' = [counts EXCEPT ![what] = @ + 1]
Key(a) == <<proc[a].project, proc[a].ext>>
File(a, h) == <<proc[a].project, proc[a].ext, h>>
At(a, step) == proc[a].step = step
To(a, step) == proc' = [proc EXCEPT ![a].step = step]
\* The hosts come in a fixed order.
First(S) == CHOOSE h \in S : TRUE
Installed(p) == {e \in Exts : rec[p, e] # NoRecord}

-----------------------------------------------------------------------------
(* What users do *)

\* An edit of a skill, or another in its place; its removal; the removal of a
\* lock that is left over.
Edit(f) ==
  /\ Meddles \/ lock[f[1]] = Free
  /\ file[f] # Mine /\ Count("edits", MaxEdits)
  /\ file' = [file EXCEPT ![f] = Mine] /\ mine' = mine \cup {f}
  /\ UNCHANGED <<config, rec, lock, reg, proc, backups, died>>

RemoveSkill(f) ==
  /\ Meddles \/ lock[f[1]] = Free
  /\ file[f] # Absent /\ Count("edits", MaxEdits)
  /\ file' = [file EXCEPT ![f] = Absent] /\ mine' = mine \ {f}
  /\ UNCHANGED <<config, rec, lock, reg, proc, backups, died>>

RemoveLock(p) ==
  /\ lock[p] # Free /\ proc[lock[p]].project # p
  /\ lock' = [lock EXCEPT ![p] = Free]
  /\ UNCHANGED <<file, config, rec, reg, proc, backups, mine, died, counts>>

\* forgeax-game <extension> enable, disable and its own operations.
Start(a, op, p, e, v, hosts) ==
  /\ At(a, "idle") /\ Count("ops", MaxOps)
  /\ proc' = [proc EXCEPT ![a] = [Idle EXCEPT !.op = op, !.step = "lock", !.project = p, !.ext = e,
                                             !.version = v, !.hosts = hosts]]
  /\ UNCHANGED <<file, config, rec, lock, reg, backups, mine, died>>

\* forgeax-game uninstall --all-projects: the registry is read once.
StartAll(a) ==
  /\ At(a, "idle") /\ Count("ops", MaxOps)
  /\ proc' = [proc EXCEPT ![a] = [Idle EXCEPT !.op = "all", !.step = "next", !.todo = reg \X Exts]]
  /\ UNCHANGED <<file, config, rec, lock, reg, backups, mine, died>>

-----------------------------------------------------------------------------
(* The lock *)

\* Mutant: nobody looks at the lock.
Barge(a) ==
  /\ At(a, "lock") /\ lock' = [lock EXCEPT ![proc[a].project] = a] /\ To(a, "check")
  /\ UNCHANGED <<file, config, rec, reg, backups, mine, died, counts>>

\* lock: a directory that is not there yet, or extension_busy.
Lock(a) ==
  /\ At(a, "lock")
  /\ IF lock[proc[a].project] = Free
       THEN lock' = [lock EXCEPT ![proc[a].project] = a] /\ To(a, "check")
       ELSE To(a, "busy") /\ UNCHANGED lock
  /\ UNCHANGED <<file, config, rec, reg, backups, mine, died, counts>>

\* The operation is over, or the next of uninstall --all-projects comes.
Done(a, ok) ==
  proc' = [proc EXCEPT ![a] = IF @.op = "all" THEN [@ EXCEPT !.step = "next", !.project = Free, !.ok = @ /\ ok] ELSE Idle]

Busy(a) == At(a, "busy") /\ Done(a, FALSE) /\ UNCHANGED <<file, config, rec, lock, reg, backups, mine, died, counts>>

Unlock(a) ==
  /\ At(a, "unlock") /\ lock' = [lock EXCEPT ![proc[a].project] = Free] /\ Done(a, TRUE)
  /\ UNCHANGED <<file, config, rec, reg, backups, mine, died, counts>>

-----------------------------------------------------------------------------
(* To enable *)

\* enableUnlocked: a skill that is there is to be as the record has it.
Conflicts(a) ==
  /\ At(a, "check") /\ proc[a].op = "enable"
  /\ proc' = [proc EXCEPT ![a].old = rec[Key(a)],
       ![a].step = IF \E h \in proc[a].hosts : file[File(a, h)] \notin {Absent, rec[Key(a)].sha[h]} THEN "unlock" ELSE "await"]
  /\ UNCHANGED <<file, config, rec, lock, reg, backups, mine, died, counts>>

\* The extension looks at its services, for as long as it takes; then what is
\* there is read, to be put back.
Checked(a, ok) ==
  /\ At(a, "await")
  /\ proc' = [proc EXCEPT ![a].step = IF ok THEN "config" ELSE "unlock", ![a].left = proc[a].hosts,
                          ![a].saved = [h \in Hosts |-> file[File(a, h)]]]
  /\ UNCHANGED <<file, config, rec, lock, reg, backups, mine, died, counts>>

WriteConfig(a) ==
  /\ At(a, "config") /\ To(a, "files") /\ config' = [config EXCEPT ![Key(a)] = proc[a].version]
  /\ UNCHANGED <<file, rec, lock, reg, backups, mine, died, counts>>

WriteSkill(a) ==
  /\ At(a, "files")
  /\ LET h == First(proc[a].left) IN
     /\ file' = [file EXCEPT ![File(a, h)] = proc[a].version]
     /\ proc' = [proc EXCEPT ![a].left = @ \ {h}, ![a].step = IF proc[a].left = {h} THEN "record" ELSE "files"]
  /\ UNCHANGED <<config, rec, lock, reg, backups, mine, died, counts>>

WriteRecord(a) ==
  /\ At(a, "record") /\ To(a, "read")
  /\ rec' = [rec EXCEPT ![Key(a)] = [version |-> proc[a].version,
       sha |-> [h \in Hosts |-> IF h \in proc[a].hosts THEN proc[a].version ELSE proc[a].old.sha[h]]]]
  /\ UNCHANGED <<file, config, lock, reg, backups, mine, died, counts>>

\* register: the registry is read and, by a rename, written.
ReadRegistry(a) ==
  /\ At(a, "read") /\ (Races \/ \A b \in Actors : ~At(b, "register"))
  /\ proc' = [proc EXCEPT ![a].step = "register", ![a].seen = reg]
  /\ UNCHANGED <<file, config, rec, lock, reg, backups, mine, died, counts>>

WriteRegistry(a) ==
  /\ At(a, "register") /\ To(a, "unlock")
  /\ reg' = IF proc[a].op = "enable" THEN proc[a].seen \cup {proc[a].project} ELSE proc[a].seen \ {proc[a].project}
  /\ UNCHANGED <<file, config, rec, lock, backups, mine, died, counts>>

Fails(a) ==
  /\ proc[a].op = "enable" /\ proc[a].step \in {"config", "files", "record", "read", "register"}
  /\ Count("faults", MaxFaults) /\ To(a, "undo")
  /\ UNCHANGED <<file, config, rec, lock, reg, backups, mine, died>>

\* Mutant: the record stays as it was written.
UndoFiles(a) ==
  /\ At(a, "undo") /\ To(a, "unlock")
  /\ file' = [f \in Files |-> IF \E h \in proc[a].hosts : f = File(a, h) THEN proc[a].saved[f[3]] ELSE file[f]]
  /\ UNCHANGED <<rec, config, lock, reg, backups, mine, died, counts>>

\* Mutant: it is as if the project had no extension.
UndoRegistry(a) ==
  /\ At(a, "undo") /\ To(a, "unlock")
  /\ file' = [f \in Files |-> IF \E h \in proc[a].hosts : f = File(a, h) THEN proc[a].saved[f[3]] ELSE file[f]]
  /\ rec' = [rec EXCEPT ![Key(a)] = proc[a].old] /\ config' = [config EXCEPT ![Key(a)] = proc[a].old.version]
  /\ reg' = reg \ {proc[a].project}
  /\ UNCHANGED <<lock, backups, mine, died, counts>>

\* Everything that was remembered is put back.
Undo(a) ==
  /\ At(a, "undo") /\ To(a, "unlock")
  /\ file' = [f \in Files |-> IF \E h \in proc[a].hosts : f = File(a, h) THEN proc[a].saved[f[3]] ELSE file[f]]
  /\ rec' = [rec EXCEPT ![Key(a)] = proc[a].old] /\ config' = [config EXCEPT ![Key(a)] = proc[a].old.version]
  /\ UNCHANGED <<lock, reg, backups, mine, died, counts>>

-----------------------------------------------------------------------------
(* To disable, and to run *)

\* uninstall --all-projects: the next extension that is installed.
NextInstalled(a) ==
  /\ At(a, "next")
  /\ \/ \E k \in proc[a].todo :
          proc' = [proc EXCEPT ![a].todo = @ \ {k},
                     ![a].step = IF rec[k] # NoRecord THEN "lock" ELSE "next",
                     ![a].project = IF rec[k] # NoRecord THEN k[1] ELSE Free, ![a].ext = k[2]]
     \/ proc[a].todo = {} /\ proc' = [proc EXCEPT ![a] = Idle]
  /\ UNCHANGED <<file, config, rec, lock, reg, backups, mine, died, counts>>

Disable(a) ==
  /\ At(a, "check") /\ proc[a].op \in {"disable", "all"}
  /\ proc' = [proc EXCEPT ![a].old = rec[Key(a)], ![a].left = {h \in Hosts : rec[Key(a)].sha[h] # 0},
       ![a].step = IF rec[Key(a)] = NoRecord THEN "unlock" ELSE "remove"]
  /\ UNCHANGED <<file, config, rec, lock, reg, backups, mine, died, counts>>

\* Mutant: the skill goes, whoever wrote it.
RemoveAny(a) ==
  /\ At(a, "remove") /\ proc[a].left # {}
  /\ LET h == First(proc[a].left) IN
     file' = [file EXCEPT ![File(a, h)] = Absent] /\ proc' = [proc EXCEPT ![a].left = @ \ {h}]
  /\ UNCHANGED <<config, rec, lock, reg, backups, mine, died, counts>>

\* A skill that is not as recorded is moved to the backups.
Remove(a) ==
  /\ At(a, "remove") /\ proc[a].left # {}
  /\ LET h == First(proc[a].left)
          f == File(a, h) IN
     /\ file' = [file EXCEPT ![f] = Absent] /\ proc' = [proc EXCEPT ![a].left = @ \ {h}]
     /\ backups' = IF file[f] \notin {Absent, proc[a].old.sha[h]} THEN backups \cup {f} ELSE backups
  /\ UNCHANGED <<config, rec, lock, reg, mine, died, counts>>

\* The state of the extension goes; with the last one the project leaves the registry.
Forget(a) ==
  /\ At(a, "remove") /\ proc[a].left = {}
  /\ config' = [config EXCEPT ![Key(a)] = 0] /\ rec' = [rec EXCEPT ![Key(a)] = NoRecord]
  /\ To(a, IF Installed(proc[a].project) = {proc[a].ext} THEN "read" ELSE "unlock")
  /\ UNCHANGED <<file, lock, reg, backups, mine, died, counts>>

\* Mutant: an extension of any version is run.
RunAny(a) ==
  /\ At(a, "check") /\ proc[a].op = "run" /\ To(a, "run")
  /\ UNCHANGED <<file, config, rec, lock, reg, backups, mine, died, counts>>

\* runExtension: it is enabled, by this version; the lock is kept while it runs.
Run(a) ==
  /\ At(a, "check") /\ proc[a].op = "run"
  /\ To(a, IF rec[Key(a)].version = proc[a].version THEN "run" ELSE "unlock")
  /\ UNCHANGED <<file, config, rec, lock, reg, backups, mine, died, counts>>

RunEnds(a) ==
  /\ At(a, "run") /\ To(a, "unlock")
  /\ UNCHANGED <<file, config, rec, lock, reg, backups, mine, died, counts>>

\* A process dies, and its lock stays.
Dies(a) ==
  /\ proc[a].project # Free /\ proc[a].step \notin {"lock", "busy"} /\ Count("faults", MaxFaults)
  /\ proc' = [proc EXCEPT ![a] = Idle] /\ died' = died \cup {proc[a].project}
  /\ UNCHANGED <<file, config, rec, lock, reg, backups, mine>>

Next ==
  \/ \E f \in Files : Edit(f) \/ RemoveSkill(f)
  \/ \E p \in Projects : RemoveLock(p)
  \/ \E a \in Actors :
       \/ \E p \in Projects, e \in Exts : Start(a, "disable", p, e, 0, {})
       \/ \E p \in Projects, e \in Exts, v \in Versions :
            \/ Start(a, "run", p, e, v, {})
            \/ \E hosts \in SUBSET Hosts \ {{}} : Start(a, "enable", p, e, v, hosts)
       \/ StartAll(a) \/ NextInstalled(a)
       \/ Lock(a) \/ Busy(a) \/ Unlock(a) \/ Conflicts(a) \/ WriteConfig(a) \/ WriteRecord(a)
       \/ ReadRegistry(a) \/ WriteRegistry(a) \/ Fails(a) \/ Undo(a)
       \/ \E ok \in BOOLEAN : Checked(a, ok)
       \/ WriteSkill(a) \/ Remove(a)
       \/ Disable(a) \/ Forget(a) \/ Run(a) \/ RunEnds(a) \/ Dies(a)

Spec == Init /\ [][Next]_vars

-----------------------------------------------------------------------------
(* Properties *)

\* manager.ts, extension_skill_conflict and the backups: what a user has made of
\* a skill is in its place, or in the backups.
EditsKept == \A f \in mine : file[f] = Mine \/ f \in backups

\* manager.ts, the catch of enableUnlocked: outside of an operation a skill the
\* plugin wrote is in the record as it is, unless an operation died there.
NoOrphans ==
  \A f \in Files : lock[f[1]] = Free /\ f[1] \notin died /\ file[f] \in Versions =>
    rec[f[1], f[2]].sha[f[3]] = file[f]

\* The same, wherever an operation died.
NoOrphansEver ==
  \A f \in Files : lock[f[1]] = Free /\ file[f] \in Versions => rec[f[1], f[2]].sha[f[3]] = file[f]

\* register: a project with an extension is in the registry, from which
\* uninstall --all-projects finds it.
Registered == \A p \in Projects : lock[p] = Free /\ p \notin died /\ Installed(p) # {} => p \in reg

\* runExtension: while an extension runs, it is enabled, in the version that runs.
RunsEnabled == \A a \in Actors : At(a, "run") => rec[Key(a)].version = proc[a].version

\* enableUnlocked: the skills of an extension all call the version that is enabled.
SkillsMatch ==
  \A p \in Projects, e \in Exts, h \in Hosts :
    lock[p] = Free /\ file[p, e, h] \in Versions /\ rec[p, e] # NoRecord => file[p, e, h] = rec[p, e].version
=============================================================================
