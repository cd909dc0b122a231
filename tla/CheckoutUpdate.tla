---------------------------- MODULE CheckoutUpdate ----------------------------
(***************************************************************************)
(* scripts/fx.ts, `bun fx update` and `bun fx clean`, with                 *)
(* scripts/lib/update-repo-stash.ts, scripts/lib/package-sync.ts and the   *)
(* submodule step of scripts/prepare.ts: the commands that move the        *)
(* checkouts of a workspace, and what becomes of the work in them.         *)
(*                                                                         *)
(* A checkout is at the developer's own commit or at its target (the       *)
(* upstream, the pin, the package's branch); its tree has tracked edits    *)
(* ("mine") and untracked files ("new"); its stash is a list, newest       *)
(* first, of entries of the command ("ours"), of one that died ("left")    *)
(* and of the developer ("theirs").  A command is a sequence of git        *)
(* commands, each of which may fail, while the developer stashes work of   *)
(* his own.                                                                *)
(***************************************************************************)
EXTENDS Naturals, FiniteSets, Sequences, SequencesExt

CONSTANTS
  Root, Subs, Floats,
  Parent,       \* per submodule: the checkout that has its pin
  Scrubbed,     \* floating checkouts that clean scrubs (clean: true)
  Excluded,     \* floating checkouts that root's git clean leaves alone
  Optional,     \* packages that may fail (optional: true)
  Skippable,    \* packages that the environment may tell a command to skip (skipEnv)
  Races,        \* TRUE: another git may run between two steps that must be one
  MaxEdited,    \* bound: checkouts with local work
  MaxStashes,   \* bound: stashes of the developer
  MaxFaults     \* bound: git commands that fail, and crashes

Repos == {Root} \cup Subs \cup Floats
Work == {"mine", "new"}
Depth(r) == IF r = Root THEN 0 ELSE IF r \in Subs /\ Parent[r] # Root THEN 2 ELSE 1
Managed == Repos \ {Root}

VARIABLES
  at,       \* per checkout: "own", "target", "bare" (no files yet) or "absent"
  tree,     \* per checkout: local work in its files
  stash,    \* per checkout: its stash list
  edited,   \* the checkouts that had local work
  lock,     \* the index lock of the root: "none", "held" or "stale"
  run,      \* the command: what it is doing and what it remembers
  counts    \* what the bounds count

vars == <<at, tree, stash, edited, lock, run, counts>>

NoRun == [cmd |-> "none", step |-> "", todo |-> {}, saved |-> {}, on |-> Root, ref |-> 0,
          rootStash |-> FALSE, deep |-> FALSE, ok |-> TRUE]

\* Types; a stash of the command is of a checkout that had local work.
TypeOK ==
  /\ at \in [Repos -> {"own", "target", "bare", "absent"}]
  /\ tree \in [Repos -> SUBSET (Work \cup {"theirs", "conflict"})]
  /\ \A r \in Repos : stash[r] \in Seq({"ours", "left", "theirs"})
  /\ \A r \in Repos : ~Contains(stash[r], "theirs") => (stash[r] = <<>> \/ r \in edited)
  /\ run.saved \subseteq Managed /\ lock \in {"none", "held", "stale"}

Init ==
  /\ edited \in {s \in SUBSET Repos : Cardinality(s) <= MaxEdited}
  /\ tree = [r \in Repos |-> IF r \in edited THEN Work ELSE {}]
  /\ at \in {[r \in Repos |-> IF r \in absent THEN "absent" ELSE "own"] :
               absent \in SUBSET (Floats \ edited)}
  /\ stash = [r \in Repos |-> <<>>]
  /\ lock = "none"
  /\ run = NoRun
  /\ counts = [stashes |-> 0, faults |-> 0]

Count(what, bound) == counts[what] < bound /\ counts' = [counts EXCEPT ![what] = @ + 1]
Fault == Count("faults", MaxFaults)
To(step) == run' = [run EXCEPT !.step = step]
Here(r) == at[r] \in {"own", "target"}
Dirty(r) == Here(r) /\ tree[r] # {}

-----------------------------------------------------------------------------
(* The developer *)

\* Work is stashed by hand; while a command runs, only where that is no race.
UserStash(r) ==
  /\ Here(r) /\ Count("stashes", MaxStashes)
  /\ Races \/ (r # Root /\ run.step # "drop")
  /\ stash' = [stash EXCEPT ![r] = <<"theirs">> \o @]
  /\ UNCHANGED <<at, tree, edited, lock, run>>

\* Another git command takes the index lock of the root, gives it back, or
\* dies (which matters to clean only).
UserLock ==
  /\ run.step = "look" \/ (Races /\ run.step = "unlink")
  /\ \/ lock = "none" /\ lock' = "held"
     \/ lock = "held" /\ lock' \in {"none", "stale"}
     \/ lock = "stale" /\ Races /\ lock' = "none"
  /\ UNCHANGED <<at, tree, stash, edited, run, counts>>

-----------------------------------------------------------------------------
(* update: stash, pull, packages, submodules, restore *)

UpdateStart ==
  /\ run.cmd = "none"
  /\ run' = [NoRun EXCEPT !.cmd = "update", !.step = "stash", !.todo = {r \in Managed : Dirty(r)}]
  /\ UNCHANGED <<at, tree, stash, edited, lock, counts>>

\* prepare.ts: the direct submodules only.
PrepareStart ==
  /\ run.cmd = "none"
  /\ run' = [NoRun EXCEPT !.cmd = "prepare", !.step = "stash",
                          !.todo = {r \in Subs : Parent[r] = Root /\ Dirty(r)}]
  /\ UNCHANGED <<at, tree, stash, edited, lock, counts>>

Deepest(s) == {r \in s : \A q \in s : Depth(q) <= Depth(r)}
Shallowest(s) == {r \in s : \A q \in s : Depth(q) >= Depth(r)}

Stashed(r) ==
  stash' = [stash EXCEPT ![r] = <<"ours">> \o @] /\ tree' = [tree EXCEPT ![r] = {}]

StashOne ==
  /\ run.step = "stash" /\ \E r \in Deepest(run.todo) :
       Stashed(r) /\ run' = [run EXCEPT !.todo = @ \ {r}, !.saved = @ \cup {r}]
  /\ UNCHANGED <<at, edited, lock, counts>>

\* A stash fails: what is stashed so far is restored, with no look at the results.
StashFails ==
  /\ run.step = "stash" /\ run.todo # {} /\ Fault
  /\ run' = [run EXCEPT !.step = "restore", !.todo = run.saved, !.ok = FALSE]
  /\ UNCHANGED <<at, tree, stash, edited, lock>>

\* The root's own stash; prepare has none.
RootStash ==
  /\ run.step = "stash" /\ run.todo = {}
  /\ IF run.cmd = "prepare" THEN To("submodules") /\ UNCHANGED <<tree, stash, counts>>
     ELSE \/ /\ IF Dirty(Root)
               THEN Stashed(Root) /\ run' = [run EXCEPT !.step = "pull", !.rootStash = TRUE]
               ELSE To("pull") /\ UNCHANGED <<tree, stash>>
             /\ UNCHANGED counts
          \/ /\ Dirty(Root) /\ Fault
             /\ run' = [run EXCEPT !.step = "restore", !.todo = run.saved, !.ok = FALSE]
             /\ UNCHANGED <<tree, stash>>
  /\ UNCHANGED <<at, edited, lock>>

Pull ==
  /\ run.step = "pull"
  /\ \/ at' = [at EXCEPT ![Root] = "target"] /\ UNCHANGED counts
        /\ run' = [run EXCEPT !.step = "packages", !.todo = {f \in Floats : Here(f)}]
     \/ Fault /\ run' = [run EXCEPT !.step = "pop", !.ok = FALSE] /\ UNCHANGED at
  /\ UNCHANGED <<tree, stash, edited, lock>>

\* The command is through with package f, well or not; what is optional does not count.
Through(f, well) ==
  run' = [run EXCEPT !.step = IF @ = "files" THEN "ensure" ELSE @, !.todo = @ \ {f},
                     !.ok = run.ok /\ (well \/ f \in Optional)]

\* updatePackage: refused-dirty, fetch and switch, or failed; or the package is skipped.
Package(f) ==
  /\ run.step = "packages" /\ f \in run.todo
  /\ \/ tree[f] = {} /\ at' = [at EXCEPT ![f] = "target"] /\ Through(f, TRUE) /\ UNCHANGED counts
     \/ f \in Skippable /\ Through(f, TRUE) /\ UNCHANGED <<at, counts>>
     \/ (IF tree[f] # {} THEN UNCHANGED counts ELSE Fault) /\ Through(f, FALSE) /\ UNCHANGED at
  /\ UNCHANGED <<tree, stash, edited, lock>>

\* git submodule update --init --recursive, the root's submodules and theirs.
Submodules ==
  /\ run.step = "submodules" \/ (run.step = "packages" /\ run.todo = {})
  /\ LET next == IF run.cmd = "update" THEN "pop" ELSE "restore" IN
     \/ at' = [r \in Repos |-> IF r \in Subs THEN "target" ELSE at[r]] /\ UNCHANGED counts
        /\ run' = [run EXCEPT !.step = next, !.todo = run.saved]
     \/ Fault /\ run' = [run EXCEPT !.step = next, !.todo = run.saved, !.ok = FALSE] /\ UNCHANGED at
  /\ UNCHANGED <<tree, stash, edited, lock>>

\* restoreStashResult: git stash pop stash@{0}, which keeps the entry on a conflict.
Pop ==
  /\ run.step = "pop"
  /\ LET go == [run EXCEPT !.step = "restore", !.todo = run.saved] IN
     IF ~run.rootStash THEN run' = go /\ UNCHANGED <<tree, stash, counts>>
     ELSE \/ /\ stash' = [stash EXCEPT ![Root] = Tail(@)]
             /\ tree' = [tree EXCEPT ![Root] = @ \cup IF Head(stash[Root]) = "ours" THEN Work ELSE {"theirs"}]
             /\ run' = go /\ UNCHANGED counts
          \/ /\ Fault /\ tree' = [tree EXCEPT ![Root] = @ \cup {"conflict"}]
             /\ run' = [go EXCEPT !.ok = FALSE] /\ UNCHANGED stash
  /\ UNCHANGED <<at, edited, lock>>

\* The next checkout to restore is on its own commit again, or the row failed.
Restore(r) ==
  /\ run.step = "restore" /\ r \in Shallowest(run.todo)
  /\ \/ at' = [at EXCEPT ![r] = "own"] /\ run' = [run EXCEPT !.step = "apply", !.on = r]
        /\ UNCHANGED counts
     \/ Fault /\ run' = [run EXCEPT !.todo = @ \ {r}, !.ok = FALSE] /\ UNCHANGED at
  /\ UNCHANGED <<tree, stash, edited, lock>>

\* Mutant: the row of the restore does not count.
AfterAny(ok) == run' = [run EXCEPT !.step = "restore", !.todo = @ \ {run.on}]

After(ok) == run' = [run EXCEPT !.step = "restore", !.todo = @ \ {run.on}, !.ok = @ /\ ok]

Apply ==
  /\ run.step = "apply"
  /\ \/ tree' = [tree EXCEPT ![run.on] = @ \cup Work] /\ To("list") /\ UNCHANGED counts
     \/ Fault /\ tree' = [tree EXCEPT ![run.on] = @ \cup {"conflict"}] /\ After(FALSE)
  /\ UNCHANGED <<at, stash, edited, lock>>

\* Mutant: the newest entry is taken for the one that was applied.
NewestRef(r) == IF stash[r] = <<>> THEN 0 ELSE 1

\* findStashRefByOid.
RefOf(r) == SelectInSeq(stash[r], LAMBDA e : e = "ours")

List ==
  /\ run.step = "list"
  /\ LET ref == RefOf(run.on) IN
     \/ ref # 0 /\ run' = [run EXCEPT !.step = "drop", !.ref = ref] /\ UNCHANGED counts
     \/ ref = 0 /\ After(FALSE) /\ UNCHANGED counts
     \/ Fault /\ After(FALSE)
  /\ UNCHANGED <<at, tree, stash, edited, lock>>

Drop ==
  /\ run.step = "drop"
  /\ \/ stash' = [stash EXCEPT ![run.on] = RemoveAt(@, run.ref)] /\ After(TRUE) /\ UNCHANGED counts
     \/ Fault /\ After(FALSE) /\ UNCHANGED stash
  /\ UNCHANGED <<at, tree, edited, lock>>

Restored ==
  /\ run.step = "restore" /\ run.todo = {} /\ To("done")
  /\ UNCHANGED <<at, tree, stash, edited, lock, counts>>

-----------------------------------------------------------------------------
(* package-sync, mode ensure: clone what is not there *)

EnsureStart ==
  /\ run.cmd = "none"
  /\ run' = [NoRun EXCEPT !.cmd = "ensure", !.step = "ensure", !.todo = Floats]
  /\ UNCHANGED <<at, tree, stash, edited, lock, counts>>

\* What is a checkout is preserved, as soon as its remotes and links are right; the
\* clone of the others has no files yet.  A package may be skipped, and a place that
\* holds something else is left alone and fails.
Ensure(f) ==
  /\ run.step = "ensure" /\ f \in run.todo
  /\ \/ (at[f] # "absent" \/ f \in Skippable)
        /\ Through(f, TRUE) /\ UNCHANGED <<at, counts>>
     \/ Fault /\ Through(f, FALSE) /\ UNCHANGED at
     \/ /\ at[f] = "absent" /\ at' = [at EXCEPT ![f] = "bare"]
        /\ run' = [run EXCEPT !.step = "files", !.on = f] /\ UNCHANGED counts
  /\ UNCHANGED <<tree, stash, edited, lock>>

\* Mutant: the clone of a package whose checkout fails is left.
FilesOrBare ==
  /\ run.step = "files"
  /\ \/ at' = [at EXCEPT ![run.on] = "target"] /\ Through(run.on, TRUE) /\ UNCHANGED counts
     \/ Fault /\ Through(run.on, FALSE) /\ UNCHANGED at
  /\ UNCHANGED <<tree, stash, edited, lock>>

\* checkoutClonedEntry, or the clone is removed.
Files ==
  /\ run.step = "files"
  /\ \/ at' = [at EXCEPT ![run.on] = "target"] /\ Through(run.on, TRUE) /\ UNCHANGED counts
     \/ Fault /\ at' = [at EXCEPT ![run.on] = "absent"] /\ Through(run.on, FALSE)
  /\ UNCHANGED <<tree, stash, edited, lock>>

Ensured ==
  /\ run.step = "ensure" /\ run.todo = {} /\ To("done")
  /\ UNCHANGED <<at, tree, stash, edited, lock, counts>>

-----------------------------------------------------------------------------
(* clean *)

CleanStart(deep) ==
  /\ run.cmd = "none"
  /\ run' = [NoRun EXCEPT !.cmd = "clean", !.step = "look", !.deep = deep]
  /\ UNCHANGED <<at, tree, stash, edited, lock, counts>>

\* Mutant: whether a git process runs is not asked.
LookOnly ==
  /\ run.step = "look" /\ To(IF lock = "none" THEN "reset" ELSE "unlink")
  /\ UNCHANGED <<at, tree, stash, edited, lock, counts>>

\* cleanLockAction: the lock of a running git blocks.
Look ==
  /\ run.step = "look"
  /\ run' = IF lock = "held" THEN [run EXCEPT !.step = "done", !.ok = FALSE]
            ELSE [run EXCEPT !.step = IF lock = "none" THEN "reset" ELSE "unlink"]
  /\ UNCHANGED <<at, tree, stash, edited, lock, counts>>

Unlink ==
  /\ run.step = "unlink" /\ lock' = "none"
  /\ run' = IF lock = "none" THEN [run EXCEPT !.step = "done", !.ok = FALSE] ELSE [run EXCEPT !.step = "reset"]
  /\ UNCHANGED <<at, tree, stash, edited, counts>>

\* One step of clean: its effect, or a row that failed; the next step follows.
Step(from, next, newAt, newTree) ==
  /\ run.step = from
  /\ \/ at' = newAt /\ tree' = newTree /\ To(next) /\ UNCHANGED counts
     \/ Fault /\ run' = [run EXCEPT !.step = next, !.ok = FALSE] /\ UNCHANGED <<at, tree>>
  /\ UNCHANGED <<stash, edited, lock>>

Reset == Step("reset", "pins", at, [tree EXCEPT ![Root] = @ \cap {"new"}])
Pins ==
  Step("pins", "foreach", [r \in Repos |-> IF r \in Subs THEN "target" ELSE at[r]],
       [r \in Repos |-> IF r \in Subs THEN tree[r] \cap {"new"} ELSE tree[r]])
\* Mutant: not --recursive.
ForeachTop ==
  Step("foreach", "floats", at,
       [r \in Repos |-> IF r \in Subs /\ Parent[r] = Root THEN {} ELSE tree[r]])

Foreach ==
  Step("foreach", "floats", at, [r \in Repos |-> IF r \in Subs THEN {} ELSE tree[r]])
ScrubFloats ==
  Step("floats", "root", at, [r \in Repos |-> IF r \in Scrubbed /\ Here(r) THEN {} ELSE tree[r]])

\* Mutant: no floating checkout is excluded.
CleanAll ==
  LET gone == IF run.deep THEN Floats ELSE {} IN
  Step("root", "done", [r \in Repos |-> IF r \in gone THEN "absent" ELSE at[r]],
       [r \in Repos |-> IF r = Root \/ r \in gone THEN {} ELSE tree[r]])

\* git clean -ffd[x] -e ...: with -x also what is ignored, checkouts included.
CleanRoot ==
  LET gone == IF run.deep THEN Floats \ Excluded ELSE {} IN
  Step("root", "done", [r \in Repos |-> IF r \in gone THEN "absent" ELSE at[r]],
       [r \in Repos |-> IF r = Root \/ r \in gone THEN {} ELSE tree[r]])

-----------------------------------------------------------------------------
\* The process dies, at any step; in the middle of a clone only with Races.
Crash ==
  /\ run.cmd # "none" /\ run.step # "done" /\ (Races \/ run.step # "files")
  /\ Fault /\ run' = IF run.cmd = "clean" THEN [run EXCEPT !.step = "done", !.ok = FALSE] ELSE NoRun
  /\ stash' = [r \in Repos |-> [i \in 1 .. Len(stash[r]) |->
                                IF stash[r][i] = "ours" THEN "left" ELSE stash[r][i]]]
  /\ UNCHANGED <<at, tree, edited, lock>>

\* A second command starts where the first has left everything as it was.
Return ==
  /\ run.step = "done" /\ run.cmd = "ensure" /\ run' = NoRun
  /\ UNCHANGED <<at, tree, stash, edited, lock, counts>>

Next ==
  \/ \E r \in Repos : UserStash(r) \/ Restore(r)
  \/ UserLock
  \/ UpdateStart \/ PrepareStart \/ StashOne \/ StashFails \/ RootStash \/ Pull
  \/ \E f \in Floats : Package(f) \/ Ensure(f)
  \/ Submodules \/ Pop \/ Apply \/ List \/ Drop \/ Restored
  \/ EnsureStart \/ Files \/ Ensured
  \/ \E deep \in BOOLEAN : CleanStart(deep)
  \/ Look \/ Unlink \/ Reset \/ Pins \/ Foreach \/ ScrubFloats \/ CleanRoot
  \/ Crash \/ Return

Spec == Init /\ [][Next]_vars

-----------------------------------------------------------------------------
(* Properties *)

Theirs ==
  Cardinality(UNION {{r} \X {i \in DOMAIN stash[r] : stash[r][i] = "theirs"} : r \in Repos})

\* update-repo-stash.ts: whatever fails, wherever it stops, local work is in the
\* files or in a stash, and no stash of the developer's is gone.
WorkKept ==
  run.cmd # "clean" =>
    /\ \A r \in edited :
         Work \subseteq tree[r] \/ Contains(stash[r], "ours") \/ Contains(stash[r], "left")
    /\ Theirs + Cardinality({r \in Repos : "theirs" \in tree[r]}) = counts.stashes

\* "[update] done": what it stashed is back in the files, no stash of its own is
\* left, and the managed checkouts it stashed are on their own commits.
DoneMeansBack ==
  run.step = "done" /\ run.cmd \in {"update", "prepare"} /\ run.ok =>
    /\ \A r \in Repos : ~Contains(stash[r], "ours")
    /\ \A r \in run.saved : tree[r] = Work /\ at[r] = "own"
    /\ run.rootStash => tree[Root] = Work

\* package-sync.ts: an ensure that succeeds leaves no package without its files that
\* must be there; and none half cloned.
PackagesReady ==
  run.step = "done" /\ run.cmd = "ensure" =>
    /\ run.ok => \A f \in Floats \ (Optional \cup Skippable) : Here(f)
    /\ \A f \in Floats : at[f] # "bare"

\* fx.ts: a clean that succeeds leaves no local work but in what it preserves.
CleanIsClean ==
  run.cmd = "clean" /\ run.step = "done" /\ run.ok =>
    \A r \in {Root} \cup Subs \cup Scrubbed : tree[r] = {}

\* fx.ts, FLOATING_REPOS: clean takes nothing from the checkouts that it names and
\* does not scrub.
CleanKeeps ==
  [][run.cmd = "clean" => \A f \in Excluded \ Scrubbed : at'[f] = at[f] /\ tree'[f] = tree[f]]_vars

\* fx.ts, "preserving all floating checkouts".
FloatsKept == \A f \in edited \cap (Floats \ Scrubbed) : at[f] # "absent"

\* cleanLockAction: the lock of a running git is not removed.
LocksRespected == [][run' # run /\ lock = "held" => lock' = "held"]_vars
=============================================================================
