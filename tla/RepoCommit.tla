------------------------------ MODULE RepoCommit ------------------------------
(***************************************************************************)
(* scripts/repos.ts and scripts/lib/repos.ts: `bun fx sync`, `bun fx bump` *)
(* and `bun fx commit` over the tree of repositories: the root, its        *)
(* submodules and theirs.                                                  *)
(*                                                                         *)
(* A repository's history is the set of commits its HEAD reaches, `head`   *)
(* the last of them.  A parent records a commit of every child, its pin,   *)
(* in the index (`index`) and in its HEAD (`pin`).  A command scans every  *)
(* repository once and works from that scan, git command by git command,   *)
(* while others go on pushing.                                             *)
(***************************************************************************)
EXTENDS Naturals, FiniteSets

CONSTANTS
  Root, Subs,
  Parent,      \* per submodule: the repository that has its pin
  Switches,    \* TRUE: the developer may switch branches while a command runs
  MaxCommits,  \* bound: commits after the first
  MaxEdits,    \* bound: edits and switches by the developer
  MaxFaults    \* bound: gates, hooks, fetches and pushes that fail

Repos == Subs \cup {Root}
Children(r) == {c \in Subs : Parent[c] = r}
Depth(r) == IF r = Root THEN 0 ELSE IF Parent[r] = Root THEN 1 ELSE 2
Under(r) == {c \in Subs : r = Root \/ c = r \/ Parent[c] = r}
Commits == 0 .. MaxCommits
Last(s) == CHOOSE c \in s : \A d \in s : d <= c

VARIABLES
  branch, head, history,  \* per repository
  track, origin,          \* what the remote-tracking branch and the remote reach
  work,                   \* files are changed
  index, pin,             \* per submodule
  cmd,                    \* the command that runs, with its scan
  counts,                 \* what the bounds count
  made                    \* what the tool did: own commits, recorded pins, pushes

git == <<branch, head, history, track, origin, work, index, pin>>
vars == <<git, cmd, counts, made>>

NoPlan == [r \in Repos |-> [pins |-> {}, push |-> "no"]]
NoCommand ==
  [name |-> "none", step |-> "", todo |-> {}, on |-> Root, all |-> FALSE, plan |-> NoPlan,
   heads |-> [r \in Repos |-> 0], clean |-> {}, ok |-> TRUE]
Idle == cmd.name = "none"

\* git status --porcelain: changed files, a staged pin, a submodule that moved.
Dirty(r) ==
  \E s \in {r} \cup (Under(r) \ {Root}) :
    work[s] \/ \E c \in Children(s) : index[c] # pin[c] \/ head[c] # index[c]

\* Types; a HEAD is in its own history, and so is what is tracked in the remote's.
TypeOK ==
  /\ branch \in [Repos -> {"main", "topic", "DETACHED"}] /\ work \in [Repos -> BOOLEAN]
  /\ head \in [Repos -> Commits] /\ index \in [Subs -> Commits] /\ pin \in [Subs -> Commits]
  /\ \A r \in Repos :
       head[r] \in history[r] /\ history[r] \subseteq Commits /\ track[r] \subseteq origin[r]
  /\ cmd.name \in {"none", "commit", "bump", "sync", "done"}

Init ==
  /\ branch \in [Repos -> {"main", "topic", "DETACHED"}]
  /\ head = [r \in Repos |-> 0] /\ history = [r \in Repos |-> {0}]
  /\ track = [r \in Repos |-> {0}] /\ origin = [r \in Repos |-> {0}]
  /\ work = [r \in Repos |-> FALSE]
  /\ index = [c \in Subs |-> 0] /\ pin = [c \in Subs |-> 0]
  /\ cmd = NoCommand
  /\ counts = [commits |-> 0, edits |-> 0, faults |-> 0]
  /\ made = [own |-> {}, recorded |-> {}, pushed |-> {}]

Count(what, bound) == counts[what] < bound /\ counts' = [counts EXCEPT ![what] = @ + 1]
New == counts.commits + 1
Done(ok) == cmd' = [NoCommand EXCEPT !.name = "done", !.ok = ok, !.all = cmd.all]

-----------------------------------------------------------------------------
(* The developer and the others *)

Edit(r) ==
  /\ Idle /\ Count("edits", MaxEdits) /\ ~work[r]
  /\ work' = [work EXCEPT ![r] = TRUE]
  /\ UNCHANGED <<branch, head, history, track, origin, index, pin, cmd, made>>

\* A commit by hand in a submodule, not pushed.
HandCommit(r) ==
  /\ Idle /\ r # Root /\ Count("commits", MaxCommits)
  /\ head' = [head EXCEPT ![r] = New] /\ history' = [history EXCEPT ![r] = @ \cup {New}]
  /\ UNCHANGED <<branch, track, origin, work, index, pin, cmd, made>>

OthersPush(r) ==
  /\ Count("commits", MaxCommits)
  /\ origin' = [origin EXCEPT ![r] = @ \cup {New}]
  /\ UNCHANGED <<branch, head, history, track, work, index, pin, cmd, made>>

Switch(r, b) ==
  /\ Switches /\ Count("edits", MaxEdits)
  /\ branch' = [branch EXCEPT ![r] = b]
  /\ UNCHANGED <<head, history, track, origin, work, index, pin, cmd, made>>

-----------------------------------------------------------------------------
(* commit *)

\* planCommit: the pins a repository's commit will record, by the scan.
PlanOf(r, push) ==
  [pins |-> {c \in Children(r) : index[c] # head[c]},
   push |-> IF ~push THEN "no" ELSE IF branch[r] = "main" THEN "refused-main" ELSE "yes"]

\* Mutant: a detached HEAD is committed like any branch.
OnlyMain(todo, plan) ==
  \E r \in todo : \E c \in plan[r].pins \cap todo : plan[c].push = "refused-main"

Violations(todo, plan) ==
  \/ \E r \in todo : branch[r] = "DETACHED"
  \/ \E r \in todo : \E c \in plan[r].pins \cap todo : plan[c].push = "refused-main"

CommitStart(scope, push) ==
  /\ Idle
  /\ LET todo == {r \in scope : Dirty(r)}
         plan == [r \in Repos |-> PlanOf(r, push)]
     IN /\ todo # {} /\ ~Violations(todo, plan)
        /\ cmd' = [name |-> "commit", step |-> "gates", todo |-> todo, on |-> Root,
                   all |-> scope = Repos, plan |-> plan, heads |-> head,
                   clean |-> {r \in Repos : ~Dirty(r)}, ok |-> TRUE]
  /\ UNCHANGED <<git, counts, made>>

GatesPass ==
  /\ cmd.step = "gates" /\ cmd' = [cmd EXCEPT !.step = "check"]
  /\ UNCHANGED <<git, counts, made>>

\* Mutant: parents first.
RootFirst(r) == cmd.step = "check" /\ r \in cmd.todo /\ \A s \in cmd.todo : Depth(s) >= Depth(r)

\* orderLeafFirst.
Turn(r) == cmd.step = "check" /\ r \in cmd.todo /\ \A s \in cmd.todo : Depth(s) <= Depth(r)

\* Mutant: what the remote has is not looked at.
Unguarded(r) == \A c \in cmd.plan[r].pins : cmd.heads[c] \in history[c]

\* The dangling-pin guard: the heads of the scan, in the tracking branches.
Guarded(r) == \A c \in cmd.plan[r].pins : cmd.heads[c] \in track[c]

\* BLOCKED, or git commit with nothing staged (files of a submodule are changed).
Refused(r) ==
  /\ Turn(r) /\ (Guarded(r) => ~work[r] /\ \A c \in Children(r) : head[c] = pin[c])
  /\ Done(FALSE)
  /\ UNCHANGED <<git, counts, made>>

\* git add -A and git commit: the children's HEADs as they are now.
CommitOne(r) ==
  /\ Turn(r) /\ Guarded(r) /\ (work[r] \/ \E c \in Children(r) : head[c] # pin[c])
  /\ Count("commits", MaxCommits)
  /\ head' = [head EXCEPT ![r] = New] /\ history' = [history EXCEPT ![r] = @ \cup {New}]
  /\ work' = [work EXCEPT ![r] = FALSE]
  /\ index' = [c \in Subs |-> IF Parent[c] = r THEN head[c] ELSE index[c]]
  /\ pin' = [c \in Subs |-> IF Parent[c] = r THEN head[c] ELSE pin[c]]
  /\ made' = [made EXCEPT
       !.own = @ \cup {<<r, branch[r]>>},
       !.recorded = @ \cup {[repo |-> c, commit |-> head[c], clean |-> c \in cmd.clean,
                             seen |-> c \in cmd.plan[r].pins] :
                              c \in {d \in Children(r) : pin[d] # head[d]}}]
  /\ IF cmd.plan[r].push = "yes" THEN cmd' = [cmd EXCEPT !.step = "push", !.on = r]
     ELSE IF cmd.todo = {r} THEN Done(TRUE) ELSE cmd' = [cmd EXCEPT !.todo = @ \ {r}]
  /\ UNCHANGED <<branch, track, origin>>

\* git push origin HEAD, refused when the remote has moved on.
Push ==
  /\ cmd.step = "push"
  /\ LET r == cmd.on IN
     IF origin[r] \subseteq history[r]
       THEN /\ origin' = [origin EXCEPT ![r] = history[r]] /\ track' = [track EXCEPT ![r] = history[r]]
            /\ made' = [made EXCEPT !.pushed = @ \cup {<<r, branch[r]>>}]
            /\ IF cmd.todo = {r} THEN Done(TRUE)
               ELSE cmd' = [cmd EXCEPT !.todo = @ \ {r}, !.step = "check"]
       ELSE Done(FALSE) /\ UNCHANGED <<origin, track, made>>
  /\ UNCHANGED <<branch, head, history, work, index, pin, counts>>

CommitFails ==
  /\ cmd.name = "commit" /\ Count("faults", MaxFaults) /\ Done(FALSE)
  /\ UNCHANGED <<git, made>>

-----------------------------------------------------------------------------
(* sync and bump *)

SyncStart ==
  /\ Idle
  /\ LET on == {r \in Subs : branch[r] # "DETACHED"} IN
     on # {} /\ cmd' = [NoCommand EXCEPT !.name = "sync", !.step = "fetch", !.todo = on]
  /\ UNCHANGED <<git, counts, made>>

\* Mutant: a submodule with changed files is advanced.
BumpDirty(r) ==
  /\ Idle /\ Parent[r] = Root /\ branch[r] # "DETACHED"
  /\ cmd' = [NoCommand EXCEPT !.name = "bump", !.step = "fetch", !.todo = {r}]
  /\ UNCHANGED <<git, counts, made>>

BumpStart(r) ==
  /\ Idle /\ Parent[r] = Root /\ branch[r] # "DETACHED" /\ ~Dirty(r)
  /\ cmd' = [NoCommand EXCEPT !.name = "bump", !.step = "fetch", !.todo = {r}]
  /\ UNCHANGED <<git, counts, made>>

\* The loop goes on with the next repository, and the exit says whether any failed.
Over(r, ok) ==
  IF cmd.todo = {r} THEN Done(cmd.ok /\ ok)
  ELSE cmd' = [cmd EXCEPT !.todo = @ \ {r}, !.step = "fetch", !.ok = @ /\ ok]

Fetch(r) ==
  /\ cmd.step = "fetch" /\ r \in cmd.todo
  /\ \/ track' = [track EXCEPT ![r] = origin[r]] /\ UNCHANGED counts
        /\ cmd' = [cmd EXCEPT !.step = "merge", !.on = r]
     \/ Count("faults", MaxFaults) /\ Over(r, FALSE) /\ UNCHANGED track
  /\ UNCHANGED <<branch, head, history, origin, work, index, pin, made>>

\* Mutant: what has diverged is reset to the remote.
ResetToRemote(r) ==
  /\ head' = [head EXCEPT ![r] = Last(track[r])] /\ history' = [history EXCEPT ![r] = track[r]]

\* git merge --ff-only @{u}; sync does not try when the two have diverged.
FastForward(r) ==
  IF history[r] \subseteq track[r]
    THEN head' = [head EXCEPT ![r] = Last(track[r])] /\ history' = [history EXCEPT ![r] = track[r]]
    ELSE UNCHANGED <<head, history>>

\* bump stages the new HEAD in the root; where it has diverged, it stages nothing.
Merge ==
  /\ cmd.step = "merge"
  /\ LET r == cmd.on
         stuck == ~(history[r] \subseteq track[r]) /\ ~(track[r] \subseteq history[r])
     IN /\ FastForward(r)
        /\ index' = IF cmd.name = "bump" /\ ~stuck THEN [index EXCEPT ![r] = head'[r]] ELSE index
        /\ Over(r, ~stuck)
  /\ UNCHANGED <<branch, track, origin, work, pin, counts, made>>

\* Changed files are in the way.
MergeFails ==
  /\ cmd.step = "merge" /\ work[cmd.on] /\ Count("faults", MaxFaults) /\ Over(cmd.on, FALSE)
  /\ UNCHANGED <<git, made>>

Return == cmd.name = "done" /\ cmd' = NoCommand /\ UNCHANGED <<git, counts, made>>

Next ==
  \/ \E r \in Repos :
       \/ Edit(r) \/ HandCommit(r) \/ OthersPush(r)
       \/ Refused(r) \/ CommitOne(r) \/ Fetch(r)
       \/ \E b \in {"main", "topic", "DETACHED"} : Switch(r, b)
  \/ \E r \in Subs : BumpStart(r)
  \/ \E scope \in {Repos} \cup {{r} : r \in Repos}, push \in BOOLEAN : CommitStart(scope, push)
  \/ GatesPass \/ Push \/ CommitFails \/ SyncStart \/ Merge \/ MergeFails \/ Return

Spec == Init /\ [][Next]_vars

-----------------------------------------------------------------------------
(* Properties *)

\* repos.ts, "a parent may only record a child pin whose sha already exists on
\* the child's remote".  (The guard looks at the heads of the scan, and only at
\* pins that are not staged: a child that the same run commits breaks this.)
PinsOnRemote == \A x \in made.recorded : x.commit \in track[x.repo]

\* What the guard does see is on the remote: a moved submodule with nothing of
\* its own to commit.
GuardedPins == \A x \in made.recorded : x.seen /\ x.clean => x.commit \in track[x.repo]

\* repos.ts, "no detached-HEAD commits, no pushes to main".
Rails ==
  /\ \A x \in made.own : x[2] # "DETACHED"
  /\ \A x \in made.pushed : x[2] # "main"

\* "Leaf-first multi-repo commit": a commit of everything that succeeds leaves
\* every change committed and every pin at its child's HEAD.
AllRecorded ==
  cmd.name = "done" /\ cmd.all /\ cmd.ok =>
    \A r \in Repos : ~work[r] /\ (r # Root => pin[r] = head[r] /\ index[r] = head[r])

\* bump: "worktree dirty ... clean or commit before bumping".
BumpsClean == cmd.name = "bump" => \A r \in cmd.todo : \A s \in Under(r) : ~work[s]

\* sync and bump fast-forward: a commit that a HEAD reaches stays reached.
NothingLost == [][\A r \in Repos : history[r] \subseteq history'[r]]_vars
=============================================================================
