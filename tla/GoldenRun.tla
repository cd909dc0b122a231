------------------------------ MODULE GoldenRun ------------------------------
(***************************************************************************)
(* The golden runner (scripts/golden-runner): acceptance cases run against *)
(* the product, alone (l4a, on the studio's server) or with a model's turn *)
(* on a server the runner owns (l4b).  Runs share a project and may        *)
(* overlap; one that dies leaves its session, its game and its run-state   *)
(* file, which a later run cleans up.  The case is role-slice: a session,  *)
(* one role created through the kernel, the role listed, the role's pack   *)
(* removed.                                                                *)
(*                                                                         *)
(* A run is a process with a program counter; between its steps the server *)
(* works on the model's turn, flushes the ledger, and other runs proceed.  *)
(* The environment kills a runner or a server, holds an answer back past a *)
(* timeout and lets the scaffold rewrite the agent's configuration, each   *)
(* as often as its bound allows.                                           *)
(***************************************************************************)
EXTENDS Naturals, Sequences, FiniteSets, SequencesExt

CONSTANTS
  Runs,         \* runner processes; a run's slug and session are named by it
  Ports,        \* loopback ports the system may hand out
  Modes,        \* runner -> the modes it is run in, of {"l4a", "l4b"}
  Shares,       \* may two servers that start at once be given one port?
  Makes,        \* what a turn makes: "pack", "game", and "active" for a game it activates
  Transcripts,  \* what a model's turn may show on the wire
  MaxTries,     \* attempts at a kernel tool that is not live yet (25 in the code)
  MaxCrashes,   \* runners that die
  MaxFaults,    \* servers that die, timeouts, answers that refuse a deletion
  MaxScaffolds, \* times the scaffold rewrites an agent.json that is locked
  Refuses,      \* may the product refuse to delete a session or a game?
  Outlives,     \* does the product go on with a turn whose client has gone?
  Lags          \* may the ledger gain a second assistant row after the turn?

VARIABLES
  run,     \* runner -> its program counter and memory
  server,  \* runner -> its own server and the port it was given
  file,    \* runner -> runs/<id>.json: "none", "torn", "bare" or "sid"
  left,    \* runner -> what of it is on disk
  active,  \* the game active-game.json names: "user", "none" or a run
  turn,    \* runner -> its agent's configuration, turn, ledger and wire events
  counts   \* how often each bounded thing happened

vars == <<run, server, file, left, active, turn, counts>>

Kinds == {"bound", "flat", "game", "pack"}
Idle == [pc |-> "idle", mode |-> "l4a", exit |-> 0, sid |-> FALSE, todo |-> {}, seen |-> {},
         who |-> "none", read |-> "none",
         foreign |-> FALSE, tries |-> 0]
NoTurn == [phase |-> "none", conf |-> "default", used |-> "default",
           rows |-> <<>>, wire |-> [by |-> {}, events |-> <<>>]]

Init ==
  /\ run = [r \in Runs |-> Idle]
  /\ server = [r \in Runs |-> [status |-> "none", port |-> CHOOSE p \in Ports : TRUE]]
  /\ file = [r \in Runs |-> "none"]
  /\ left = [r \in Runs |-> {}]
  /\ active = "user"
  /\ turn = [r \in Runs |-> NoTurn]
  /\ counts = [crashes |-> 0, faults |-> 0, scaffolds |-> 0]

At(r, pc) == run[r].pc = pc
Live(r) == run[r].pc \notin {"idle", "done", "dead"}
Go(r, pc) == run' = [run EXCEPT ![r].pc = pc]
Fault == counts.faults < MaxFaults /\ counts' = [counts EXCEPT !.faults = @ + 1]

\* The first failure decides the exit code: 1 for an assertion, 2 for the rest.
Fail(r, code, pc) ==
  run' = [run EXCEPT ![r].pc = pc, ![r].exit = IF @ = 0 THEN code ELSE @]

\* Who listens on a port, and whether something answers at a run's base URL.
Bound(p) == {r \in Runs : server[r].status = "bound" /\ server[r].port = p}
Own(r) == server[r].status = "bound"
Answers(r) == run[r].mode = "l4a" \/ Bound(server[r].port) # {}
\* A request of r that is answered; foreign if another run's server answered it.
Asked(r, next) ==
  run' = [run EXCEPT ![r] = [next EXCEPT
    !.foreign = @ \/ (next.mode = "l4b" /\ ~Own(r))]]

(***************************************************************************)
(* Start and the runner's own server.                                      *)
(***************************************************************************)

Start(r) ==
  /\ At(r, "idle")
  /\ \E m \in Modes[r] : run' = [run EXCEPT ![r] =
       [Idle EXCEPT !.mode = m, !.pc = IF m = "l4b" THEN "launch" ELSE "list",
                    !.seen = {x \in Runs : At(x, "dead") /\ file[x] \in {"bare", "sid"}}]]
  /\ UNCHANGED <<server, file, left, active, turn, counts>>

\* A port is reserved and given back before the server is told to take it.
Launch(r) ==
  /\ At(r, "launch")
  /\ \E p \in Ports :
       /\ \A x \in Runs : server[x].port = p =>
            server[x].status \notin (IF Shares THEN {"bound"} ELSE {"starting", "bound"})
       /\ server' = [server EXCEPT ![r] = [status |-> "starting", port |-> p]]
  /\ Go(r, "probe")
  /\ UNCHANGED <<file, left, active, turn, counts>>

\* A server that finds its port taken exits with an error.
ServerBinds(r) ==
  /\ server[r].status = "starting"
  /\ server' = [server EXCEPT ![r].status = IF Bound(server[r].port) = {} THEN "bound" ELSE "failed"]
  /\ UNCHANGED <<run, file, left, active, turn, counts>>

\* Whoever answers /api/health makes the server ready; an exit seen first fails the run.
Probe(r) ==
  /\ At(r, "probe")
  /\ \/ Answers(r) /\ Asked(r, [run[r] EXCEPT !.pc = "list"])
     \/ server[r].status = "failed" /\ Fail(r, 1, "paths")
  /\ UNCHANGED <<server, file, left, active, turn, counts>>

ReadyTimeout(r) ==
  /\ At(r, "probe") /\ server[r].status = "starting" /\ Fault
  /\ server' = [server EXCEPT ![r].status = "none"]
  /\ Fail(r, 1, "paths")
  /\ UNCHANGED <<file, left, active, turn>>

\* A turn that is under way, stopped, or left by its client.
Working(r) == turn[r].phase \in {"sent", "composed", "acting"}
CutTurn(r) == [turn EXCEPT ![r].phase = IF Working(r) THEN "cut" ELSE @]
Abandoned(r) == IF Outlives THEN turn ELSE CutTurn(r)

\* A server dies by itself, with an error, and takes its turn with it.
ServerDies(r) ==
  /\ server[r].status = "bound" /\ Fault
  /\ server' = [server EXCEPT ![r].status = "failed"]
  /\ turn' = CutTurn(r)
  /\ UNCHANGED <<run, file, left, active>>

(***************************************************************************)
(* Runs that died: their state files say what to remove.                   *)
(***************************************************************************)

List(r) ==
  /\ At(r, "list")
  /\ run' = [run EXCEPT ![r].pc = "stale", ![r].todo = {x \in Runs : file[x] # "none"}]
  /\ UNCHANGED <<server, file, left, active, turn, counts>>

\* One state file is read; one that is gone or cannot be parsed is passed over.
StaleRead(r) ==
  /\ At(r, "stale")
  /\ \E x \in run[r].todo : run' = [run EXCEPT ![r] =
       IF file[x] \in {"none", "torn"} THEN [@ EXCEPT !.todo = @ \ {x}]
       ELSE [@ EXCEPT !.pc = "owner", !.todo = @ \ {x}, !.who = x, !.read = file[x]]]
  /\ UNCHANGED <<server, file, left, active, turn, counts>>

StaleOwnerBlind(r) ==
  At(r, "owner") /\ Go(r, "stale api") /\ UNCHANGED <<server, file, left, active, turn, counts>>

\* Then its process is looked for: a live run is left alone.
StaleOwner(r) ==
  /\ At(r, "owner")
  /\ Go(r, IF Live(run[r].who) THEN "stale" ELSE "stale api")
  /\ UNCHANGED <<server, file, left, active, turn, counts>>

\* The product is asked to delete the session, if it is known, and the game; a
\* refusal or a request that fails is written down and passed over.
ApiDelete(r, x, known, pc) ==
  LET all == left[x] \cap (IF known THEN {"bound", "flat", "game"} ELSE {"game"}) IN
  \/ /\ Answers(r)
     /\ \E refused \in (IF Refuses /\ all # {} THEN BOOLEAN ELSE {FALSE}) :
          /\ left' = IF refused THEN left ELSE [left EXCEPT ![x] = @ \ all]
          /\ active' = IF ~refused /\ "game" \in all /\ active = x THEN "none" ELSE active
          /\ IF refused THEN Fault ELSE UNCHANGED counts
     /\ Asked(r, [run[r] EXCEPT !.pc = pc])
  \/ ~Answers(r) /\ Go(r, pc) /\ UNCHANGED <<left, active, counts>>

PathsOnline(r, x, known, pointer, next) ==
  UNCHANGED left /\ Go(r, IF active = x THEN pointer ELSE next)

\* The game's directory and the session's flat one are removed from the disk; an
\* active-game pointer that names the game is read here and removed in a step of
\* its own.
PathsDelete(r, x, known, pointer, next) ==
  /\ left' = [left EXCEPT ![x] = @ \ ({"game"} \cup IF known THEN {"flat"} ELSE {})]
  /\ Go(r, IF active = x THEN pointer ELSE next)

PointerDelete(r, next) == active' = "none" /\ Go(r, next)

StaleApiAnonymous(r) ==
  At(r, "stale api") /\ ApiDelete(r, run[r].who, FALSE, "stale paths") /\ UNCHANGED <<server, file, turn>>

StaleApi(r) ==
  /\ At(r, "stale api")
  /\ ApiDelete(r, run[r].who, run[r].read = "sid", "stale paths")
  /\ UNCHANGED <<server, file, turn>>
StalePaths(r) ==
  /\ At(r, "stale paths")
  /\ PathsDelete(r, run[r].who, run[r].read = "sid", "stale pointer", "stale forget")
  /\ UNCHANGED <<server, file, active, turn, counts>>
StalePointer(r) ==
  /\ At(r, "stale pointer") /\ PointerDelete(r, "stale forget")
  /\ UNCHANGED <<server, file, left, turn, counts>>
StaleForget(r) ==
  /\ At(r, "stale forget")
  /\ file' = [file EXCEPT ![run[r].who] = "none"]
  /\ Go(r, "stale")
  /\ UNCHANGED <<server, left, active, turn, counts>>

\* The run's own state file; from here on the case has started.
WriteState(r) ==
  /\ At(r, "stale") /\ run[r].todo = {}
  /\ file' = [file EXCEPT ![r] = "bare"]
  /\ Go(r, "session")
  /\ UNCHANGED <<server, left, active, turn, counts>>

(***************************************************************************)
(* The case's set-up: a session, its record, the model's lock.             *)
(***************************************************************************)

\* The session lives under the active game, or in the project's flat directory.
CreateSession(r) ==
  /\ At(r, "session")
  /\ \/ /\ Answers(r)
        /\ \E k \in {"bound", "flat"} : left' = [left EXCEPT ![r] = @ \cup {k}]
        /\ Asked(r, [run[r] EXCEPT !.pc = "record"])
     \/ ~Answers(r) /\ Fail(r, 2, "pack") /\ UNCHANGED left
  /\ UNCHANGED <<server, file, active, turn, counts>>

RecordSession(r) ==
  /\ At(r, "record")
  /\ file' = [file EXCEPT ![r] = "sid"]
  /\ run' = [run EXCEPT ![r].sid = TRUE, ![r].pc = IF run[r].mode = "l4b" THEN "lock" ELSE "create"]
  /\ UNCHANGED <<server, left, active, turn, counts>>

LockModel(r) ==
  /\ At(r, "lock")
  /\ turn' = [turn EXCEPT ![r].conf = "locked"]
  /\ Go(r, "readback")
  /\ UNCHANGED <<server, file, left, active, counts>>
ReadBack(r) ==
  /\ At(r, "readback")
  /\ IF turn[r].conf = "locked" THEN Go(r, "turn") ELSE Fail(r, 1, "pack")
  /\ UNCHANGED <<server, file, left, active, turn, counts>>

\* The scaffold, or a user, writes the agent's configuration again.
Scaffold(r) ==
  /\ Live(r) /\ turn[r].conf = "locked" /\ counts.scaffolds < MaxScaffolds
  /\ turn' = [turn EXCEPT ![r].conf = "default"]
  /\ counts' = [counts EXCEPT !.scaffolds = @ + 1]
  /\ UNCHANGED <<run, server, file, left, active>>

(***************************************************************************)
(* l4b: one turn of the model.                                             *)
(***************************************************************************)

\* forge run is spawned behind a proxy that lets one turn through.
RunCli(r) ==
  /\ At(r, "turn")
  /\ turn' = [turn EXCEPT ![r].phase = IF Answers(r) THEN "sent" ELSE "cut"]
  /\ Asked(r, [run[r] EXCEPT !.pc = "cli"])
  /\ UNCHANGED <<server, file, left, active, counts>>

\* The host composes the turn from the agent's configuration as it is then.
Compose(r) ==
  /\ turn[r].phase = "sent"
  /\ turn' = [turn EXCEPT ![r].phase = "composed", ![r].used = turn[r].conf, ![r].rows = <<"user">>]
  /\ UNCHANGED <<run, server, file, left, active, counts>>

\* The turn creates the role, and a game when the case asks for one.
Act(r) ==
  /\ turn[r].phase = "composed"
  /\ turn' = [turn EXCEPT ![r].phase = "acting"]
  /\ left' = [left EXCEPT ![r] = @ \cup (Makes \ {"active"})]
  /\ active' = IF "active" \in Makes THEN r ELSE active
  /\ UNCHANGED <<run, server, file, counts>>

\* What was seen on the wire is known when the turn ends, and its ledger row follows.
EndTurn(r) ==
  /\ turn[r].phase \in {"composed", "acting"}
  /\ \E w \in Transcripts :
       /\ turn[r].phase = "composed" => ~Contains(w.events, "create ok")
       /\ turn' = [turn EXCEPT ![r].phase = "ended", ![r].wire = w]
  /\ UNCHANGED <<run, server, file, left, active, counts>>
LedgerRow(r) ==
  /\ turn[r].phase = "ended"
  /\ Len(turn[r].rows) \in (IF Lags THEN {1, 2} ELSE {1})
  /\ turn' = [turn EXCEPT ![r].rows = Append(@, IF Len(@) = 1 THEN turn[r].used ELSE "default")]
  /\ UNCHANGED <<run, server, file, left, active, counts>>

\* The command ends with its turn, or is killed at the timeout and its proxy closed.
CliEnds(r) ==
  /\ At(r, "cli")
  /\ \/ turn[r].phase = "ended" /\ Go(r, "provider") /\ UNCHANGED <<turn, counts>>
     \/ turn[r].phase = "cut" /\ Fail(r, 1, "pack") /\ UNCHANGED <<turn, counts>>
     \/ Working(r) /\ Fault /\ Fail(r, 1, "pack") /\ turn' = Abandoned(r)
  /\ UNCHANGED <<server, file, left, active>>

ProviderSeen(w) == "locked" \in w.by

\* Every attributable event names the locked provider, and there is one.
ProviderLocked(w) == w.by = {"locked"}
CheckProvider(r) ==
  /\ At(r, "provider")
  /\ IF ProviderLocked(turn[r].wire) THEN Go(r, "ledger") ELSE Fail(r, 1, "pack")
  /\ UNCHANGED <<server, file, left, active, turn, counts>>

\* The ledger is polled for one nonce-bearing input and one answer, by the locked
\* model, until the deadline; then the lock is read once more, and a command that
\* exited with a code other than zero fails for that.
LedgerProof(rows) == rows = <<"user", "locked">>
PollLedger(r) ==
  /\ At(r, "ledger")
  /\ IF LedgerProof(turn[r].rows) THEN Go(r, "relock") /\ UNCHANGED counts
     ELSE /\ IF Len(turn[r].rows) = 1 THEN Fault ELSE UNCHANGED counts
          /\ Fail(r, 1, "pack")
  /\ UNCHANGED <<server, file, left, active, turn>>
CheckLock(r) ==
  /\ At(r, "relock")
  /\ \/ turn[r].conf = "locked" /\ Go(r, "asserts") /\ UNCHANGED counts
     \/ turn[r].conf # "locked" /\ Fail(r, 1, "pack") /\ UNCHANGED counts
     \/ turn[r].conf = "locked" /\ Fault /\ Fail(r, 1, "pack")
  /\ UNCHANGED <<server, file, left, active, turn>>

\* role-slice's assertions over the wire events: the turn is done without error,
\* creates one role and lists it, and the listing follows the creation's result.
Positions(s, e) == {i \in DOMAIN s : s[i] = e}
InOrder(s, a, b) == \E i \in Positions(s, a), j \in Positions(s, b) : i < j
TurnAccepted(s) ==
  /\ Contains(s, "done") /\ ~Contains(s, "error")
  /\ \A e \in {"create", "create ok", "list"} : Cardinality(Positions(s, e)) = 1
  /\ Contains(s, "list ok")
  /\ InOrder(s, "create", "create ok") /\ InOrder(s, "create ok", "list")
AssertCase(r) ==
  /\ At(r, "asserts")
  /\ IF TurnAccepted(turn[r].wire.events) THEN Go(r, "pack") ELSE Fail(r, 1, "pack")
  /\ UNCHANGED <<server, file, left, active, turn, counts>>

(***************************************************************************)
(* l4a: the kernel tool is called directly, and audited.                   *)
(***************************************************************************)

\* An agent that is not live yet is asked again; every attempt is an audit row.
CreateRole(r) ==
  /\ At(r, "create") /\ run[r].tries < MaxTries
  /\ \/ /\ run' = [run EXCEPT ![r].tries = @ + 1, ![r].pc = "audit"]
        /\ turn' = [turn EXCEPT ![r].rows = Append(@, "ok")]
        /\ left' = [left EXCEPT ![r] = @ \cup {"pack"}]
     \/ /\ run' = [run EXCEPT ![r].tries = @ + 1]
        /\ turn' = [turn EXCEPT ![r].rows = Append(@, "not live")]
        /\ UNCHANGED left
  /\ UNCHANGED <<server, file, active, counts>>
NotLive(r) ==
  /\ At(r, "create") /\ run[r].tries = MaxTries
  /\ Fail(r, 1, "pack")
  /\ UNCHANGED <<server, file, left, active, turn, counts>>

\* As many rows as attempts, one of them successful, and it is the last.
AuditAccepted(r) ==
  LET rows == turn[r].rows IN
  /\ Len(rows) = run[r].tries
  /\ Positions(rows, "ok") = {Len(rows)}
Audit(r) ==
  /\ At(r, "audit")
  /\ IF AuditAccepted(r) THEN Go(r, "roles") ELSE Fail(r, 1, "pack")
  /\ UNCHANGED <<server, file, left, active, turn, counts>>
ListRoles(r) ==
  /\ At(r, "roles")
  /\ IF "pack" \in left[r] THEN Go(r, "pack") ELSE Fail(r, 1, "pack")
  /\ UNCHANGED <<server, file, left, active, turn, counts>>

(***************************************************************************)
(* Teardown: the case's, the artifacts, the state file, the server.        *)
(***************************************************************************)

RemovePack(r) ==
  /\ At(r, "pack")
  /\ left' = [left EXCEPT ![r] = @ \ {"pack"}]
  /\ Go(r, "reload")
  /\ UNCHANGED <<server, file, active, turn, counts>>
\* The product rescans its extensions, and must no longer see the role.
Reload(r) ==
  /\ At(r, "reload")
  /\ IF ~Answers(r) THEN Fail(r, 2, "api")
     ELSE IF "pack" \in left[r] THEN Fail(r, 1, "api")
     ELSE Asked(r, [run[r] EXCEPT !.pc = "api"])
  /\ UNCHANGED <<server, file, left, active, turn, counts>>

CleanApiGameOnly(r) ==
  At(r, "api") /\ ApiDelete(r, r, FALSE, "paths") /\ UNCHANGED <<server, file, turn>>
CleanApi(r) ==
  /\ At(r, "api") /\ ApiDelete(r, r, run[r].sid, "paths")
  /\ UNCHANGED <<server, file, turn>>
CleanPaths(r) ==
  /\ At(r, "paths") /\ PathsDelete(r, r, run[r].sid, "pointer", "forget")
  /\ UNCHANGED <<server, file, active, turn, counts>>
CleanPointer(r) ==
  /\ At(r, "pointer") /\ PointerDelete(r, "forget")
  /\ UNCHANGED <<server, file, left, turn, counts>>
Forget(r) ==
  /\ At(r, "forget")
  /\ file' = [file EXCEPT ![r] = "none"]
  /\ Go(r, IF server[r].status = "none" THEN "done" ELSE "stop")
  /\ UNCHANGED <<server, left, active, turn, counts>>

\* SIGTERM, five seconds, SIGKILL; only a server that then leaves by itself with
\* code zero was stopped cleanly.
StopServer(r) ==
  /\ At(r, "stop")
  /\ \/ server[r].status = "bound" /\ Go(r, "done") /\ UNCHANGED counts
     \/ server[r].status = "bound" /\ Fail(r, 2, "done") /\ Fault
     \/ server[r].status # "bound" /\ Fail(r, 2, "done") /\ UNCHANGED counts
  /\ server' = [server EXCEPT ![r].status = "none"]
  /\ turn' = CutTurn(r)
  /\ UNCHANGED <<file, left, active>>

\* A runner dies; its server lives on, and a state file it was writing may be cut.
Crash(r) ==
  /\ Live(r) /\ counts.crashes < MaxCrashes
  /\ Go(r, "dead") /\ turn' = Abandoned(r)
  /\ \/ UNCHANGED file
     \/ At(r, "record") /\ file' = [file EXCEPT ![r] = "torn"]
     \/ At(r, "stale") /\ run[r].todo = {} /\ file' = [file EXCEPT ![r] = "torn"]
  /\ counts' = [counts EXCEPT !.crashes = @ + 1]
  /\ UNCHANGED <<server, left, active>>

\* The user makes another game the active one.
Switch ==
  /\ "active" \in Makes /\ active # "user" /\ active' = "user"
  /\ UNCHANGED <<run, server, file, left, turn, counts>>

Next ==
  \/ Switch
  \/ \E r \in Runs :
       \/ Start(r) \/ Launch(r) \/ ServerBinds(r) \/ Probe(r) \/ ReadyTimeout(r) \/ ServerDies(r)
       \/ List(r) \/ StaleRead(r) \/ StaleOwner(r) \/ StaleApi(r) \/ StalePaths(r)
       \/ StalePointer(r) \/ StaleForget(r) \/ WriteState(r)
       \/ CreateSession(r) \/ RecordSession(r) \/ LockModel(r) \/ ReadBack(r) \/ Scaffold(r)
       \/ RunCli(r) \/ Compose(r) \/ Act(r) \/ EndTurn(r) \/ LedgerRow(r) \/ CliEnds(r)
       \/ CheckProvider(r) \/ PollLedger(r) \/ CheckLock(r) \/ AssertCase(r)
       \/ CreateRole(r) \/ NotLive(r) \/ Audit(r) \/ ListRoles(r)
       \/ RemovePack(r) \/ Reload(r) \/ CleanApi(r) \/ CleanPaths(r) \/ CleanPointer(r)
       \/ Forget(r) \/ StopServer(r) \/ Crash(r)

Spec == Init /\ [][Next]_vars

(***************************************************************************)
(* Properties.                                                             *)
(***************************************************************************)

\* Types.
TypeOK ==
  /\ run \in [Runs -> [pc : STRING, mode : {"l4a", "l4b"}, exit : 0 .. 2, sid : BOOLEAN,
        todo : SUBSET Runs, seen : SUBSET Runs, who : Runs \cup {"none"}, read : {"none", "bare", "sid"},
        foreign : BOOLEAN, tries : 0 .. MaxTries]]
  /\ server \in [Runs -> [status : {"none", "starting", "bound", "failed"}, port : Ports]]
  /\ file \in [Runs -> {"none", "torn", "bare", "sid"}]
  /\ left \in [Runs -> SUBSET Kinds]
  /\ active \in Runs \cup {"user", "none"}

Completed(r) == At(r, "done") /\ run[r].exit = 0

\* runner.ts: a run with a model's turn completes only if the host composed that
\* turn with the locked model and every event of it came from the locked provider.
CompletedTrue ==
  \A r \in Runs : Completed(r) /\ run[r].mode = "l4b" =>
    turn[r].used = "locked" /\ turn[r].wire.by = {"locked"}

\* l4b-evidence.ts: a run completes only if the server it started, and no other
\* run's, has answered it from the first request to the last.
CompletedOnOwnServer == \A r \in Runs : Completed(r) => ~run[r].foreign

\* runner.ts: a run that completes leaves no session, game, role pack, state file
\* or server behind.
CompletedClean ==
  \A r \in Runs : Completed(r) =>
    left[r] = {} /\ file[r] = "none" /\ server[r].status = "none" /\ active # r

\* cleanupStaleGoldenRuns: what a run that is alive has made, and its state file,
\* is removed by nobody else.
LiveUntouched ==
  \A x \in Runs : Live(x) /\ run'[x] = run[x] =>
    left[x] \subseteq left'[x] /\ (file[x] # "none" => file'[x] = file[x])

\* cleanupStaleGoldenRuns: once a run is past its stale files, the runs that were
\* dead when it started, and whose state file is whole, have no game left and no
\* session the file knew of (one bound to a game, if its own server is still up).
StaleCleaned ==
  \A r \in Runs : At(r, "session") =>
    \A x \in run[r].seen : file[x] \in {"none", "torn"} /\
      (file[x] = "none" /\ run[x].sid =>
         left[x] \cap ({"flat", "game"} \cup
           IF run[r].mode = "l4a" \/ Own(r) THEN {"bound"} ELSE {}) = {})

\* runner.ts: what a run that has ended left on disk is still known to a state
\* file, so that a later run can remove it (kinds of artifact in Known).
Remembered(Known) ==
  \A r \in Runs : run[r].pc \in {"done", "dead"} /\ file[r] \in {"none", "torn"} =>
    left[r] \cap Known = {}
GameRemembered == Remembered({"game"})
SessionRemembered == Remembered({"bound", "flat"})
PackRemembered == Remembered({"pack"})

\* runner.ts: a run that ends by itself has removed its session, in either layout,
\* even offline.
SessionsGone == \A r \in Runs : At(r, "done") => left[r] \cap {"bound", "flat"} = {}

\* README.md: the runner owns the complete test envelope: no server it started
\* outlives the runs that could stop it.
NoServerLeft == (\A r \in Runs : ~Live(r)) => \A r \in Runs : server[r].status # "bound"

\* runner.ts: only a pointer that names the run's own game is removed.
PointerOwned ==
  \A r \in Runs : (At(r, "pointer") => active \in {r, "none"})
                 /\ (At(r, "stale pointer") => active \in {run[r].who, "none"})

\* README.md: ambiguity fails: the evidence of a completed run stays unambiguous.
EvidenceUnambiguous ==
  \A r \in Runs : Completed(r) /\ run[r].mode = "l4b" => LedgerProof(turn[r].rows)
=============================================================================
