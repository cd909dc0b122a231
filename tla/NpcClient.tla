----------------------------- MODULE NpcClient ------------------------------
(***************************************************************************)
(* packages/npc-client/src/index.ts: the client by which a game asks the   *)
(* Brain service for the decisions of its NPCs, over a WebSocket that is   *)
(* reopened when it is lost, and over HTTP where there is none.            *)
(*                                                                         *)
(* A call is one emit, sendSnapshot or decide of the game, or the          *)
(* connection attempt of the reconnect timer.  One action is one task of   *)
(* the event loop with its microtasks: what runs between two answers of    *)
(* the network.  The service is external: it numbers the decisions of an   *)
(* epoch from 1 and starts a new epoch when it forgets a session.          *)
(***************************************************************************)
EXTENDS Naturals, Sequences, FiniteSets

CONSTANTS
  Calls,         \* the game's calls
  Event,         \* Event[p]: the event of a call's snapshot
  Npcs, Npc,     \* Npc[p]: the NPC it is about
  Sockets,       \* sockets, used again once they are closed
  MaxAttempts,   \* reconnect.maxAttempts
  BeatOutpaces,  \* TRUE: heartbeatMs < livenessTimeoutMs, as by default
  Overtaking,    \* TRUE: an answer may arrive after its epoch or its session has ended,
                 \* and before a reset that was sent earlier over the socket
  QuietStop,     \* TRUE: the game disconnects only when none of its calls is under way
  MaxEpochs,     \* bound: epochs, over all sessions
  MaxDecisions,  \* bound: decisions of the service
  MaxWire,       \* bound: frames of the service
  MaxLosses,     \* bound: sockets lost or gone silent
  MaxUpsets      \* bound: resumes, disconnects, ends of an episode, expirations, new epochs

\* The reconnect timer's own call, and the game's resume() and endEpisode().
Reconnect == "reconnect"
Callers == Calls \cup {Reconnect, "resume", "end"}
Epochs == 1 .. MaxEpochs

ASSUME Constants ==
  /\ 0 \notin Sockets
  /\ Calls \cap {Reconnect, "resume", "end"} = {}
  /\ DOMAIN Event = Calls /\ Npc \in [Calls -> Npcs]
  /\ {BeatOutpaces, Overtaking, QuietStop} \subseteq BOOLEAN
  /\ {MaxAttempts, MaxEpochs, MaxDecisions, MaxWire, MaxLosses, MaxUpsets} \subseteq Nat

\* A decision is known by its number in the whole run, n; the client sees the
\* epoch and the sequence number in it.
Decisions == [n : 1 .. MaxDecisions, npc : Npcs, epoch : Epochs, seq : 1 .. MaxDecisions]
Frames == [type : {"session_ready", "resume_reset"}, epoch : Epochs, seq : 1 .. MaxWire]
            \cup [type : {"decision"}, epoch : Epochs, seq : 1 .. MaxWire, decision : Decisions]

Idle == {"idle", "done"}
Waiting == {"ws_session", "ws_ready", "http_session", "http_chat", "http_resume", "http_end",
            "joined"}

Closed == [state |-> "closed", session |-> 0, inbox |-> <<>>]

VARIABLES
  client,    \* the session and what belongs to it, see TypeOK
  timers,    \* the pending timers among reconnect, heartbeat and liveness
  socket,    \* #socket, 0 when undefined
  ready,     \* the socket whose promise #socketReady is, 0 when undefined
  socks,     \* the sockets: state and the frames that have not arrived
  pc, on,    \* per call: where it waits, and the socket whose promise it awaits
  asked,     \* the events that are in #seenEvents
  answer,    \* per call: what the service answered to its /chat
  service,   \* the service: last epoch, number of decisions, per epoch counters
  applied,   \* per NPC: the last decision given to the game
  down,      \* TRUE: the game disconnected and called nothing since
  losses, upsets

vars == <<client, timers, socket, ready, socks, pc, on, asked, answer, service, applied, down,
          losses, upsets>>
link == <<socket, ready, socks>>
bounds == <<losses, upsets>>

Clients ==
  [session : 0 .. MaxEpochs, epoch : 0 .. MaxEpochs, fresh : BOOLEAN, static : BOOLEAN,
   stopped : BOOLEAN, opened : BOOLEAN, attempt : 0 .. MaxAttempts,
   wire : [Epochs -> 0 .. MaxWire], last : [Npcs -> 0 .. MaxDecisions]]
SocketStates ==
  [state : {"closed", "connecting", "failing", "open", "silent", "closing"},
   session : 0 .. MaxEpochs, inbox : Seq(Frames)]
Services ==
  [epoch : 0 .. MaxEpochs, made : 0 .. MaxDecisions, wire : 0 .. MaxWire,
   seq : [Epochs -> [Npcs -> 0 .. MaxDecisions]]]

\* Types; which calls wait where.
TypeOK ==
  /\ client \in Clients /\ service \in Services
  /\ timers \subseteq {"reconnect", "heartbeat", "liveness"}
  /\ socket \in Sockets \cup {0} /\ ready \in Sockets \cup {0}
  /\ socks \in [Sockets -> SocketStates]
  /\ pc \in [Callers -> Idle \cup Waiting]
  /\ pc[Reconnect] \in {"idle", "ws_session", "ws_ready"}
  /\ pc["resume"] \in Idle \cup {"http_resume"} /\ pc["end"] \in Idle \cup {"http_end"}
  /\ on \in [Callers -> Sockets \cup {0}]
  /\ asked \subseteq {Event[p] : p \in Calls}
  /\ answer \in [Calls -> SUBSET Decisions]
  /\ \A p \in Calls : answer[p] = {} \/ \E d \in Decisions : answer[p] = {d}
  /\ applied \in [Npcs -> 0 .. MaxDecisions]
  /\ down \in BOOLEAN /\ losses \in 0 .. MaxLosses /\ upsets \in 0 .. MaxUpsets

Init ==
  /\ client = [session |-> 0, epoch |-> 0, fresh |-> FALSE, static |-> FALSE,
               stopped |-> FALSE, opened |-> FALSE, attempt |-> 0,
               wire |-> [e \in Epochs |-> 0], last |-> [n \in Npcs |-> 0]]
  /\ timers = {} /\ socket = 0 /\ ready = 0
  /\ socks = [i \in Sockets |-> Closed]
  /\ pc = [p \in Callers |-> "idle"] /\ on = [p \in Callers |-> 0]
  /\ asked = {} /\ answer = [p \in Calls |-> {}]
  /\ service = [epoch |-> 0, made |-> 0, wire |-> 0,
                seq |-> [e \in Epochs |-> [n \in Npcs |-> 0]]]
  /\ applied = [n \in Npcs |-> 0]
  /\ down = FALSE /\ losses = 0 /\ upsets = 0

-----------------------------------------------------------------------------
(* What the client does with an epoch, a frame and a decision *)

\* connect: a granted session, known by its first epoch.
Granted(k, e) ==
  [k EXCEPT !.session = e, !.epoch = e, !.fresh = TRUE, !.static = FALSE, !.stopped = FALSE]

HasSession(k) == k.session # 0 /\ k.fresh

Adopted(k, e) ==
  IF k.session # 0 /\ e # k.epoch
    THEN [k EXCEPT !.epoch = e, !.last = [n \in Npcs |-> 0]]
    ELSE k

AcceptsFrame(k, f) ==
  /\ k.session # 0
  /\ IF f.type = "session_ready" THEN f.epoch >= k.epoch ELSE f.epoch = k.epoch
  /\ f.seq > k.wire[f.epoch]

\* Mutant: a decision is taken whatever its number.
AlwaysNew(k, d) == TRUE

IsNew(k, d) == d.seq > k.last[d.npc]
Accepted(k, d) == IF IsNew(k, d) THEN [k EXCEPT !.last[d.npc] = d.seq] ELSE k
Give(k, d) == applied' = IF IsNew(k, d) THEN [applied EXCEPT ![d.npc] = d.n] ELSE applied

\* clearSessionState
Cleared(k) ==
  [k EXCEPT !.session = 0, !.epoch = 0, !.fresh = FALSE, !.opened = FALSE,
            !.wire = [e \in Epochs |-> 0], !.last = [n \in Npcs |-> 0]]

\* Mutant: one attempt too few.
OneLessRetry(t) == client.attempt < MaxAttempts - 1 /\ "reconnect" \notin t

\* scheduleReconnect, with the attempt it counts
CanRetry(t) == client.attempt < MaxAttempts /\ "reconnect" \notin t
Scheduled(k, t) == IF CanRetry(t) THEN [k EXCEPT !.attempt = @ + 1] ELSE k
Retry(t) == IF CanRetry(t) THEN t \cup {"reconnect"} ELSE t

Live(i) == i # 0 /\ socks[i].state \in {"open", "silent"}
InFlight(e) == \E p \in Calls : Event[p] = e /\ pc[p] \in {"http_session", "http_chat"}

-----------------------------------------------------------------------------
(* A call's way: connectWebSocket, sendFrame, and decide where that fails *)

Goto(p, s) == pc' = [pc EXCEPT ![p] = s] /\ UNCHANGED on

\* Mutant: a call does not wait for the socket that is being opened.
ConnectAnew(p, k) ==
  /\ client' = k
  /\ \/ Live(socket) /\ Goto(p, IF p = Reconnect THEN "idle" ELSE "done") /\ UNCHANGED link
     \/ /\ ~Live(socket)
        /\ \E i \in Sockets :
             /\ socks[i].state = "closed" /\ \A q \in Callers : on[q] # i
             /\ socks' = [socks EXCEPT ![i] = [state |-> "connecting", session |-> k.session,
                                               inbox |-> <<>>]]
             /\ socket' = i /\ ready' = i
             /\ pc' = [pc EXCEPT ![p] = "ws_ready"] /\ on' = [on EXCEPT ![p] = i]

\* connectWebSocket once there is a session: the open socket, the one that is
\* being opened, or a new one.
Connect(p, k) ==
  /\ client' = k
  /\ \/ /\ Live(socket)
        /\ Goto(p, IF p = Reconnect THEN "idle" ELSE "done")
        /\ UNCHANGED link
     \/ /\ ~Live(socket) /\ ready # 0
        /\ pc' = [pc EXCEPT ![p] = "ws_ready"] /\ on' = [on EXCEPT ![p] = ready]
        /\ UNCHANGED link
     \/ /\ ~Live(socket) /\ ready = 0
        /\ \E i \in Sockets :
             /\ socks[i].state = "closed" /\ \A q \in Callers : on[q] # i
             /\ socks' = [socks EXCEPT ![i] = [state |-> "connecting", session |-> k.session,
                                               inbox |-> <<>>]]
             /\ socket' = i /\ ready' = i
             /\ pc' = [pc EXCEPT ![p] = "ws_ready"] /\ on' = [on EXCEPT ![p] = i]

\* decide: one request per event; a second call joins the first, or is dropped.
\* The request waits for a session, or is sent, or ends in the local fallback.
Decided(p, k, seen) ==
  IF \E q \in Calls \ {p} : Event[q] = Event[p] /\ pc[q] \in {"http_session", "http_chat"}
    THEN "joined"
  ELSE IF Event[p] \in seen THEN "done"
  ELSE IF k.static THEN "done"
  ELSE IF HasSession(k) THEN "http_chat"
  ELSE "http_session"

Decide(p, k) ==
  /\ client' = k
  /\ pc' = [pc EXCEPT ![p] = Decided(p, k, asked)] /\ UNCHANGED on
  /\ asked' = asked \cup {Event[p]}

\* emit, sendSnapshot: over the socket if there is one to be had.
Emit(p) ==
  /\ p \in Calls /\ pc[p] = "idle"
  /\ down' = FALSE
  /\ \/ client.static /\ Decide(p, client) /\ UNCHANGED link
     \/ ~client.static /\ HasSession(client) /\ Connect(p, client) /\ UNCHANGED asked
     \/ /\ ~client.static /\ ~HasSession(client)
        /\ Goto(p, "ws_session") /\ UNCHANGED <<client, link, asked>>
  /\ UNCHANGED <<timers, answer, service, applied, bounds>>

DecideCall(p) ==
  /\ p \in Calls /\ pc[p] = "idle"
  /\ down' = FALSE
  /\ Decide(p, client)
  /\ UNCHANGED <<timers, link, answer, service, applied, bounds>>

\* ensureSession, connect: the service grants a session, with an epoch of its
\* own, or the client falls back to the local behaviour for good.
SessionGranted(p) ==
  /\ pc[p] \in {"ws_session", "http_session"}
  /\ service.epoch < MaxEpochs
  /\ LET e == service.epoch + 1
         k == Granted(client, e) IN
     /\ service' = [service EXCEPT !.epoch = e]
     /\ IF pc[p] = "ws_session" THEN Connect(p, k)
                                ELSE client' = k /\ Goto(p, "http_chat") /\ UNCHANGED link
  /\ UNCHANGED <<timers, asked, answer, applied, down, bounds>>

SessionRefused(p) ==
  /\ LET k == [client EXCEPT !.static = TRUE] IN
     \/ /\ pc[p] = "ws_session" /\ p = Reconnect
        /\ client' = Scheduled(k, timers) /\ timers' = Retry(timers)
        /\ Goto(p, "idle") /\ UNCHANGED asked
     \/ /\ pc[p] = "ws_session" /\ p # Reconnect
        /\ Decide(p, k) /\ UNCHANGED timers
     \/ /\ pc[p] = "http_session" /\ client' = k
        /\ Goto(p, "done") /\ UNCHANGED <<timers, asked>>
  /\ UNCHANGED <<link, answer, service, applied, down, bounds>>

-----------------------------------------------------------------------------
(* Sockets *)

Awaiting(i) == {p \in Callers : pc[p] = "ws_ready" /\ on[p] = i}
Freed(i) == on' = [p \in Callers |-> IF p \in Awaiting(i) THEN 0 ELSE on[p]]

\* The game's calls that awaited i go over to decide, one after the other: of
\* those with the same event the first asks and the others join it.
First(i) ==
  {p \in Awaiting(i) \ {Reconnect} :
     p = CHOOSE q \in Awaiting(i) \ {Reconnect} : Event[q] = Event[p]}
Asking(i, p) ==
  IF p \in First(i) \/ (Event[p] \in asked /\ ~InFlight(Event[p]))
    THEN Decided(p, client, asked)
    ELSE "joined"

Blocked(i) == socket \notin {0, i} /\ socks[socket].state = "connecting"

\* The socket opens: its waiters send on #socket, whatever that is by now, and
\* the promise clears #socketReady, whatever that is.
Opens(i) ==
  /\ socks[i].state = "connecting"
  /\ socks' = [socks EXCEPT ![i].state = "open"]
  /\ client' = [client EXCEPT !.attempt = 0, !.opened = TRUE]
  /\ ready' = 0
  /\ timers' = timers \cup {"heartbeat"}
  /\ pc' = [p \in Callers |->
              IF p \notin Awaiting(i) THEN pc[p]
              ELSE IF p = Reconnect THEN "idle"
              ELSE IF Blocked(i) THEN Asking(i, p) ELSE "done"]
  /\ asked' = IF Blocked(i) THEN asked \cup {Event[p] : p \in First(i)} ELSE asked
  /\ Freed(i)
  /\ UNCHANGED <<socket, answer, service, applied, down, bounds>>

\* Mutant: the error does not reject the promise.
FailsUnheard(i) ==
  /\ socks[i].state \in {"failing", "connecting"}
  /\ socks[i].state = "connecting" => losses < MaxLosses
  /\ losses' = IF socks[i].state = "failing" THEN losses ELSE losses + 1
  /\ socks' = [socks EXCEPT ![i].state = "closing"] /\ ready' = 0
  /\ UNCHANGED <<client, timers, socket, pc, on, asked, answer, service, applied, down, upsets>>

\* Its error event: the promise rejects, game calls go on over HTTP, and the
\* reconnect timer's call schedules the next attempt.
Fails(i) ==
  /\ socks[i].state \in {"failing", "connecting"}
  /\ socks[i].state = "connecting" => losses < MaxLosses
  /\ losses' = IF socks[i].state = "failing" THEN losses ELSE losses + 1
  /\ socks' = [socks EXCEPT ![i].state = "closing"]
  /\ ready' = 0
  /\ pc' = [p \in Callers |->
              IF p \notin Awaiting(i) THEN pc[p]
              ELSE IF p = Reconnect THEN "idle" ELSE Asking(i, p)]
  /\ asked' = asked \cup {Event[p] : p \in First(i)}
  /\ IF Reconnect \in Awaiting(i)
       THEN client' = Scheduled(client, timers) /\ timers' = Retry(timers)
       ELSE UNCHANGED <<client, timers>>
  /\ Freed(i)
  /\ UNCHANGED <<socket, answer, service, applied, down, upsets>>

\* handleSocketClose: only the present socket's close event matters.
Closes(i) ==
  /\ socks[i].state \in {"closing", "open", "silent"}
  /\ socks[i].state # "closing" => losses < MaxLosses
  /\ losses' = IF socks[i].state = "closing" THEN losses ELSE losses + 1
  /\ socks' = [socks EXCEPT ![i] = Closed]
  /\ IF socket = i
       THEN /\ socket' = 0 /\ ready' = 0
            /\ LET t == timers \ {"heartbeat", "liveness"} IN
               IF client.stopped THEN timers' = t /\ UNCHANGED client
                                 ELSE timers' = Retry(t) /\ client' = Scheduled(client, t)
       ELSE UNCHANGED <<socket, ready, timers, client>>
  /\ UNCHANGED <<pc, on, asked, answer, service, applied, down, upsets>>

\* The connection dies without a word.
GoesSilent(i) ==
  /\ socks[i].state = "open" /\ losses < MaxLosses
  /\ losses' = losses + 1
  /\ socks' = [socks EXCEPT ![i].state = "silent", ![i].inbox = <<>>]
  /\ UNCHANGED <<client, timers, socket, ready, pc, on, asked, answer, service, applied, down, upsets>>

\* The reconnect timer: connectWebSocket, as any other caller.  A second timer
\* that is due while the first one's call waits is taken after it.
ReconnectFires ==
  /\ "reconnect" \in timers /\ pc[Reconnect] = "idle"
  /\ LET t == timers \ {"reconnect"} IN
     \/ /\ client.static
        /\ client' = Scheduled(client, t) /\ timers' = Retry(t)
        /\ UNCHANGED <<link, pc, on>>
     \/ /\ ~client.static /\ ~HasSession(client)
        /\ timers' = t /\ Goto(Reconnect, "ws_session")
        /\ UNCHANGED <<client, link>>
     \/ /\ ~client.static /\ HasSession(client)
        /\ timers' = t /\ Connect(Reconnect, client)
  /\ UNCHANGED <<asked, answer, service, applied, down, bounds>>

-----------------------------------------------------------------------------
(* Heartbeats *)

\* WebSocket.close
Shut(i) ==
  IF i = 0 THEN socks
  ELSE [socks EXCEPT ![i].state = CASE @ \in {"open", "silent"} -> "closing"
                                    [] @ = "connecting" -> "failing"
                                    [] OTHER -> @]

\* Mutant: the beat does not set the liveness timer.
BeatOnly ==
  /\ "heartbeat" \in timers
  /\ timers' = IF Live(socket) THEN timers ELSE timers \ {"heartbeat"}
  /\ UNCHANGED <<client, link, pc, on, asked, answer, service, applied, down, bounds>>

\* Each beat sets the liveness timer anew, so the earlier of the two fires.
BeatFires ==
  /\ "heartbeat" \in timers
  /\ BeatOutpaces \/ "liveness" \notin timers
  /\ timers' = IF Live(socket) THEN timers \cup {"liveness"} ELSE timers \ {"heartbeat"}
  /\ UNCHANGED <<client, link, pc, on, asked, answer, service, applied, down, bounds>>

LivenessFires ==
  /\ "liveness" \in timers
  /\ ~BeatOutpaces \/ "heartbeat" \notin timers
  /\ timers' = timers \ {"liveness"}
  /\ socks' = Shut(socket)
  /\ UNCHANGED <<client, socket, ready, pc, on, asked, answer, service, applied, down, bounds>>

-----------------------------------------------------------------------------
(* The service, and what of it arrives *)

NextSeq(n) == service.seq[service.epoch][n] + 1
Made(n) == [n |-> service.made + 1, npc |-> n, epoch |-> service.epoch, seq |-> NextSeq(n)]
AfterMade(n) ==
  [service EXCEPT !.made = @ + 1, !.seq[service.epoch][n] = @ + 1]

ResetUnderway == \E i \in Sockets : \E k \in DOMAIN socks[i].inbox :
  socks[i].inbox[k].type = "resume_reset"

\* It answers a /chat.
ServiceAnswers(p) ==
  /\ Overtaking \/ ~ResetUnderway
  /\ pc[p] = "http_chat" /\ answer[p] = {} /\ service.made < MaxDecisions
  /\ answer' = [answer EXCEPT ![p] = {Made(Npc[p])}]
  /\ service' = AfterMade(Npc[p])
  /\ UNCHANGED <<client, timers, link, pc, on, asked, applied, down, bounds>>

\* It sends a frame: where it stands, that it lost the session's log, a decision.
Frame(type) ==
  [type |-> type, epoch |-> service.epoch, seq |-> service.wire + 1]
Push(i, f, s) ==
  /\ socks' = [socks EXCEPT ![i].inbox = Append(@, f)]
  /\ service' = [s EXCEPT !.wire = @ + 1]

ServicePushes(i) ==
  /\ socks[i].state = "open" /\ service.wire < MaxWire
  /\ \/ Push(i, Frame("session_ready"), service)
     \/ /\ Overtaking \/ \A p \in Calls : answer[p] = {}
        /\ Push(i, Frame("resume_reset"),
                [service EXCEPT !.seq[service.epoch] = [n \in Npcs |-> 0]])
     \/ \E n \in Npcs :
          /\ service.made < MaxDecisions
          /\ Push(i, [type |-> "decision", epoch |-> service.epoch,
                      seq |-> service.wire + 1, decision |-> Made(n)],
                  AfterMade(n))
  /\ UNCHANGED <<client, timers, socket, ready, pc, on, asked, answer, applied, down, bounds>>

\* It starts a new epoch.
ServiceResets ==
  /\ service.epoch \in 1 .. MaxEpochs - 1 /\ upsets < MaxUpsets
  /\ service' = [service EXCEPT !.epoch = @ + 1] /\ upsets' = upsets + 1
  /\ UNCHANGED <<client, timers, link, pc, on, asked, answer, applied, down, losses>>

\* handleSocketMessage
Receive(i) ==
  /\ socks[i].state = "open" /\ socks[i].inbox # <<>>
  /\ socks' = [socks EXCEPT ![i].inbox = Tail(@)]
  /\ LET f == Head(socks[i].inbox)
         k == [client EXCEPT !.wire[f.epoch] = f.seq] IN
     IF ~AcceptsFrame(client, f)
       THEN UNCHANGED <<client, timers, applied>>
       ELSE /\ timers' = timers \ {"liveness"}
            /\ \/ /\ f.type = "session_ready"
                  /\ client' = IF socks[i].session = client.session
                                 THEN Adopted(k, f.epoch) ELSE k
                  /\ UNCHANGED applied
               \/ /\ f.type = "resume_reset"
                  /\ client' = [k EXCEPT !.last = [n \in Npcs |-> 0]] /\ UNCHANGED applied
               \/ /\ f.type = "decision"
                  /\ client' = Accepted(k, f.decision) /\ Give(k, f.decision)
  /\ UNCHANGED <<socket, ready, pc, on, asked, answer, service, down, bounds>>

\* decideHttp with the answer, with the service's word that it fell back, and
\* with an error or a timeout.
ChatAnswered(p) ==
  /\ pc[p] = "http_chat"
  /\ \E d \in answer[p] :
       /\ Overtaking \/ (client.session # 0 /\ d.epoch >= client.epoch)
       /\ LET k == Adopted(client, d.epoch) IN client' = Accepted(k, d) /\ Give(k, d)
  /\ answer' = [answer EXCEPT ![p] = {}]
  /\ Goto(p, "done")
  /\ UNCHANGED <<timers, link, asked, service, down, bounds>>

ChatFails(p) ==
  /\ pc[p] = "http_chat"
  /\ client' \in {client, Adopted(client, service.epoch)}
  /\ answer' = [answer EXCEPT ![p] = {}]
  /\ Goto(p, "done")
  /\ UNCHANGED <<timers, link, asked, service, applied, down, bounds>>

\* A second decide of an event ends with the first.
JoinedEnds(p) ==
  /\ pc[p] = "joined" /\ ~InFlight(Event[p])
  /\ Goto(p, "done")
  /\ UNCHANGED <<client, timers, link, asked, answer, service, applied, down, bounds>>

-----------------------------------------------------------------------------
(* The game's other calls *)

\* resume, over HTTP.
Resume ==
  /\ pc["resume"] = "idle" /\ HasSession(client) /\ upsets < MaxUpsets
  /\ Goto("resume", "http_resume") /\ upsets' = upsets + 1 /\ down' = FALSE
  /\ UNCHANGED <<client, timers, link, asked, answer, service, applied, losses>>

Resumed ==
  /\ pc["resume"] = "http_resume"
  /\ LET k == IF service.epoch # client.epoch THEN [client EXCEPT !.last = [n \in Npcs |-> 0]]
                                              ELSE client IN
     client' \in {client, IF k.session # 0 THEN [k EXCEPT !.epoch = service.epoch] ELSE k}
  /\ Goto("resume", "done")
  /\ UNCHANGED <<timers, link, asked, answer, service, applied, down, bounds>>

\* endEpisode: over the socket, or over HTTP.
EndEpisode ==
  /\ pc["end"] \in Idle /\ client.session # 0 /\ upsets < MaxUpsets
  /\ upsets' = upsets + 1 /\ down' = FALSE
  /\ IF Live(socket) THEN client' = Cleared(client) /\ UNCHANGED <<pc, on>>
                     ELSE Goto("end", "http_end") /\ UNCHANGED client
  /\ UNCHANGED <<timers, link, asked, answer, service, applied, losses>>

EpisodeEnded ==
  /\ pc["end"] = "http_end"
  /\ client' \in {client, Cleared(client)}
  /\ Goto("end", "done")
  /\ UNCHANGED <<timers, link, asked, answer, service, applied, down, bounds>>

\* Mutant: disconnect leaves the timers.
DisconnectHalf ==
  /\ upsets < MaxUpsets /\ upsets' = upsets + 1
  /\ QuietStop => ready = 0 /\ \A p \in Callers : pc[p] \in Idle
  /\ client' = [client EXCEPT !.stopped = TRUE]
  /\ pc' = [p \in Callers |-> IF pc[p] = "http_chat" THEN "done" ELSE pc[p]]
  /\ answer' = [p \in Calls |-> {}]
  /\ socks' = Shut(socket) /\ socket' = 0 /\ ready' = 0 /\ down' = TRUE
  /\ UNCHANGED <<on, timers, asked, service, applied, losses>>

\* disconnect: aborts the requests, clears the timers and closes the socket.
Disconnect ==
  /\ upsets < MaxUpsets /\ upsets' = upsets + 1
  /\ QuietStop => ready = 0 /\ \A p \in Callers : pc[p] \in Idle
  /\ client' = [client EXCEPT !.stopped = TRUE]
  /\ pc' = [p \in Callers |-> IF pc[p] = "http_chat" THEN "done" ELSE pc[p]]
  /\ answer' = [p \in Calls |-> {}]
  /\ timers' = {} /\ socks' = Shut(socket) /\ socket' = 0 /\ ready' = 0
  /\ down' = TRUE
  /\ UNCHANGED <<on, asked, service, applied, losses>>

\* The session's expiresAt passes.
Expire ==
  /\ HasSession(client) /\ upsets < MaxUpsets
  /\ upsets' = upsets + 1 /\ client' = [client EXCEPT !.fresh = FALSE]
  /\ UNCHANGED <<timers, link, pc, on, asked, answer, service, applied, down, losses>>

-----------------------------------------------------------------------------

\* What the client does, and what the network answers it in the end.
Own(p) == SessionGranted(p) \/ SessionRefused(p)
Chat(p) == ChatAnswered(p) \/ ChatFails(p) \/ JoinedEnds(p)
Settle(i) == Opens(i) \/ Fails(i)

Next ==
  \/ \E p \in Calls : Emit(p) \/ DecideCall(p) \/ ServiceAnswers(p) \/ Chat(p)
  \/ \E p \in Callers : Own(p)
  \/ \E i \in Sockets : Settle(i) \/ Closes(i) \/ GoesSilent(i) \/ ServicePushes(i) \/ Receive(i)
  \/ ReconnectFires \/ BeatFires \/ LivenessFires
  \/ ServiceResets
  \/ Resume \/ Resumed \/ EndEpisode \/ EpisodeEnded \/ Disconnect \/ Expire

Spec == Init /\ [][Next]_vars

\* A request is answered or times out, a socket opens or fails, a closing
\* socket closes, and timers fire.
FairSpec ==
  /\ Spec
  /\ \A p \in Callers : WF_vars(Own(p))
  /\ \A p \in Calls : WF_vars(Chat(p))
  /\ \A i \in Sockets : WF_vars(Settle(i)) /\ WF_vars(Closes(i) /\ socks[i].state = "closing")
  /\ WF_vars(ReconnectFires) /\ WF_vars(BeatFires) /\ WF_vars(LivenessFires)

-----------------------------------------------------------------------------
(* Properties *)

\* The game sees each decision for an NPC at most once and never an older one
\* after a newer one, over both transports, reconnects and epochs ("drops
\* duplicate decisions", client.test.ts:181).
InOrder == [][\A n \in Npcs : applied'[n] # applied[n] => applied'[n] > applied[n]]_vars

\* The client never has two connections, although calls, timers and close
\* events overlap.
OneSocket ==
  \A i, j \in Sockets :
    socks[i].state \in {"connecting", "open", "silent"}
      /\ socks[j].state \in {"connecting", "open", "silent"} => i = j

\* After disconnect nothing brings the connection back but a call of the game.
StaysDown ==
  down => /\ timers = {} /\ socket = 0
          /\ \A i \in Sockets : socks[i].state \notin {"connecting", "open", "silent"}

\* A call of the game always ends: sent, decided or in the local fallback.
CallsEnd == \A p \in Calls : pc[p] \in Waiting ~> pc[p] \in Idle

\* A connection that died silently is found out ("NPC heartbeat timeout",
\* index.ts:582).
SilenceEnds == \A i \in Sockets : socks[i].state = "silent" ~> socks[i].state # "silent"

\* A client that was connected and lost its socket is connected again, unless
\* it stopped, used up its attempts or fell back for good.
Reconnects ==
  client.opened /\ socket = 0 ~>
    Live(socket) \/ client.stopped \/ ~client.opened \/ client.static
      \/ client.attempt = MaxAttempts

\* One connection while the client is in use, and none after disconnect.
OneConnection == OneSocket /\ StaysDown

\* What the client waits for comes to an end: calls, silence, lost connections.
Recovers == CallsEnd /\ SilenceEnds /\ Reconnects
=============================================================================
