--------------------------- MODULE NpcClient_proofs ---------------------------
(***************************************************************************)
(* Proofs about NpcClient: a client that does not disconnect in the middle *)
(* of a call has one connection, and none after it disconnected; and the   *)
(* game gets the decisions in order, whatever happens to the sockets, the  *)
(* epochs and the two transports, where no answer overtakes a reset.       *)
(***************************************************************************)
EXTENDS NpcClient, TLAPS

\* The frames of a socket that may still arrive.
Arriving(i) == {k \in DOMAIN socks[i].inbox : socks[i].state = "open"}

\* What is only there with a session, and knows no later epoch than the service.
Sessions ==
  /\ client.session <= service.epoch /\ client.epoch <= service.epoch
  /\ \A i \in Sockets :
       socks[i].state # "closed" => socks[i].session \in 1 .. service.epoch
  /\ \A p \in Calls : pc[p] = "http_chat" => service.epoch # 0
  /\ \A e \in Epochs : \A n \in Npcs : service.seq[e][n] <= service.made

\* What is under way is of an epoch that has begun.
Begun ==
  /\ \A i \in Sockets :
       /\ socks[i].state = "connecting" => socks[i].inbox = <<>>
       /\ \A k \in Arriving(i) : socks[i].inbox[k].epoch <= service.epoch
  /\ \A p \in Calls : \A d \in answer[p] : d.epoch <= service.epoch

\* The socket that is there is the client's, and the promise is that of a socket
\* that is being opened.
Connected ==
  /\ \A i \in Sockets :
       /\ socks[i].state \in {"connecting", "open", "silent"} => socket = i
       /\ socks[i].state = "connecting" => ready = i
       /\ socks[i].state # "failing"
  /\ ready # 0 => socks[ready].state = "connecting"
  /\ "liveness" \in timers => Live(socket)

\* After a disconnect nothing is under way.
Quiet == down => timers = {} /\ socket = 0 /\ \A p \in Callers : pc[p] \in Idle

IsDecision(i, k) == k \in Arriving(i) /\ socks[i].inbox[k].type = "decision"
IsReset(i, k) == k \in Arriving(i) /\ socks[i].inbox[k].type = "resume_reset"
Coming(i, k) == socks[i].inbox[k].decision

\* Decisions that are under way were made, in the order in which they are sent, and
\* in a session's epoch those of a call are in order with those that are sent.
WasMade(d) == d.n <= service.made /\ d.epoch <= service.epoch
Counted(d) == d.epoch = service.epoch => d.seq <= service.seq[service.epoch][d.npc]
Ordered(d, c) ==
  /\ d.epoch < c.epoch => d.n < c.n
  /\ d.epoch = c.epoch /\ d.npc = c.npc /\ d.seq < c.seq => d.n < c.n
Answered == \A p \in Calls : \A d \in answer[p] :
  /\ WasMade(d) /\ Counted(d)
  /\ \A q \in Calls : \A c \in answer[q] : Ordered(d, c)
InPlace(i, k) ==
  /\ WasMade(Coming(i, k)) /\ Coming(i, k).epoch = socks[i].inbox[k].epoch
  /\ Counted(Coming(i, k)) \/ \E m \in Nat : m > k /\ IsReset(i, m)
  /\ \A m \in Nat : m > k /\ IsDecision(i, m) =>
       Coming(i, k).n < Coming(i, m).n /\ Coming(i, k).epoch <= Coming(i, m).epoch
  /\ \A p \in Calls : \A c \in answer[p] :
       Ordered(Coming(i, k), c) /\ Ordered(c, Coming(i, k))
Sent(i) == \A k \in Nat : IsDecision(i, k) => InPlace(i, k)
\* No answer is on its way beside a reset, and what comes behind it is new.
Resets(i) == \A k \in Nat : IsReset(i, k) =>
  /\ \A p \in Calls : answer[p] = {}
  /\ \A m \in Nat : m > k /\ IsDecision(i, m) => Coming(i, m).n > applied[Coming(i, m).npc]
Flight ==
  /\ \A n \in Npcs : applied[n] <= service.made
  /\ Answered /\ \A i \in Sockets : Sent(i) /\ Resets(i)

\* A decision that the client will still take is newer than what the game has.
FreshFor(k, d) ==
  d.epoch > k.epoch \/ (d.epoch = k.epoch /\ d.seq > k.last[d.npc]) => d.n > applied[d.npc]
Newer ==
  client.session # 0 =>
    /\ \A p \in Calls : \A d \in answer[p] : FreshFor(client, d)
    /\ \A i \in Sockets : \A k \in Nat : IsDecision(i, k) => FreshFor(client, Coming(i, k))

-----------------------------------------------------------------------------
(* What the client keeps *)

LEMMA Numbers ==
  /\ MaxAttempts \in Nat /\ MaxEpochs \in Nat /\ MaxDecisions \in Nat /\ MaxWire \in Nat
  /\ MaxLosses \in Nat /\ MaxUpsets \in Nat /\ 0 \notin Sockets
  /\ "reconnect" \notin Calls /\ "resume" \notin Calls /\ "end" \notin Calls
  /\ \A p \in Calls : Npc[p] \in Npcs
<1>1. {MaxAttempts, MaxEpochs, MaxDecisions, MaxWire, MaxLosses, MaxUpsets} \subseteq Nat
  BY Constants
<1>2. /\ MaxAttempts \in Nat /\ MaxEpochs \in Nat /\ MaxDecisions \in Nat /\ MaxWire \in Nat
      /\ MaxLosses \in Nat /\ MaxUpsets \in Nat
  BY <1>1
<1>3. 0 \notin Sockets /\ \A p \in Calls : Npc[p] \in Npcs
  BY Constants
<1>4. Calls \cap {"reconnect", "resume", "end"} = {}
  BY Constants DEF Reconnect
<1>5. "reconnect" \notin Calls /\ "resume" \notin Calls /\ "end" \notin Calls
  BY <1>4
<1> QED
  BY <1>2, <1>3, <1>5

LEMMA ClientFields ==
  ASSUME NEW k \in Clients
  PROVE  /\ k.session \in 0 .. MaxEpochs /\ k.epoch \in 0 .. MaxEpochs
         /\ k.fresh \in BOOLEAN /\ k.static \in BOOLEAN /\ k.stopped \in BOOLEAN
         /\ k.opened \in BOOLEAN /\ k.attempt \in 0 .. MaxAttempts
         /\ k.wire \in [Epochs -> 0 .. MaxWire] /\ k.last \in [Npcs -> 0 .. MaxDecisions]
BY DEF Clients

\* Two clients that differ at most in some fields.
Same(r, k, fs) ==
  /\ "session" \in fs \/ r.session = k.session
  /\ "epoch" \in fs \/ r.epoch = k.epoch
  /\ "fresh" \in fs \/ r.fresh = k.fresh
  /\ "attempt" \in fs \/ r.attempt = k.attempt
  /\ "last" \in fs \/ r.last = k.last

\* One field of the client set.
LEMMA FieldTyped ==
  ASSUME NEW k \in Clients
  PROVE  /\ \A e \in 0 .. MaxEpochs : LET r == [k EXCEPT !.session = e] IN
              r \in Clients /\ r.session = e /\ Same(r, k, {"session"})
         /\ \A e \in 0 .. MaxEpochs : LET r == [k EXCEPT !.epoch = e] IN
              r \in Clients /\ r.epoch = e /\ Same(r, k, {"epoch"})
         /\ \A b \in BOOLEAN : LET r == [k EXCEPT !.fresh = b] IN
              r \in Clients /\ r.fresh = b /\ Same(r, k, {"fresh"})
         /\ \A b \in BOOLEAN : LET r == [k EXCEPT !.static = b] IN
              r \in Clients /\ Same(r, k, {})
         /\ \A b \in BOOLEAN : LET r == [k EXCEPT !.stopped = b] IN
              r \in Clients /\ Same(r, k, {})
         /\ \A b \in BOOLEAN : LET r == [k EXCEPT !.opened = b] IN
              r \in Clients /\ Same(r, k, {})
         /\ \A a \in 0 .. MaxAttempts : LET r == [k EXCEPT !.attempt = a] IN
              r \in Clients /\ Same(r, k, {"attempt"})
         /\ \A w \in [Epochs -> 0 .. MaxWire] : LET r == [k EXCEPT !.wire = w] IN
              r \in Clients /\ Same(r, k, {})
         /\ \A l \in [Npcs -> 0 .. MaxDecisions] : LET r == [k EXCEPT !.last = l] IN
              r \in Clients /\ r.last = l /\ Same(r, k, {"last"})
<1>1. \A e \in 0 .. MaxEpochs : LET r == [k EXCEPT !.session = e] IN
      r \in Clients /\ r.session = e /\ Same(r, k, {"session"})
  BY DEF Clients, Same
<1>2. \A e \in 0 .. MaxEpochs : LET r == [k EXCEPT !.epoch = e] IN
      r \in Clients /\ r.epoch = e /\ Same(r, k, {"epoch"})
  BY DEF Clients, Same
<1>3. \A b \in BOOLEAN : LET r == [k EXCEPT !.fresh = b] IN
      r \in Clients /\ r.fresh = b /\ Same(r, k, {"fresh"})
  BY DEF Clients, Same
<1>4. \A b \in BOOLEAN : LET r == [k EXCEPT !.static = b] IN
      r \in Clients /\ Same(r, k, {})
  BY DEF Clients, Same
<1>5. \A b \in BOOLEAN : LET r == [k EXCEPT !.stopped = b] IN
      r \in Clients /\ Same(r, k, {})
  BY DEF Clients, Same
<1>6. \A b \in BOOLEAN : LET r == [k EXCEPT !.opened = b] IN
      r \in Clients /\ Same(r, k, {})
  BY DEF Clients, Same
<1>7. \A a \in 0 .. MaxAttempts : LET r == [k EXCEPT !.attempt = a] IN
      r \in Clients /\ Same(r, k, {"attempt"})
  BY DEF Clients, Same
<1>8. \A w \in [Epochs -> 0 .. MaxWire] : LET r == [k EXCEPT !.wire = w] IN
      r \in Clients /\ Same(r, k, {})
  BY DEF Clients, Same
<1>9. \A l \in [Npcs -> 0 .. MaxDecisions] : LET r == [k EXCEPT !.last = l] IN
      r \in Clients /\ r.last = l /\ Same(r, k, {"last"})
  BY DEF Clients, Same
<1> QED
  BY <1>1, <1>2, <1>3, <1>4, <1>5, <1>6, <1>7, <1>8, <1>9

LEMMA GrantedTyped ==
  ASSUME NEW k \in Clients, NEW e \in Epochs
  PROVE  Granted(k, e) \in Clients /\ Granted(k, e).session = e /\ Granted(k, e).epoch = e
         /\ Granted(k, e).last = k.last /\ HasSession(Granted(k, e))
<1> DEFINE k1 == [k EXCEPT !.session = e]
           k2 == [k1 EXCEPT !.epoch = e]
           k3 == [k2 EXCEPT !.fresh = TRUE]
           k4 == [k3 EXCEPT !.static = FALSE]
           k5 == [k4 EXCEPT !.stopped = FALSE]
<1>1. e \in 0 .. MaxEpochs /\ e # 0
  BY Numbers DEF Epochs
<1>2. Granted(k, e) = k5
  BY DEF Granted
<1>3. k1 \in Clients /\ k1.session = e /\ Same(k1, k, {"session"})
  BY <1>1, FieldTyped
<1> HIDE DEF k1
<1>4. k2 \in Clients /\ k2.epoch = e /\ Same(k2, k1, {"epoch"})
  BY <1>1, <1>3, FieldTyped
<1> HIDE DEF k2
<1>5. k3 \in Clients /\ k3.fresh = TRUE /\ Same(k3, k2, {"fresh"})
  BY <1>4, FieldTyped
<1> HIDE DEF k3
<1>6. k4 \in Clients /\ Same(k4, k3, {})
  BY <1>5, FieldTyped
<1> HIDE DEF k4
<1>7. k5 \in Clients /\ Same(k5, k4, {})
  BY <1>6, FieldTyped
<1> HIDE DEF k5
<1> QED
  BY <1>1, <1>2, <1>3, <1>4, <1>5, <1>6, <1>7 DEF Same, HasSession

LEMMA AdoptedTyped ==
  ASSUME NEW k \in Clients, NEW e \in 0 .. MaxEpochs
  PROVE  /\ Adopted(k, e) \in Clients /\ Adopted(k, e).session = k.session
         /\ k.session # 0 => Adopted(k, e).epoch = e
         /\ k.session = 0 \/ k.epoch = e => Adopted(k, e) = k
         /\ k.session # 0 /\ k.epoch # e => Adopted(k, e).last = [n \in Npcs |-> 0]
<1> DEFINE none == [n \in Npcs |-> 0]
<1>1. none \in [Npcs -> 0 .. MaxDecisions]
  BY Numbers
<1>2. CASE k.session # 0 /\ e # k.epoch
  <2>1. Adopted(k, e) = [session |-> k.session, epoch |-> e, fresh |-> k.fresh,
          static |-> k.static, stopped |-> k.stopped, opened |-> k.opened,
          attempt |-> k.attempt, wire |-> k.wire, last |-> none]
    BY <1>2 DEF Clients, Adopted
  <2> QED
    BY <1>1, <1>2, <2>1, ClientFields DEF Clients
<1>3. CASE ~(k.session # 0 /\ e # k.epoch)
  BY <1>3 DEF Adopted
<1> QED
  BY <1>2, <1>3

LEMMA AcceptedTyped ==
  ASSUME NEW k \in Clients, NEW d \in Decisions
  PROVE  /\ Accepted(k, d) \in Clients /\ Accepted(k, d).session = k.session
         /\ Accepted(k, d).epoch = k.epoch
         /\ IsNew(k, d) => Accepted(k, d).last = [k.last EXCEPT ![d.npc] = d.seq]
         /\ ~IsNew(k, d) => Accepted(k, d) = k
BY Numbers DEF Clients, Accepted, Decisions

LEMMA ClearedTyped ==
  ASSUME NEW k \in Clients
  PROVE  Cleared(k) \in Clients /\ Cleared(k).session = 0 /\ Cleared(k).epoch = 0
<1> DEFINE none == [n \in Npcs |-> 0]
           unread == [e \in Epochs |-> 0]
           k1 == [k EXCEPT !.session = 0]
           k2 == [k1 EXCEPT !.epoch = 0]
           k3 == [k2 EXCEPT !.fresh = FALSE]
           k4 == [k3 EXCEPT !.opened = FALSE]
           k5 == [k4 EXCEPT !.wire = unread]
           k6 == [k5 EXCEPT !.last = none]
<1>1. none \in [Npcs -> 0 .. MaxDecisions] /\ unread \in [Epochs -> 0 .. MaxWire]
      /\ 0 \in 0 .. MaxEpochs
  BY Numbers
<1>2. Cleared(k) = k6
  BY DEF Cleared
<1> HIDE DEF none, unread
<1>3. k1 \in Clients /\ k1.session = 0
  BY <1>1, FieldTyped
<1> HIDE DEF k1
<1>4. k2 \in Clients /\ k2.epoch = 0 /\ Same(k2, k1, {"epoch"})
  BY <1>1, <1>3, FieldTyped
<1> HIDE DEF k2
<1>5. k3 \in Clients /\ Same(k3, k2, {"fresh"})
  BY <1>4, FieldTyped
<1> HIDE DEF k3
<1>6. k4 \in Clients /\ Same(k4, k3, {})
  BY <1>5, FieldTyped
<1> HIDE DEF k4
<1>7. k5 \in Clients /\ Same(k5, k4, {})
  BY <1>1, <1>6, FieldTyped
<1> HIDE DEF k5
<1>8. k6 \in Clients /\ Same(k6, k5, {"last"})
  BY <1>1, <1>7, FieldTyped
<1> HIDE DEF k6
<1> QED
  BY <1>2, <1>3, <1>4, <1>5, <1>6, <1>7, <1>8 DEF Same

LEMMA ScheduledTyped ==
  ASSUME NEW k \in Clients, NEW t, client \in Clients, k.attempt = client.attempt
  PROVE  /\ Scheduled(k, t) \in Clients /\ Scheduled(k, t).session = k.session
         /\ Scheduled(k, t).epoch = k.epoch /\ Scheduled(k, t).last = k.last
BY Numbers DEF Clients, Scheduled, CanRetry

LEMMA RetryTyped ==
  ASSUME NEW t, t \subseteq {"reconnect", "heartbeat", "liveness"}
  PROVE  /\ Retry(t) \subseteq {"reconnect", "heartbeat", "liveness"}
         /\ "liveness" \in Retry(t) => "liveness" \in t
BY DEF Retry

LEMMA OpenedTyped ==
  ASSUME NEW k \in Clients
  PROVE  LET r == [k EXCEPT !.attempt = 0, !.opened = TRUE] IN
         r \in Clients /\ Same(r, k, {"attempt"})
<1> DEFINE k1 == [k EXCEPT !.attempt = 0]
           k2 == [k1 EXCEPT !.opened = TRUE]
<1>1. [k EXCEPT !.attempt = 0, !.opened = TRUE] = k2
  OBVIOUS
<1>2. k1 \in Clients /\ Same(k1, k, {"attempt"})
  BY Numbers, FieldTyped
<1> HIDE DEF k1
<1>3. k2 \in Clients /\ Same(k2, k1, {})
  BY <1>2, FieldTyped
<1> HIDE DEF k2
<1> QED
  BY <1>1, <1>2, <1>3 DEF Same

LEMMA ForgetsTyped == [n \in Npcs |-> 0] \in [Npcs -> 0 .. MaxDecisions]
BY Numbers

LEMMA ReadTyped ==
  ASSUME NEW k \in Clients, NEW e \in Epochs, NEW s \in 1 .. MaxWire
  PROVE  [k EXCEPT !.wire[e] = s] \in Clients /\ Same([k EXCEPT !.wire[e] = s], k, {})
BY Numbers DEF Clients, Same

-----------------------------------------------------------------------------
(* What is on the wire *)

LEMMA SocketFields ==
  ASSUME NEW s \in SocketStates
  PROVE  /\ s.state \in {"closed", "connecting", "failing", "open", "silent", "closing"}
         /\ s.session \in 0 .. MaxEpochs /\ s.inbox \in Seq(Frames)
BY DEF SocketStates

LEMMA SocketTyped ==
  ASSUME NEW s \in SocketStates,
         NEW w \in {"closed", "connecting", "failing", "open", "silent", "closing"}
  PROVE  /\ [s EXCEPT !.state = w] \in SocketStates /\ [s EXCEPT !.state = w].state = w
         /\ [s EXCEPT !.state = w].session = s.session /\ [s EXCEPT !.state = w].inbox = s.inbox
BY DEF SocketStates

LEMMA InboxTyped ==
  ASSUME NEW s \in SocketStates, NEW b \in Seq(Frames)
  PROVE  /\ [s EXCEPT !.inbox = b] \in SocketStates /\ [s EXCEPT !.inbox = b].state = s.state
         /\ [s EXCEPT !.inbox = b].session = s.session /\ [s EXCEPT !.inbox = b].inbox = b
BY DEF SocketStates

LEMMA FreshSockets ==
  /\ Closed \in SocketStates /\ Closed.state = "closed" /\ Closed.inbox = <<>>
  /\ \A e \in 0 .. MaxEpochs :
       [state |-> "connecting", session |-> e, inbox |-> <<>>] \in SocketStates
<1> <<>> \in Seq(Frames)
  OBVIOUS
<1> QED
  BY Numbers DEF SocketStates, Closed

LEMMA FrameFields ==
  ASSUME NEW f \in Frames
  PROVE  /\ f.type \in {"session_ready", "resume_reset", "decision"}
         /\ f.epoch \in Epochs /\ f.seq \in 1 .. MaxWire
         /\ f.type = "decision" => f.decision \in Decisions
BY DEF Frames

LEMMA DecisionFields ==
  ASSUME NEW d \in Decisions
  PROVE  /\ d.n \in 1 .. MaxDecisions /\ d.npc \in Npcs /\ d.epoch \in Epochs
         /\ d.seq \in 1 .. MaxDecisions
BY DEF Decisions

LEMMA ServiceFields ==
  ASSUME NEW s \in Services
  PROVE  /\ s.epoch \in 0 .. MaxEpochs /\ s.made \in 0 .. MaxDecisions /\ s.wire \in 0 .. MaxWire
         /\ s.seq \in [Epochs -> [Npcs -> 0 .. MaxDecisions]]
         /\ \A e \in Epochs : \A n \in Npcs : s.seq[e][n] \in 0 .. MaxDecisions
BY DEF Services

LEMMA NewEpoch ==
  ASSUME NEW s \in Services, NEW e \in Epochs
  PROVE  /\ [s EXCEPT !.epoch = e] \in Services /\ [s EXCEPT !.epoch = e].epoch = e
         /\ [s EXCEPT !.epoch = e].made = s.made /\ [s EXCEPT !.epoch = e].seq = s.seq
<1> e \in 0 .. MaxEpochs
  BY Numbers DEF Epochs
<1> QED
  BY DEF Services

\* A decision of the service: its own number, in its epoch.
LEMMA MadeTyped ==
  ASSUME service \in Services, Sessions, service.epoch # 0, service.made < MaxDecisions,
         NEW n \in Npcs
  PROVE  /\ Made(n) \in Decisions /\ Made(n).n = service.made + 1 /\ Made(n).npc = n
         /\ Made(n).epoch = service.epoch
         /\ Made(n).seq = service.seq[service.epoch][n] + 1
         /\ AfterMade(n) \in Services /\ AfterMade(n).epoch = service.epoch
         /\ AfterMade(n).made = service.made + 1
         /\ AfterMade(n).wire = service.wire
         /\ AfterMade(n).seq
              = [service.seq EXCEPT ![service.epoch] =
                   [service.seq[service.epoch] EXCEPT ![n] = service.seq[service.epoch][n] + 1]]
<1> DEFINE e == service.epoch
           row == [service.seq[e] EXCEPT ![n] = service.seq[e][n] + 1]
<1>1. /\ e \in Epochs /\ service.made \in 0 .. MaxDecisions
      /\ service.seq \in [Epochs -> [Npcs -> 0 .. MaxDecisions]]
  BY ServiceFields, Numbers DEF Epochs
<1>2. service.seq[e][n] \in 0 .. MaxDecisions /\ service.seq[e][n] + 1 <= service.made + 1
  BY <1>1 DEF Sessions
<1>3. service.seq[e][n] + 1 \in 1 .. MaxDecisions /\ service.made + 1 \in 1 .. MaxDecisions
  BY <1>1, <1>2, Numbers
<1>4. Made(n) \in Decisions
  BY <1>1, <1>3 DEF Made, NextSeq, Decisions
<1>5. row \in [Npcs -> 0 .. MaxDecisions]
  BY <1>1, <1>3
<1>6. AfterMade(n) = [service EXCEPT !.made = service.made + 1,
                                     !.seq = [service.seq EXCEPT ![e] = row]]
  BY <1>1, Zenon DEF AfterMade
<1>7. [service.seq EXCEPT ![e] = row] \in [Epochs -> [Npcs -> 0 .. MaxDecisions]]
  BY <1>1, <1>5
<1> HIDE DEF row
<1>8. AfterMade(n) \in Services /\ AfterMade(n).epoch = e /\ AfterMade(n).wire = service.wire
      /\ AfterMade(n).made = service.made + 1
      /\ AfterMade(n).seq = [service.seq EXCEPT ![e] = row]
  <2> DEFINE rows == [service.seq EXCEPT ![e] = row]
  <2> HIDE DEF rows
  <2>1. rows \in [Epochs -> [Npcs -> 0 .. MaxDecisions]]
    BY <1>7 DEF rows
  <2>2. AfterMade(n) = [epoch |-> service.epoch, made |-> service.made + 1,
                        wire |-> service.wire, seq |-> rows]
    BY <1>6 DEF Services, rows
  <2>3. AfterMade(n) \in Services
    BY <1>3, <2>1, <2>2, ServiceFields, Numbers DEF Services
  <2> QED
    BY <2>2, <2>3 DEF rows
<1> QED
  BY <1>4, <1>8 DEF Made, NextSeq, row

\* The service counts a frame, and starts anew.
LEMMA WireTyped ==
  ASSUME NEW s \in Services, s.wire < MaxWire
  PROVE  /\ [s EXCEPT !.wire = @ + 1] \in Services /\ [s EXCEPT !.wire = @ + 1].epoch = s.epoch
         /\ [s EXCEPT !.wire = @ + 1].made = s.made /\ [s EXCEPT !.wire = @ + 1].seq = s.seq
BY Numbers DEF Services

LEMMA AnewTyped ==
  ASSUME NEW s \in Services, s.epoch # 0
  PROVE  LET r == [s EXCEPT !.seq[s.epoch] = [n \in Npcs |-> 0]] IN
         /\ r \in Services /\ r.epoch = s.epoch /\ r.made = s.made /\ r.wire = s.wire
         /\ r.seq = [s.seq EXCEPT ![s.epoch] = [n \in Npcs |-> 0]]
<1> DEFINE none == [n \in Npcs |-> 0]
           rows == [s.seq EXCEPT ![s.epoch] = none]
<1>1. none \in [Npcs -> 0 .. MaxDecisions]
  BY Numbers
<1>2. rows \in [Epochs -> [Npcs -> 0 .. MaxDecisions]]
  BY <1>1, ServiceFields
<1> HIDE DEF rows
<1>3. [s EXCEPT !.seq = rows] \in Services /\ [s EXCEPT !.seq = rows].epoch = s.epoch
      /\ [s EXCEPT !.seq = rows].made = s.made /\ [s EXCEPT !.seq = rows].wire = s.wire
      /\ [s EXCEPT !.seq = rows].seq = rows
  BY <1>2 DEF Services
<1>4. [s EXCEPT !.seq[s.epoch] = none] = [s EXCEPT !.seq = rows]
  BY Zenon DEF rows
<1> QED
  BY <1>3, <1>4 DEF rows

-----------------------------------------------------------------------------
(* Types, and what is only there with a session *)

\* What TypeOK says of the calls, of the sockets, and of the rest.
Ways(w) ==
  /\ w \in [Callers -> Idle \cup Waiting]
  /\ w[Reconnect] \in {"idle", "ws_session", "ws_ready"}
  /\ w["resume"] \in Idle \cup {"http_resume"} /\ w["end"] \in Idle \cup {"http_end"}
Linked ==
  /\ socket \in Sockets \cup {0} /\ ready \in Sockets \cup {0}
  /\ socks \in [Sockets -> SocketStates] /\ on \in [Callers -> Sockets \cup {0}]
Answers ==
  /\ answer \in [Calls -> SUBSET Decisions]
  /\ \A p \in Calls : answer[p] = {} \/ \E d \in Decisions : answer[p] = {d}
Timed == timers \subseteq {"reconnect", "heartbeat", "liveness"}
Rest ==
  /\ asked \subseteq {Event[p] : p \in Calls}
  /\ applied \in [Npcs -> 0 .. MaxDecisions]
  /\ down \in BOOLEAN /\ losses \in 0 .. MaxLosses /\ upsets \in 0 .. MaxUpsets

LEMMA TypeParts ==
  TypeOK <=> client \in Clients /\ service \in Services /\ Timed /\ Linked /\ Ways(pc)
               /\ Answers /\ Rest
BY DEF TypeOK, Timed, Linked, Ways, Answers, Rest

LEMMA CallersFacts ==
  /\ Callers = Calls \cup {"reconnect", "resume", "end"} /\ Reconnect = "reconnect"
  /\ \A w : Ways(w) => \A p \in Callers : w[p] \in {"ws_session", "ws_ready"} =>
                         p \in Calls \cup {Reconnect}
  /\ \A w : Ways(w) => \A p \in Callers : w[p] = "http_session" => p \in Calls
<1>1. Callers = Calls \cup {"reconnect", "resume", "end"} /\ Reconnect = "reconnect"
  BY DEF Callers, Reconnect
<1> QED
  BY <1>1 DEF Ways, Idle

LEMMA WaysMove ==
  ASSUME NEW w, Ways(w), NEW p \in Calls \cup {Reconnect}, NEW s \in Idle \cup Waiting,
         p = Reconnect => s \in {"idle", "ws_session", "ws_ready"}
  PROVE  Ways([w EXCEPT ![p] = s])
BY CallersFacts, Numbers DEF Ways

LEMMA ConnectTyped ==
  ASSUME TypeOK, NEW p \in Calls \cup {Reconnect}, NEW k \in Clients, Connect(p, k)
  PROVE  /\ client' = k /\ Linked' /\ Ways(pc')
         /\ \A i \in Sockets : socks'[i] = socks[i]
              \/ socks'[i] = [state |-> "connecting", session |-> k.session, inbox |-> <<>>]
         /\ \A q \in Callers : pc'[q] = pc[q] \/ pc'[q] \in {"idle", "done", "ws_ready"}
<1>1. client \in Clients /\ Linked /\ Ways(pc) /\ p \in Callers
  BY TypeParts, CallersFacts
<1>2. CASE Live(socket) /\ Goto(p, IF p = Reconnect THEN "idle" ELSE "done") /\ UNCHANGED link
  <2>1. Ways(pc')
    BY <1>1, <1>2, WaysMove, CallersFacts, Numbers DEF Goto, Idle, Waiting
  <2> QED
    BY <1>1, <1>2, <2>1 DEF Connect, Goto, link, Linked, Ways
<1>3. CASE /\ ~Live(socket) /\ ready # 0
           /\ pc' = [pc EXCEPT ![p] = "ws_ready"] /\ on' = [on EXCEPT ![p] = ready]
           /\ UNCHANGED link
  <2>1. Ways(pc')
    BY <1>1, <1>3, WaysMove, CallersFacts DEF Idle, Waiting
  <2> QED
    BY <1>1, <1>3, <2>1 DEF Connect, link, Linked, Ways
<1>4. ASSUME NEW i \in Sockets, socket' = i, ready' = i,
             socks' = [socks EXCEPT ![i] = [state |-> "connecting", session |-> k.session,
                                            inbox |-> <<>>]],
             pc' = [pc EXCEPT ![p] = "ws_ready"], on' = [on EXCEPT ![p] = i]
      PROVE  /\ Linked' /\ Ways(pc')
             /\ \A j \in Sockets : socks'[j] = socks[j]
                  \/ socks'[j] = [state |-> "connecting", session |-> k.session, inbox |-> <<>>]
             /\ \A q \in Callers : pc'[q] = pc[q] \/ pc'[q] \in {"idle", "done", "ws_ready"}
  <2>1. Ways(pc')
    BY <1>1, <1>4, WaysMove, CallersFacts DEF Idle, Waiting
  <2>2. [state |-> "connecting", session |-> k.session, inbox |-> <<>>] \in SocketStates
    BY ClientFields, FreshSockets
  <2> QED
    BY <1>1, <1>4, <2>1, <2>2 DEF Linked, Ways
<1> QED
  BY <1>2, <1>3, <1>4 DEF Connect

LEMMA DecidedTyped ==
  ASSUME NEW p \in Calls, NEW k \in Clients, NEW seen
  PROVE  /\ Decided(p, k, seen) \in Idle \cup Waiting
         /\ Decided(p, k, seen) \in {"joined", "done", "http_chat", "http_session"}
         /\ Decided(p, k, seen) = "http_chat" => HasSession(k)
BY DEF Decided, Idle, Waiting

LEMMA DecideTyped ==
  ASSUME TypeOK, NEW p \in Calls, NEW k \in Clients, Decide(p, k)
  PROVE  /\ client' = k /\ Ways(pc') /\ on' = on
         /\ asked' \subseteq {Event[q] : q \in Calls}
         /\ \A q \in Callers : pc'[q] = pc[q]
              \/ pc'[q] \in {"joined", "done", "http_session"}
              \/ (pc'[q] = "http_chat" /\ HasSession(k))
<1>1. Ways(pc) /\ asked \subseteq {Event[q] : q \in Calls}
  BY TypeParts DEF Rest
<1>2. Ways([pc EXCEPT ![p] = Decided(p, k, asked)])
  BY <1>1, DecidedTyped, WaysMove, Numbers DEF Reconnect
<1>3. client' = k /\ pc' = [pc EXCEPT ![p] = Decided(p, k, asked)] /\ on' = on
      /\ asked' = asked \cup {Event[p]}
  BY DEF Decide
<1>4. \A q \in Callers : pc'[q] = pc[q]
        \/ pc'[q] \in {"joined", "done", "http_session"}
        \/ (pc'[q] = "http_chat" /\ HasSession(k))
  BY <1>1, <1>3, DecidedTyped DEF Ways
<1> QED
  BY <1>1, <1>2, <1>3, <1>4

\* The calls that awaited a socket go on.
LEMMA AskingTyped ==
  ASSUME client \in Clients, NEW i, NEW p \in Calls
  PROVE  /\ Asking(i, p) \in Idle \cup Waiting
         /\ Asking(i, p) \in {"joined", "done", "http_session"}
              \/ (Asking(i, p) = "http_chat" /\ HasSession(client))
<1>1. Asking(i, p) = "joined" \/ Asking(i, p) = Decided(p, client, asked)
  BY DEF Asking
<1>2. CASE Asking(i, p) = "joined"
  BY <1>2 DEF Waiting
<1>3. CASE Asking(i, p) = Decided(p, client, asked)
  BY <1>3, DecidedTyped
<1> QED
  BY <1>1, <1>2, <1>3

LEMMA AwaitingFacts ==
  ASSUME TypeOK, NEW i
  PROVE  /\ Awaiting(i) \subseteq Calls \cup {Reconnect}
         /\ {Event[p] : p \in First(i)} \subseteq {Event[p] : p \in Calls}
         /\ Freed(i) => on' \in [Callers -> Sockets \cup {0}]
<1>1. Ways(pc) /\ on \in [Callers -> Sockets \cup {0}]
  BY TypeParts DEF Linked
<1>2. Awaiting(i) \subseteq Calls \cup {Reconnect}
  BY <1>1, CallersFacts DEF Awaiting
<1>3. First(i) \subseteq Calls
  BY <1>2 DEF First
<1> QED
  BY <1>1, <1>2, <1>3 DEF Freed

LEMMA ShutTyped ==
  ASSUME Linked, NEW i \in Sockets \cup {0}
  PROVE  /\ Shut(i) \in [Sockets -> SocketStates]
         /\ \A j \in Sockets :
              /\ Shut(i)[j].session = socks[j].session /\ Shut(i)[j].inbox = socks[j].inbox
              /\ Shut(i)[j].state = "closed" <=> socks[j].state = "closed"
              /\ j # i => Shut(i)[j] = socks[j]
         /\ i # 0 => Shut(i)[i].state \in {"closed", "closing", "failing"}
         /\ i # 0 /\ socks[i].state # "connecting" /\ socks[i].state # "failing" =>
              Shut(i)[i].state \in {"closed", "closing"}
<1>1. socks \in [Sockets -> SocketStates]
  BY DEF Linked
<1>2. CASE i = 0
  BY <1>1, <1>2, Numbers DEF Shut
<1>3. CASE i \in Sockets
  <2> DEFINE w == CASE socks[i].state \in {"open", "silent"} -> "closing"
                    [] socks[i].state = "connecting" -> "failing"
                    [] OTHER -> socks[i].state
  <2>1. socks[i] \in SocketStates /\ i # 0
    BY <1>1, <1>3, Numbers
  <2>2. /\ w \in {"closed", "closing", "failing"}
        /\ w = "closed" <=> socks[i].state = "closed"
        /\ socks[i].state # "connecting" /\ socks[i].state # "failing" => w \in {"closed", "closing"}
    BY <2>1, SocketFields
  <2>3. Shut(i) = [socks EXCEPT ![i] = [socks[i] EXCEPT !.state = w]]
    BY <1>1, <1>3, <2>1 DEF Shut
  <2> HIDE DEF w
  <2>4. /\ [socks[i] EXCEPT !.state = w] \in SocketStates /\ [socks[i] EXCEPT !.state = w].state = w
        /\ [socks[i] EXCEPT !.state = w].session = socks[i].session
        /\ [socks[i] EXCEPT !.state = w].inbox = socks[i].inbox
    <3>1. w \in {"closed", "connecting", "failing", "open", "silent", "closing"}
      BY <2>2
    <3> QED
      BY <2>1, <3>1, SocketTyped
  <2> QED
    BY <1>1, <1>3, <2>1, <2>2, <2>3, <2>4
<1> QED
  BY <1>2, <1>3

Base == TypeOK /\ Sessions

\* The steps in which the service does nothing.
LEMMA BaseKept ==
  ASSUME Base, service' = service, client' \in Clients, Timed', Linked', Ways(pc'), Answers', Rest',
         client'.session <= service.epoch, client'.epoch <= service.epoch,
         \A i \in Sockets : \/ socks'[i].state = "closed" \/ socks'[i] = socks[i]
                            \/ socks'[i].session \in 1 .. service.epoch
                            \/ socks'[i].session = socks[i].session /\ socks[i].state # "closed",
         \A p \in Calls : pc'[p] = "http_chat" => pc[p] = "http_chat" \/ service.epoch # 0
  PROVE  Base'
<1>1. TypeOK'
  <2>1. service' \in Services
    BY TypeParts DEF Base
  <2> QED
    BY <2>1, TypeParts DEF TypeOK, Timed, Linked, Ways, Answers, Rest
<1>2. Sessions'
  BY DEF Base, Sessions
<1> QED
  BY <1>1, <1>2 DEF Base

\* What a step keeps of what BaseKept asks for.
LEMMA BaseFacts ==
  ASSUME Base
  PROVE  /\ client \in Clients /\ service \in Services /\ Timed /\ Linked /\ Ways(pc)
         /\ Answers /\ Rest
         /\ service.epoch \in 0 .. MaxEpochs /\ service.epoch \in Nat
         /\ client.session \in 0 .. service.epoch /\ client.epoch \in 0 .. service.epoch
         /\ HasSession(client) => client.session \in 1 .. service.epoch
<1>1. /\ client \in Clients /\ service \in Services /\ Timed /\ Linked /\ Ways(pc)
      /\ Answers /\ Rest
  BY TypeParts DEF Base
<1> QED
  BY <1>1, ClientFields, ServiceFields, Numbers DEF Base, Sessions, HasSession

LEMMA EmitBase ==
  ASSUME Base, NEW p \in Calls, Emit(p)
  PROVE  Base'
<1>1. /\ timers' = timers /\ answer' = answer /\ service' = service /\ applied' = applied
      /\ bounds' = bounds /\ down' = FALSE /\ p \in Calls \cup {Reconnect}
  BY DEF Emit
<1>2. Timed' /\ Answers'
  BY <1>1, BaseFacts DEF Timed, Answers
<1>3. CASE client.static /\ Decide(p, client) /\ UNCHANGED link
  <2>1. Linked' /\ Rest'
    BY <1>1, <1>3, DecideTyped, BaseFacts DEF Linked, Rest, link, Base, bounds
  <2> QED
    BY <1>1, <1>2, <1>3, <2>1, DecideTyped, BaseFacts, BaseKept, CallersFacts DEF Base, link
<1>4. CASE ~client.static /\ HasSession(client) /\ Connect(p, client) /\ UNCHANGED asked
  <2>1. Rest'
    BY <1>1, <1>4, BaseFacts DEF Rest, bounds
  <2>2. /\ client' = client /\ Linked' /\ Ways(pc')
        /\ \A i \in Sockets : socks'[i] = socks[i]
             \/ socks'[i] = [state |-> "connecting", session |-> client.session, inbox |-> <<>>]
        /\ \A q \in Callers : pc'[q] = pc[q] \/ pc'[q] \in {"idle", "done", "ws_ready"}
    BY <1>1, <1>4, ConnectTyped, BaseFacts DEF Base
  <2>3. \A i \in Sockets : socks'[i] = socks[i] \/ socks'[i].session \in 1 .. service.epoch
    BY <1>4, <2>2, BaseFacts
  <2> QED
    BY <1>1, <1>2, <2>1, <2>2, <2>3, BaseFacts, BaseKept, CallersFacts
<1>5. CASE /\ ~client.static /\ ~HasSession(client)
           /\ Goto(p, "ws_session") /\ UNCHANGED <<client, link, asked>>
  <2>1. Ways(pc')
    BY <1>1, <1>5, BaseFacts, WaysMove DEF Goto, Waiting
  <2>2. Linked' /\ Rest'
    BY <1>1, <1>5, BaseFacts DEF Goto, link, Linked, Rest, bounds
  <2>3. \A q \in Calls : pc'[q] = "http_chat" => pc[q] = "http_chat"
    BY <1>5, BaseFacts, CallersFacts DEF Goto, Ways
  <2> QED
    BY <1>1, <1>2, <1>5, <2>1, <2>2, <2>3, BaseFacts, BaseKept DEF link
<1> QED
  BY <1>3, <1>4, <1>5 DEF Emit

LEMMA DecideCallBase ==
  ASSUME Base, NEW p \in Calls, DecideCall(p)
  PROVE  Base'
<1>1. /\ timers' = timers /\ answer' = answer /\ service' = service /\ applied' = applied
      /\ bounds' = bounds /\ down' = FALSE /\ link' = link /\ Decide(p, client)
  BY DEF DecideCall
<1>2. Timed' /\ Answers'
  BY <1>1, BaseFacts DEF Timed, Answers
<1>3. Linked' /\ Rest'
  BY <1>1, DecideTyped, BaseFacts DEF Linked, Rest, link, Base, bounds
<1> QED
  BY <1>1, <1>2, <1>3, DecideTyped, BaseFacts, BaseKept, CallersFacts DEF Base, link

LEMMA GrantedBase ==
  ASSUME Base, NEW p \in Callers, SessionGranted(p)
  PROVE  Base'
<1> DEFINE e == service.epoch + 1
           k == Granted(client, e)
<1>1. /\ timers' = timers /\ answer' = answer /\ applied' = applied /\ asked' = asked
      /\ bounds' = bounds /\ down' = down /\ pc[p] \in {"ws_session", "http_session"}
      /\ service' = [service EXCEPT !.epoch = e]
      /\ service.epoch < MaxEpochs
  BY DEF SessionGranted
<1>2. Timed' /\ Answers' /\ Rest' /\ p \in Calls \cup {Reconnect} /\ e \in Epochs /\ e \in Nat
  BY <1>1, BaseFacts, CallersFacts, Numbers DEF Timed, Answers, Rest, bounds, Epochs
<1>3. k \in Clients /\ k.session = e /\ k.epoch = e
  BY <1>2, BaseFacts, GrantedTyped
<1>4. /\ service' \in Services /\ service'.epoch = e /\ service'.made = service.made
      /\ service'.seq = service.seq
  BY <1>1, <1>2, BaseFacts, NewEpoch
<1>5. /\ client' = k /\ Linked' /\ Ways(pc')
      /\ \A i \in Sockets : socks'[i] = socks[i]
           \/ socks'[i] = [state |-> "connecting", session |-> k.session, inbox |-> <<>>]
  <2>1. CASE pc[p] = "ws_session"
    BY <1>1, <1>2, <1>3, <2>1, ConnectTyped DEF Base, SessionGranted
  <2>2. CASE pc[p] = "http_session"
    <3>1. /\ client' = k /\ Goto(p, "http_chat") /\ UNCHANGED link /\ p \in Calls
      BY <2>2, BaseFacts, CallersFacts DEF SessionGranted
    <3>2. Ways(pc')
      BY <3>1, BaseFacts, WaysMove, Numbers DEF Goto, Waiting, Reconnect
    <3> QED
      BY <3>1, <3>2, BaseFacts DEF Goto, link, Linked
  <2> QED
    BY <1>1, <2>1, <2>2
<1>6. TypeOK'
  BY <1>2, <1>3, <1>4, <1>5, TypeParts DEF TypeOK, Timed, Linked, Ways, Answers, Rest
<1>7. \A i \in Sockets : socks'[i].state # "closed" => socks'[i].session \in 1 .. e
  BY <1>2, <1>3, <1>5, BaseFacts DEF Base, Sessions
<1>8. Sessions'
  BY <1>2, <1>3, <1>4, <1>5, <1>7 DEF Base, Sessions, Epochs
<1> QED
  BY <1>6, <1>8 DEF Base

LEMMA RefusedBase ==
  ASSUME Base, NEW p \in Callers, SessionRefused(p)
  PROVE  Base'
<1> DEFINE k == [client EXCEPT !.static = TRUE]
<1>1. /\ link' = link /\ answer' = answer /\ service' = service /\ applied' = applied
      /\ bounds' = bounds /\ down' = down
  BY DEF SessionRefused
<1>2. Answers'
  BY <1>1, BaseFacts DEF Answers
<1>3. k \in Clients /\ Same(k, client, {})
  BY BaseFacts, FieldTyped
<1> HIDE DEF k
<1>4. CASE /\ pc[p] = "ws_session" /\ p = Reconnect
           /\ client' = Scheduled(k, timers) /\ timers' = Retry(timers)
           /\ Goto(p, "idle") /\ UNCHANGED asked
  <2>1. /\ client' \in Clients /\ client'.session = client.session
        /\ client'.epoch = client.epoch
    BY <1>3, <1>4, BaseFacts, ScheduledTyped DEF Same
  <2>2. Ways(pc')
    BY <1>4, BaseFacts, WaysMove DEF Goto, Idle
  <2>3. Timed' /\ Linked' /\ Rest'
    BY <1>1, <1>4, BaseFacts, RetryTyped DEF Timed, Linked, Rest, link, Goto, bounds
  <2>4. \A q \in Calls : pc'[q] = pc[q]
    BY <1>4, BaseFacts, CallersFacts, Numbers DEF Goto, Ways
  <2> QED
    BY <1>1, <1>2, <2>1, <2>2, <2>3, <2>4, BaseFacts, BaseKept DEF link
<1>5. CASE pc[p] = "ws_session" /\ p # Reconnect /\ Decide(p, k) /\ UNCHANGED timers
  <2>1. p \in Calls
    BY <1>5, BaseFacts, CallersFacts
  <2>2. /\ client' = k /\ Ways(pc') /\ on' = on /\ asked' \subseteq {Event[q] : q \in Calls}
        /\ \A q \in Callers : pc'[q] = pc[q]
             \/ pc'[q] \in {"joined", "done", "http_session"}
             \/ (pc'[q] = "http_chat" /\ HasSession(k))
    BY <1>3, <1>5, <2>1, DecideTyped DEF Base
  <2>3. HasSession(k) => HasSession(client)
    BY <1>3 DEF Same, HasSession
  <2>4. Timed' /\ Linked' /\ Rest'
    BY <1>1, <1>5, <2>2, BaseFacts DEF Timed, Linked, Rest, link, bounds
  <2>5. client'.session <= service.epoch /\ client'.epoch <= service.epoch
    BY <1>3, <2>2, BaseFacts DEF Same
  <2> QED
    BY <1>1, <1>2, <1>3, <2>2, <2>3, <2>4, <2>5, BaseFacts, BaseKept, CallersFacts DEF link
<1>6. CASE /\ pc[p] = "http_session" /\ client' = k
           /\ Goto(p, "done") /\ UNCHANGED <<timers, asked>>
  <2>1. p \in Calls
    BY <1>6, BaseFacts, CallersFacts
  <2>2. Ways(pc')
    BY <1>6, <2>1, BaseFacts, WaysMove, Numbers DEF Goto, Idle, Reconnect
  <2>3. Timed' /\ Linked' /\ Rest'
    BY <1>1, <1>6, BaseFacts DEF Timed, Linked, Rest, link, Goto, bounds
  <2>4. \A q \in Calls : pc'[q] = pc[q] \/ pc'[q] = "done"
    BY <1>6, BaseFacts, CallersFacts DEF Goto, Ways
  <2>5. client'.session <= service.epoch /\ client'.epoch <= service.epoch
    BY <1>3, <1>6, BaseFacts DEF Same
  <2> QED
    BY <1>1, <1>2, <1>3, <1>6, <2>2, <2>3, <2>4, <2>5, BaseFacts, BaseKept DEF link
<1> QED
  BY <1>4, <1>5, <1>6 DEF SessionRefused, k

\* Sockets whose state alone changes.
LEMMA OneSocketTyped ==
  ASSUME Linked, NEW i \in Sockets,
         NEW w \in {"closed", "connecting", "failing", "open", "silent", "closing"},
         socks' = [socks EXCEPT ![i].state = w]
  PROVE  /\ socks' \in [Sockets -> SocketStates]
         /\ socks'[i].state = w /\ socks'[i].session = socks[i].session
         /\ socks'[i].inbox = socks[i].inbox
         /\ \A j \in Sockets \ {i} : socks'[j] = socks[j]
<1>1. socks \in [Sockets -> SocketStates]
  BY DEF Linked
<1> QED
  BY ZenonT(60), <1>1, SocketTyped

\* The calls that awaited a socket are in HTTP, or have ended.
LEMMA WaitersBase ==
  ASSUME Base, NEW i, DOMAIN pc' = Callers, pc' = [p \in Callers |-> pc'[p]],
         \A p \in Callers : p \notin Awaiting(i) => pc'[p] = pc[p],
         Reconnect \in Awaiting(i) => pc'[Reconnect] = "idle",
         \A p \in Calls : p \in Awaiting(i) =>
           /\ pc'[p] \in Idle \cup Waiting
           /\ pc'[p] = "http_chat" => HasSession(client)
  PROVE  /\ Ways(pc')
         /\ \A p \in Calls : pc'[p] = "http_chat" => pc[p] = "http_chat" \/ service.epoch # 0
<1>1. Awaiting(i) \subseteq Calls \cup {Reconnect} /\ Ways(pc)
  BY AwaitingFacts, BaseFacts DEF Base
<1>2. \A p \in Callers : pc'[p] \in Idle \cup Waiting
  BY <1>1, CallersFacts DEF Ways, Idle
<1>3. Ways(pc')
  BY <1>1, <1>2, CallersFacts, Numbers DEF Ways
<1> QED
  BY <1>3, BaseFacts, CallersFacts, Numbers

LEMMA OpensBase ==
  ASSUME Base, NEW i \in Sockets, Opens(i)
  PROVE  Base'
<1> DEFINE F(p) == IF Blocked(i) THEN Asking(i, p) ELSE "done"
<1>1. /\ answer' = answer /\ service' = service /\ applied' = applied
      /\ bounds' = bounds /\ down' = down /\ socket' = socket /\ ready' = 0
      /\ timers' = timers \cup {"heartbeat"} /\ socks[i].state = "connecting"
      /\ socks' = [socks EXCEPT ![i].state = "open"]
      /\ client' = [client EXCEPT !.attempt = 0, !.opened = TRUE]
      /\ asked' = IF Blocked(i) THEN asked \cup {Event[p] : p \in First(i)} ELSE asked
      /\ Freed(i)
  BY DEF Opens
<1>2. Answers' /\ Timed' /\ Rest'
  BY <1>1, BaseFacts, AwaitingFacts DEF Answers, Timed, Rest, bounds, Base
<1>3. client' \in Clients /\ client'.session = client.session /\ client'.epoch = client.epoch
  BY <1>1, BaseFacts, OpenedTyped DEF Same
<1>4. /\ \A p \in Calls : F(p) \in Idle \cup Waiting
      /\ \A p \in Calls : F(p) = "http_chat" => HasSession(client)
  BY BaseFacts, AskingTyped DEF Idle
<1>5. pc' = [p \in Callers |-> IF p \notin Awaiting(i) THEN pc[p]
                                  ELSE IF p = Reconnect THEN "idle" ELSE F(p)]
  BY DEF Opens
<1> HIDE DEF F
<1>6. /\ Ways(pc')
      /\ \A p \in Calls : pc'[p] = "http_chat" => pc[p] = "http_chat" \/ service.epoch # 0
  <2>1. /\ DOMAIN pc' = Callers /\ pc' = [p \in Callers |-> pc'[p]]
        /\ \A p \in Callers : p \notin Awaiting(i) => pc'[p] = pc[p]
        /\ Reconnect \in Awaiting(i) => pc'[Reconnect] = "idle"
        /\ \A p \in Calls : p \in Awaiting(i) => pc'[p] = F(p)
    BY <1>5, CallersFacts, Numbers
  <2> QED
    BY <1>4, <2>1, WaitersBase
<1>7. /\ Linked' /\ socks'[i].session = socks[i].session
      /\ \A j \in Sockets \ {i} : socks'[j] = socks[j]
  BY <1>1, BaseFacts, OneSocketTyped, AwaitingFacts DEF Linked, Base
<1> QED
  BY <1>1, <1>2, <1>3, <1>6, <1>7, BaseFacts, BaseKept

LEMMA FailsBase ==
  ASSUME Base, NEW i \in Sockets, Fails(i)
  PROVE  Base'
<1>1. /\ answer' = answer /\ service' = service /\ applied' = applied
      /\ upsets' = upsets /\ down' = down /\ socket' = socket /\ ready' = 0
      /\ socks[i].state \in {"failing", "connecting"}
      /\ socks' = [socks EXCEPT ![i].state = "closing"]
      /\ asked' = asked \cup {Event[p] : p \in First(i)}
      /\ Freed(i)
      /\ \/ client' = Scheduled(client, timers) /\ timers' = Retry(timers)
         \/ client' = client /\ timers' = timers
      /\ losses' = losses \/ (losses' = losses + 1 /\ losses < MaxLosses)
  BY DEF Fails
<1>2. Answers' /\ Timed' /\ Rest'
  <2>1. Answers' /\ Timed'
    BY <1>1, BaseFacts, RetryTyped DEF Answers, Timed
  <2>2. losses' \in 0 .. MaxLosses
    BY <1>1, BaseFacts, Numbers DEF Rest
  <2> QED
    BY <1>1, <2>1, <2>2, BaseFacts, AwaitingFacts DEF Rest, Base
<1>3. client' \in Clients /\ client'.session = client.session /\ client'.epoch = client.epoch
  BY <1>1, BaseFacts, ScheduledTyped
<1>4. /\ \A p \in Calls : Asking(i, p) \in Idle \cup Waiting
      /\ \A p \in Calls : Asking(i, p) = "http_chat" => HasSession(client)
  BY BaseFacts, AskingTyped
<1>5. pc' = [p \in Callers |-> IF p \notin Awaiting(i) THEN pc[p]
                                  ELSE IF p = Reconnect THEN "idle" ELSE Asking(i, p)]
  BY DEF Fails
<1>6. /\ Ways(pc')
      /\ \A p \in Calls : pc'[p] = "http_chat" => pc[p] = "http_chat" \/ service.epoch # 0
  <2>1. /\ DOMAIN pc' = Callers /\ pc' = [p \in Callers |-> pc'[p]]
        /\ \A p \in Callers : p \notin Awaiting(i) => pc'[p] = pc[p]
        /\ Reconnect \in Awaiting(i) => pc'[Reconnect] = "idle"
        /\ \A p \in Calls : p \in Awaiting(i) => pc'[p] = Asking(i, p)
    BY <1>5, CallersFacts, Numbers
  <2> QED
    BY <1>4, <2>1, WaitersBase
<1>7. /\ Linked' /\ socks'[i].session = socks[i].session
      /\ \A j \in Sockets \ {i} : socks'[j] = socks[j]
  BY <1>1, BaseFacts, OneSocketTyped, AwaitingFacts DEF Linked, Base
<1> QED
  BY <1>1, <1>2, <1>3, <1>6, <1>7, BaseFacts, BaseKept

LEMMA ClosesBase ==
  ASSUME Base, NEW i \in Sockets, Closes(i)
  PROVE  Base'
<1>1. /\ answer' = answer /\ service' = service /\ applied' = applied /\ asked' = asked
      /\ upsets' = upsets /\ down' = down /\ pc' = pc /\ on' = on
      /\ socks' = [socks EXCEPT ![i] = Closed]
      /\ losses' = losses \/ (losses' = losses + 1 /\ losses < MaxLosses)
  BY DEF Closes
<1>2. losses' \in 0 .. MaxLosses
  BY <1>1, BaseFacts, Numbers DEF Rest
<1>3. Answers' /\ Rest' /\ Ways(pc')
  BY <1>1, <1>2, BaseFacts DEF Answers, Rest
<1>4. /\ client' \in Clients /\ client'.session = client.session
      /\ client'.epoch = client.epoch /\ Timed'
      /\ socket' \in Sockets \cup {0} /\ ready' \in Sockets \cup {0}
  <2> DEFINE t == timers \ {"heartbeat", "liveness"}
  <2>1. t \subseteq {"reconnect", "heartbeat", "liveness"}
    BY BaseFacts DEF Timed
  <2>2. CASE socket = i /\ client.stopped
    BY <2>1, <2>2, BaseFacts DEF Closes, Timed
  <2>3. CASE socket = i /\ ~client.stopped
    BY <2>1, <2>3, BaseFacts, RetryTyped, ScheduledTyped DEF Closes, Timed
  <2>4. CASE socket # i
    BY <2>4, BaseFacts DEF Closes, Timed, Linked
  <2> QED
    BY <2>2, <2>3, <2>4
<1>5. socks' \in [Sockets -> SocketStates] /\ socks'[i] = Closed
      /\ \A j \in Sockets \ {i} : socks'[j] = socks[j]
  BY <1>1, BaseFacts, FreshSockets DEF Linked
<1>6. Linked'
  BY <1>1, <1>4, <1>5, BaseFacts DEF Linked
<1>7. \A j \in Sockets : socks'[j].state = "closed" \/ socks'[j] = socks[j]
  BY <1>5, FreshSockets
<1> QED
  BY <1>1, <1>3, <1>4, <1>6, <1>7, BaseFacts, BaseKept

LEMMA SilentBase ==
  ASSUME Base, NEW i \in Sockets, GoesSilent(i)
  PROVE  Base'
<1>1. /\ answer' = answer /\ service' = service /\ applied' = applied /\ asked' = asked
      /\ upsets' = upsets /\ down' = down /\ pc' = pc /\ on' = on /\ socket' = socket
      /\ ready' = ready /\ client' = client /\ timers' = timers
      /\ socks[i].state = "open" /\ losses < MaxLosses /\ losses' = losses + 1
  BY DEF GoesSilent
<1>2. Answers' /\ Rest' /\ Ways(pc') /\ Timed'
  BY <1>1, BaseFacts, Numbers DEF Answers, Rest, Timed
<1>3. socks' = [socks EXCEPT ![i] = [[socks[i] EXCEPT !.state = "silent"] EXCEPT !.inbox = <<>>]]
  BY BaseFacts DEF GoesSilent, Linked
<1>4. socks[i] \in SocketStates /\ <<>> \in Seq(Frames)
  BY BaseFacts DEF Linked
<1> DEFINE s == [socks[i] EXCEPT !.state = "silent"]
<1>5. s \in SocketStates /\ s.session = socks[i].session
  BY <1>4, SocketTyped
<1> HIDE DEF s
<1>6. [s EXCEPT !.inbox = <<>>] \in SocketStates /\ [s EXCEPT !.inbox = <<>>].session = s.session
  BY <1>4, <1>5, InboxTyped
<1>7. /\ socks' \in [Sockets -> SocketStates] /\ socks'[i].session = socks[i].session
      /\ \A j \in Sockets \ {i} : socks'[j] = socks[j]
  BY <1>3, <1>5, <1>6, BaseFacts DEF Linked, s
<1>8. Linked'
  BY <1>1, <1>7, BaseFacts DEF Linked
<1> QED
  BY <1>1, <1>2, <1>7, <1>8, BaseFacts, BaseKept

LEMMA TimersBase ==
  ASSUME Base, ReconnectFires \/ BeatFires \/ LivenessFires
  PROVE  Base'
<1>1. /\ answer' = answer /\ service' = service /\ applied' = applied /\ asked' = asked
      /\ bounds' = bounds /\ down' = down
  BY DEF ReconnectFires, BeatFires, LivenessFires
<1>2. Answers' /\ Rest'
  BY <1>1, BaseFacts DEF Answers, Rest, bounds
<1>3. ASSUME ReconnectFires PROVE Base'
  <2> DEFINE t == timers \ {"reconnect"}
  <2>1. t \subseteq {"reconnect", "heartbeat", "liveness"}
    BY BaseFacts DEF Timed
  <2>2. CASE /\ client.static /\ client' = Scheduled(client, t) /\ timers' = Retry(t)
             /\ UNCHANGED <<link, pc, on>>
    <3>1. Linked' /\ Timed' /\ Ways(pc')
      BY <2>1, <2>2, BaseFacts, RetryTyped DEF Linked, Timed, link
    <3>2. client' \in Clients /\ client'.session = client.session /\ client'.epoch = client.epoch
      BY <2>2, BaseFacts, ScheduledTyped
    <3> QED
      BY <1>1, <1>2, <2>2, <3>1, <3>2, BaseFacts, BaseKept DEF link
  <2>3. CASE /\ ~client.static /\ ~HasSession(client) /\ timers' = t
             /\ Goto(Reconnect, "ws_session") /\ UNCHANGED <<client, link>>
    <3>1. Linked' /\ Timed'
      BY <2>1, <2>3, BaseFacts DEF Linked, Timed, link, Goto
    <3>2. Ways(pc') /\ \A q \in Calls : pc'[q] = pc[q]
      BY <2>3, BaseFacts, WaysMove, CallersFacts, Numbers DEF Goto, Waiting, Ways
    <3> QED
      BY <1>1, <1>2, <2>3, <3>1, <3>2, BaseFacts, BaseKept DEF link
  <2>4. CASE ~client.static /\ HasSession(client) /\ timers' = t /\ Connect(Reconnect, client)
    <3>1. Timed'
      BY <2>1, <2>4 DEF Timed
    <3>2. /\ client' = client /\ Linked' /\ Ways(pc')
          /\ \A i \in Sockets : socks'[i] = socks[i]
               \/ socks'[i] = [state |-> "connecting", session |-> client.session, inbox |-> <<>>]
          /\ \A q \in Callers : pc'[q] = pc[q] \/ pc'[q] \in {"idle", "done", "ws_ready"}
      BY <2>4, ConnectTyped, BaseFacts DEF Base
    <3>3. \A i \in Sockets : socks'[i] = socks[i] \/ socks'[i].session \in 1 .. service.epoch
      BY <2>4, <3>2, BaseFacts
    <3> QED
      BY <1>1, <1>2, <3>1, <3>2, <3>3, BaseFacts, BaseKept, CallersFacts
  <2> QED
    BY <1>3, <2>2, <2>3, <2>4 DEF ReconnectFires
<1>4. ASSUME BeatFires PROVE Base'
  <2>1. Timed' /\ Linked' /\ Ways(pc')
    BY <1>4, BaseFacts DEF BeatFires, Timed, Linked, link
  <2> QED
    BY <1>1, <1>2, <1>4, <2>1, BaseFacts, BaseKept DEF BeatFires, link
<1>5. ASSUME LivenessFires PROVE Base'
  <2>1. /\ Timed' /\ Ways(pc') /\ socks' = Shut(socket) /\ client' = client /\ on' = on
        /\ socket' = socket /\ ready' = ready /\ pc' = pc
    BY <1>5, BaseFacts DEF LivenessFires, Timed
  <2>2. Linked'
    BY <2>1, BaseFacts, ShutTyped DEF Linked
  <2>3. \A i \in Sockets :
          \/ socks'[i].state = "closed"
          \/ socks'[i].session = socks[i].session /\ socks[i].state # "closed"
    BY <2>1, BaseFacts, ShutTyped DEF Linked
  <2> QED
    BY <1>1, <1>2, <2>1, <2>2, <2>3, BaseFacts, BaseKept
<1> QED
  BY <1>3, <1>4, <1>5

\* The service makes a decision: for a call, or to send it.
LEMMA AfterMadeBase ==
  ASSUME Base, service.epoch # 0, service.made < MaxDecisions, NEW n \in Npcs
  PROVE  \A e \in Epochs : \A m \in Npcs : AfterMade(n).seq[e][m] <= service.made + 1
<1>1. service \in Services /\ Sessions
  BY BaseFacts DEF Base
<1>2. AfterMade(n).seq = [service.seq EXCEPT ![service.epoch] =
        [service.seq[service.epoch] EXCEPT ![n] = service.seq[service.epoch][n] + 1]]
  BY <1>1, MadeTyped
<1>3. /\ service.seq \in [Epochs -> [Npcs -> 0 .. MaxDecisions]] /\ service.made \in Nat
      /\ \A e \in Epochs : \A m \in Npcs : service.seq[e][m] \in Nat
                                             /\ service.seq[e][m] <= service.made
  BY <1>1, ServiceFields DEF Sessions
<1> QED
  BY <1>2, <1>3

LEMMA ServiceAnswersBase ==
  ASSUME Base, NEW p \in Calls, ServiceAnswers(p)
  PROVE  Base'
<1>1. /\ client' = client /\ timers' = timers /\ link' = link /\ pc' = pc /\ on' = on
      /\ asked' = asked /\ applied' = applied /\ down' = down /\ bounds' = bounds
      /\ pc[p] = "http_chat" /\ service.made < MaxDecisions
      /\ answer' = [answer EXCEPT ![p] = {Made(Npc[p])}]
      /\ service' = AfterMade(Npc[p])
  BY DEF ServiceAnswers
<1>2. service.epoch # 0 /\ Npc[p] \in Npcs /\ service \in Services /\ Sessions
  BY <1>1, BaseFacts, Numbers DEF Base, Sessions
<1>3. /\ Made(Npc[p]) \in Decisions /\ service' \in Services /\ service'.epoch = service.epoch
      /\ service'.made = service.made + 1
  BY <1>1, <1>2, MadeTyped
<1>4. Answers'
  BY <1>1, <1>3, BaseFacts DEF Answers
<1>5. TypeOK'
  BY <1>1, <1>3, <1>4, BaseFacts, TypeParts
     DEF TypeOK, Timed, Linked, Ways, Answers, Rest, link, bounds
<1>6. Sessions'
  <2>1. \A e \in Epochs : \A n \in Npcs : service'.seq[e][n] <= service'.made
    BY <1>1, <1>2, <1>3, AfterMadeBase
  <2> QED
    BY <1>1, <1>3, <2>1 DEF Base, Sessions, link
<1> QED
  BY <1>5, <1>6 DEF Base

\* What the service sends is at the end of the inbox.
LEMMA PushTyped ==
  ASSUME Base, NEW i \in Sockets, NEW f \in Frames, NEW s \in Services, s.wire < MaxWire, Push(i, f, s)
  PROVE  /\ socks' \in [Sockets -> SocketStates] /\ service' \in Services
         /\ service'.epoch = s.epoch /\ service'.made = s.made /\ service'.seq = s.seq
         /\ socks'[i].state = socks[i].state /\ socks'[i].session = socks[i].session
         /\ socks'[i].inbox = Append(socks[i].inbox, f)
         /\ \A j \in Sockets \ {i} : socks'[j] = socks[j]
<1>1. socks \in [Sockets -> SocketStates] /\ socks[i] \in SocketStates
  BY BaseFacts DEF Linked
<1>2. socks' = [socks EXCEPT ![i] = [socks[i] EXCEPT !.inbox = Append(socks[i].inbox, f)]]
  BY <1>1 DEF Push
<1>3. Append(socks[i].inbox, f) \in Seq(Frames)
  BY <1>1, SocketFields
<1>4. LET r == [socks[i] EXCEPT !.inbox = Append(socks[i].inbox, f)] IN
      /\ r \in SocketStates /\ r.state = socks[i].state
      /\ r.session = socks[i].session /\ r.inbox = Append(socks[i].inbox, f)
  BY <1>1, <1>3, InboxTyped
<1>5. service' = [s EXCEPT !.wire = @ + 1]
  BY DEF Push
<1> QED
  BY <1>1, <1>2, <1>4, <1>5, WireTyped

\* The service's push, by what it sends: the frame and what it counts.
Sends(i, f, s) ==
  /\ Push(i, f, s) /\ f.epoch = service.epoch
  /\ \/ f.type = "session_ready" /\ s = service
     \/ /\ f.type = "resume_reset" /\ s = [service EXCEPT !.seq[service.epoch] = [n \in Npcs |-> 0]]
        /\ Overtaking \/ \A p \in Calls : answer[p] = {}
     \/ /\ f.type = "decision" /\ f.decision.epoch = f.epoch /\ service.made < MaxDecisions
        /\ \E n \in Npcs : f.decision = Made(n) /\ s = AfterMade(n)

LEMMA PushKinds ==
  ASSUME Base, NEW i \in Sockets, ServicePushes(i)
  PROVE  /\ service.epoch # 0 /\ service.wire < MaxWire /\ socks[i].state = "open"
         /\ \E f \in Frames : \E s \in Services : Sends(i, f, s) /\ s.wire = service.wire
<1>1. socks[i].state = "open" /\ service.wire < MaxWire /\ service \in Services
  BY BaseFacts DEF ServicePushes
<1>2. service.epoch \in Epochs /\ service.epoch # 0 /\ service.wire + 1 \in 1 .. MaxWire
  BY <1>1, BaseFacts, ServiceFields, Numbers DEF Base, Sessions, Epochs
<1>3. CASE Push(i, Frame("session_ready"), service)
  <2>1. /\ Frame("session_ready") \in Frames /\ Frame("session_ready").type = "session_ready"
        /\ Frame("session_ready").epoch = service.epoch
    BY <1>2 DEF Frame, Frames
  <2> QED
    BY <1>1, <1>2, <1>3, <2>1 DEF Sends
<1>4. CASE /\ Overtaking \/ \A p \in Calls : answer[p] = {}
           /\ Push(i, Frame("resume_reset"),
                   [service EXCEPT !.seq[service.epoch] = [n \in Npcs |-> 0]])
  <2>1. /\ Frame("resume_reset") \in Frames /\ Frame("resume_reset").type = "resume_reset"
        /\ Frame("resume_reset").epoch = service.epoch
    BY <1>2 DEF Frame, Frames
  <2> DEFINE s == [service EXCEPT !.seq[service.epoch] = [n \in Npcs |-> 0]]
  <2>2. s \in Services /\ s.wire = service.wire
    BY <1>1, <1>2, AnewTyped
  <2>3. Sends(i, Frame("resume_reset"), s)
    BY <1>4, <2>1 DEF Sends
  <2> QED
    BY <1>1, <1>2, <2>1, <2>2, <2>3
<1>5. ASSUME NEW n \in Npcs, service.made < MaxDecisions,
             Push(i, [type |-> "decision", epoch |-> service.epoch,
                      seq |-> service.wire + 1, decision |-> Made(n)], AfterMade(n))
      PROVE  \E f \in Frames : \E s \in Services : Sends(i, f, s) /\ s.wire = service.wire
  <2> DEFINE f == [type |-> "decision", epoch |-> service.epoch,
                   seq |-> service.wire + 1, decision |-> Made(n)]
  <2>1. /\ Made(n) \in Decisions /\ Made(n).epoch = service.epoch /\ AfterMade(n) \in Services
        /\ AfterMade(n).wire = service.wire
    BY <1>1, <1>2, <1>5, MadeTyped DEF Base
  <2>2. /\ f \in Frames /\ f.type = "decision" /\ f.decision = Made(n)
        /\ f.epoch = service.epoch
    BY <1>2, <2>1 DEF Frames
  <2> HIDE DEF f
  <2>3. Push(i, f, AfterMade(n))
    BY <1>5 DEF f
  <2> QED
    BY <1>5, <2>1, <2>2, <2>3 DEF Sends
<1> QED
  BY <1>1, <1>2, <1>3, <1>4, <1>5 DEF ServicePushes

LEMMA ServicePushesBase ==
  ASSUME Base, NEW i \in Sockets, ServicePushes(i)
  PROVE  Base'
<1>1. /\ client' = client /\ timers' = timers /\ socket' = socket /\ ready' = ready /\ pc' = pc
      /\ on' = on /\ asked' = asked /\ answer' = answer /\ applied' = applied /\ down' = down
      /\ bounds' = bounds
  BY DEF ServicePushes
<1>2. service.epoch # 0 /\ service.wire < MaxWire /\ socks[i].state = "open"
  BY PushKinds
<1>3. PICK f \in Frames : \E s \in Services : Sends(i, f, s) /\ s.wire = service.wire
  BY PushKinds
<1>4. PICK s \in Services : Sends(i, f, s) /\ s.wire = service.wire
  BY <1>3
<1>5. Push(i, f, s) /\ s.wire < MaxWire
  BY <1>2, <1>4 DEF Sends
<1>6. /\ service.seq \in [Epochs -> [Npcs -> 0 .. MaxDecisions]] /\ service.made \in Nat
      /\ \A e \in Epochs : \A n \in Npcs : service.seq[e][n] \in Nat
                                             /\ service.seq[e][n] <= service.made
  BY BaseFacts, ServiceFields DEF Base, Sessions
<1>7. s.epoch = service.epoch /\ \A e \in Epochs : \A n \in Npcs : s.seq[e][n] <= s.made
  <2>1. CASE f.type = "session_ready" /\ s = service
    BY <1>6, <2>1
  <2>2. CASE s = [service EXCEPT !.seq[service.epoch] = [n \in Npcs |-> 0]]
    <3>1. /\ s.epoch = service.epoch /\ s.made = service.made
          /\ s.seq = [service.seq EXCEPT ![service.epoch] = [n \in Npcs |-> 0]]
      BY <1>2, <2>2, BaseFacts, AnewTyped
    <3> QED
      BY <1>6, <3>1
  <2>3. ASSUME NEW n \in Npcs, service.made < MaxDecisions, s = AfterMade(n)
        PROVE  s.epoch = service.epoch
               /\ \A e \in Epochs : \A m \in Npcs : s.seq[e][m] <= s.made
    <3>1. service \in Services /\ Sessions
      BY BaseFacts DEF Base
    <3>2. s.epoch = service.epoch /\ s.made = service.made + 1
      BY <1>2, <2>3, <3>1, MadeTyped
    <3>3. \A e \in Epochs : \A m \in Npcs : s.seq[e][m] <= service.made + 1
      BY <1>2, <2>3, AfterMadeBase
    <3> QED
      BY <3>2, <3>3
  <2> QED
    BY <1>4, <2>1, <2>2, <2>3 DEF Sends
<1>8. /\ socks' \in [Sockets -> SocketStates] /\ service' \in Services
      /\ service'.epoch = service.epoch /\ service'.made = s.made /\ service'.seq = s.seq
      /\ socks'[i].state = socks[i].state /\ socks'[i].session = socks[i].session
      /\ \A j \in Sockets \ {i} : socks'[j] = socks[j]
  BY <1>5, <1>7, PushTyped
<1>9. TypeOK'
  BY <1>1, <1>8, BaseFacts, TypeParts
     DEF TypeOK, Timed, Linked, Ways, Answers, Rest, bounds
<1>10. Sessions'
  BY <1>1, <1>7, <1>8, BaseFacts DEF Base, Sessions
<1> QED
  BY <1>9, <1>10 DEF Base

LEMMA ServiceResetsBase ==
  ASSUME Base, ServiceResets
  PROVE  Base'
<1> DEFINE e == service.epoch + 1
<1>1. /\ client' = client /\ timers' = timers /\ link' = link /\ pc' = pc
      /\ on' = on /\ asked' = asked /\ answer' = answer /\ applied' = applied /\ down' = down
      /\ losses' = losses /\ upsets' = upsets + 1 /\ upsets < MaxUpsets
      /\ service.epoch \in 1 .. MaxEpochs - 1
      /\ service' = [service EXCEPT !.epoch = e]
  BY BaseFacts DEF ServiceResets, Services
<1>2. e \in Epochs /\ e = service.epoch + 1 /\ service.epoch \in Nat /\ e \in Nat
  BY <1>1, Numbers, BaseFacts DEF Epochs
<1> HIDE DEF e
<1>3. /\ service' \in Services /\ service'.epoch = e /\ service'.made = service.made
      /\ service'.seq = service.seq
  BY <1>1, <1>2, BaseFacts, NewEpoch
<1>4. upsets' \in 0 .. MaxUpsets
  BY <1>1, BaseFacts, Numbers DEF Rest
<1>5. TypeOK'
  BY <1>1, <1>3, <1>4, BaseFacts, TypeParts
     DEF TypeOK, Timed, Linked, Ways, Answers, Rest, link
<1>6. Sessions'
  <2>1. client.session <= e /\ client.epoch <= e
    BY <1>2, BaseFacts
  <2>2. \A j \in Sockets : socks[j].state # "closed" => socks[j].session \in 1 .. e
    BY <1>2 DEF Base, Sessions
  <2> QED
    BY <1>1, <1>2, <1>3, <2>1, <2>2 DEF Base, Sessions, link
<1> QED
  BY <1>5, <1>6 DEF Base

\* The head of the inbox is read.
LEMMA TakeTyped ==
  ASSUME Linked, NEW i \in Sockets, socks[i].inbox # <<>>,
         socks' = [socks EXCEPT ![i].inbox = Tail(@)]
  PROVE  /\ socks' \in [Sockets -> SocketStates] /\ Head(socks[i].inbox) \in Frames
         /\ socks'[i].state = socks[i].state /\ socks'[i].session = socks[i].session
         /\ socks'[i].inbox = Tail(socks[i].inbox)
         /\ \A j \in Sockets \ {i} : socks'[j] = socks[j]
<1>1. socks \in [Sockets -> SocketStates] /\ socks[i] \in SocketStates
  BY DEF Linked
<1>2. Head(socks[i].inbox) \in Frames /\ Tail(socks[i].inbox) \in Seq(Frames)
  BY <1>1, SocketFields
<1>3. socks' = [socks EXCEPT ![i] = [socks[i] EXCEPT !.inbox = Tail(socks[i].inbox)]]
  BY <1>1
<1>4. LET r == [socks[i] EXCEPT !.inbox = Tail(socks[i].inbox)] IN
      /\ r \in SocketStates /\ r.state = socks[i].state
      /\ r.session = socks[i].session /\ r.inbox = Tail(socks[i].inbox)
  BY <1>1, <1>2, InboxTyped
<1> QED
  BY <1>1, <1>2, <1>3, <1>4

\* What a frame does to the client, the service's epoch being the last there is.
LEMMA ReceiveKinds ==
  ASSUME Base, NEW i \in Sockets, Receive(i)
  PROVE  LET f == Head(socks[i].inbox)
             k == [client EXCEPT !.wire[f.epoch] = f.seq] IN
         /\ f \in Frames /\ k \in Clients /\ Same(k, client, {})
         /\ timers' \subseteq timers
         /\ \/ client' = client /\ applied' = applied
            \/ /\ f.type = "session_ready" /\ client.session # 0 /\ f.epoch >= client.epoch
               /\ client' \in {k, Adopted(k, f.epoch)} /\ applied' = applied
            \/ /\ f.type = "resume_reset" /\ f.epoch = client.epoch
               /\ client' = [k EXCEPT !.last = [n \in Npcs |-> 0]] /\ applied' = applied
            \/ /\ f.type = "decision" /\ client.session # 0 /\ f.epoch = client.epoch
               /\ client' = Accepted(k, f.decision) /\ Give(k, f.decision)
<1> DEFINE f == Head(socks[i].inbox)
           k == [client EXCEPT !.wire[f.epoch] = f.seq]
<1>1. f \in Frames
  BY BaseFacts, TakeTyped DEF Receive
<1>2. k \in Clients /\ Same(k, client, {})
  BY <1>1, FrameFields, BaseFacts, ReadTyped
<1>3. CASE ~AcceptsFrame(client, f)
  BY <1>1, <1>2, <1>3 DEF Receive
<1>4. CASE AcceptsFrame(client, f)
  <2>1. /\ client.session # 0
        /\ f.type = "session_ready" => f.epoch >= client.epoch
        /\ f.type # "session_ready" => f.epoch = client.epoch
    BY <1>4 DEF AcceptsFrame
  <2>2. /\ timers' = timers \ {"liveness"}
        /\ \/ /\ f.type = "session_ready"
              /\ client' = IF socks[i].session = client.session
                             THEN Adopted(k, f.epoch) ELSE k
              /\ UNCHANGED applied
           \/ /\ f.type = "resume_reset"
              /\ client' = [k EXCEPT !.last = [n \in Npcs |-> 0]] /\ UNCHANGED applied
           \/ /\ f.type = "decision"
              /\ client' = Accepted(k, f.decision) /\ Give(k, f.decision)
    BY <1>4 DEF Receive
  <2> HIDE DEF f, k
  <2>3. f.type = "resume_reset" \/ f.type = "decision" => f.epoch = client.epoch
    BY <1>1, <2>1
  <2>4. \/ /\ f.type = "session_ready" /\ client.session # 0 /\ f.epoch >= client.epoch
           /\ client' \in {k, Adopted(k, f.epoch)} /\ applied' = applied
        \/ /\ f.type = "resume_reset" /\ f.epoch = client.epoch
           /\ client' = [k EXCEPT !.last = [n \in Npcs |-> 0]] /\ applied' = applied
        \/ /\ f.type = "decision" /\ client.session # 0 /\ f.epoch = client.epoch
           /\ client' = Accepted(k, f.decision) /\ Give(k, f.decision)
    BY <2>1, <2>2, <2>3
  <2>5. timers' \subseteq timers
    BY <2>2
  <2> QED
    BY <1>1, <1>2, <2>4, <2>5 DEF f, k
<1> QED
  BY <1>3, <1>4

\* A decision that is given to the game.
LEMMA GiveTyped ==
  ASSUME Rest, NEW k, NEW d \in Decisions, Give(k, d)
  PROVE  applied' \in [Npcs -> 0 .. MaxDecisions]
BY DecisionFields DEF Rest, Give

LEMMA ReceiveBase ==
  ASSUME Base, Begun, NEW i \in Sockets, Receive(i)
  PROVE  Base'
<1> DEFINE f == Head(socks[i].inbox)
           k == [client EXCEPT !.wire[f.epoch] = f.seq]
<1>1. /\ socket' = socket /\ ready' = ready /\ pc' = pc /\ on' = on /\ asked' = asked
      /\ answer' = answer /\ service' = service /\ down' = down /\ bounds' = bounds
      /\ socks[i].state = "open" /\ socks[i].inbox # <<>>
      /\ socks' = [socks EXCEPT ![i].inbox = Tail(@)]
  BY DEF Receive
<1>2. /\ f \in Frames /\ k \in Clients /\ Same(k, client, {}) /\ timers' \subseteq timers
      /\ \/ client' = client /\ applied' = applied
         \/ /\ f.type = "session_ready" /\ client.session # 0 /\ f.epoch >= client.epoch
            /\ client' \in {k, Adopted(k, f.epoch)} /\ applied' = applied
         \/ /\ f.type = "resume_reset" /\ f.epoch = client.epoch
            /\ client' = [k EXCEPT !.last = [n \in Npcs |-> 0]] /\ applied' = applied
         \/ /\ f.type = "decision" /\ f.epoch = client.epoch
            /\ client' = Accepted(k, f.decision) /\ Give(k, f.decision)
  BY ReceiveKinds
<1>3. f.epoch \in 0 .. service.epoch /\ f.epoch \in 0 .. MaxEpochs
  <2>1. socks[i].inbox \in Seq(Frames)
    BY BaseFacts, SocketFields DEF Linked
  <2>2. 1 \in Arriving(i) /\ f = socks[i].inbox[1]
    BY <1>1, <2>1 DEF Arriving
  <2>3. f.epoch \in 1 .. MaxEpochs
    BY <1>2, FrameFields DEF Epochs
  <2> QED
    BY <2>2, <2>3, Numbers, BaseFacts DEF Begun
<1> HIDE DEF f, k
<1>4. /\ client' \in Clients /\ client'.session = client.session
      /\ client'.epoch <= service.epoch
  <2>1. CASE client' = client
    BY <2>1, BaseFacts
  <2>2. CASE client' = k
    BY <1>2, <2>2, BaseFacts DEF Same
  <2>3. CASE client' = Adopted(k, f.epoch)
    <3>1. /\ client' \in Clients /\ client'.session = k.session
          /\ client'.epoch \in {k.epoch, f.epoch}
      BY <1>2, <1>3, <2>3, AdoptedTyped
    <3> QED
      BY <1>2, <1>3, <3>1, BaseFacts DEF Same
  <2>4. CASE client' = [k EXCEPT !.last = [n \in Npcs |-> 0]]
    <3>1. client' \in Clients /\ Same(client', k, {"last"})
      BY <1>2, <2>4, FieldTyped, ForgetsTyped
    <3> QED
      BY <1>2, <3>1, BaseFacts DEF Same
  <2>5. CASE f.type = "decision" /\ client' = Accepted(k, f.decision)
    <3>1. client' \in Clients /\ client'.session = k.session /\ client'.epoch = k.epoch
      BY <1>2, <2>5, FrameFields, AcceptedTyped
    <3> QED
      BY <1>2, <3>1, BaseFacts DEF Same
  <2> QED
    BY <1>2, <2>1, <2>2, <2>3, <2>4, <2>5
<1>5. applied' \in [Npcs -> 0 .. MaxDecisions]
  <2>1. applied' = applied \/ (f.type = "decision" /\ Give(k, f.decision))
    BY <1>2
  <2> QED
    BY <1>2, <2>1, GiveTyped, FrameFields, BaseFacts DEF Rest
<1>6. Timed' /\ Ways(pc') /\ Answers' /\ Rest'
  BY <1>1, <1>2, <1>5, BaseFacts DEF Timed, Answers, Rest, bounds
<1>7. /\ socks' \in [Sockets -> SocketStates]
      /\ socks'[i].state = socks[i].state /\ socks'[i].session = socks[i].session
      /\ \A j \in Sockets \ {i} : socks'[j] = socks[j]
  BY <1>1, BaseFacts, TakeTyped
<1>8. Linked'
  BY <1>1, <1>7, BaseFacts DEF Linked
<1>9. client'.session <= service.epoch
  BY <1>4, BaseFacts
<1> QED
  BY <1>1, <1>4, <1>6, <1>7, <1>8, <1>9, BaseKept

\* A call that ends.
LEMMA DoneTyped ==
  ASSUME Base, NEW p \in Calls, Goto(p, "done")
  PROVE  /\ Ways(pc') /\ on' = on
         /\ \A q \in Callers : pc'[q] = pc[q] \/ pc'[q] = "done"
<1>1. Ways(pc') /\ on' = on
  BY BaseFacts, WaysMove, Numbers DEF Goto, Idle, Reconnect
<1> QED
  BY <1>1, BaseFacts DEF Goto, Ways

LEMMA ChatBase ==
  ASSUME Base, Begun, NEW p \in Calls, Chat(p)
  PROVE  Base'
<1>1. /\ timers' = timers /\ link' = link /\ asked' = asked /\ service' = service
      /\ down' = down /\ bounds' = bounds /\ Goto(p, "done")
      /\ answer' = answer \/ answer' = [answer EXCEPT ![p] = {}]
  BY DEF Chat, ChatAnswered, ChatFails, JoinedEnds
<1>2. /\ Ways(pc') /\ on' = on
      /\ \A q \in Callers : pc'[q] = pc[q] \/ pc'[q] = "done"
  BY <1>1, DoneTyped
<1>3. Answers'
  BY <1>1, BaseFacts DEF Answers
<1>4. Linked' /\ Timed'
  BY <1>1, <1>2, BaseFacts DEF Linked, Timed, link
<1>5. /\ client' \in Clients /\ client'.session = client.session
      /\ client'.epoch <= service.epoch /\ applied' \in [Npcs -> 0 .. MaxDecisions]
  <2>1. ASSUME NEW d \in answer[p], Give(Adopted(client, d.epoch), d),
               client' = Accepted(Adopted(client, d.epoch), d)
        PROVE  /\ client' \in Clients /\ client'.session = client.session
               /\ client'.epoch <= service.epoch /\ applied' \in [Npcs -> 0 .. MaxDecisions]
    <3>1. d \in Decisions /\ d.epoch <= service.epoch
      BY BaseFacts DEF Answers, Begun
    <3>2. d.epoch \in 0 .. MaxEpochs /\ d.epoch \in 1 .. MaxEpochs
      BY <3>1, DecisionFields, Numbers DEF Epochs
    <3> DEFINE k == Adopted(client, d.epoch)
    <3>3. k \in Clients /\ k.session = client.session /\ k.epoch \in {client.epoch, d.epoch}
      BY <3>2, BaseFacts, AdoptedTyped
    <3> HIDE DEF k
    <3>4. /\ client' \in Clients /\ client'.session = k.session /\ client'.epoch = k.epoch
      BY <2>1, <3>1, <3>3, AcceptedTyped DEF k
    <3>5. applied' \in [Npcs -> 0 .. MaxDecisions]
      BY <2>1, <3>1, BaseFacts, GiveTyped
    <3> QED
      BY <3>1, <3>3, <3>4, <3>5, BaseFacts
  <2>2. ASSUME client' \in {client, Adopted(client, service.epoch)}, applied' = applied
        PROVE  /\ client' \in Clients /\ client'.session = client.session
               /\ client'.epoch <= service.epoch /\ applied' \in [Npcs -> 0 .. MaxDecisions]
    <3>1. LET k == Adopted(client, service.epoch) IN
          k \in Clients /\ k.session = client.session /\ k.epoch \in {client.epoch, service.epoch}
      BY BaseFacts, AdoptedTyped
    <3> QED
      BY <2>2, <3>1, BaseFacts DEF Rest
  <2>3. CASE ChatAnswered(p)
    BY <2>1, <2>3 DEF ChatAnswered
  <2>4. CASE ChatFails(p)
    BY <2>2, <2>4 DEF ChatFails
  <2>5. CASE JoinedEnds(p)
    BY <2>2, <2>5 DEF JoinedEnds
  <2> QED
    BY <2>3, <2>4, <2>5 DEF Chat
<1>6. Rest'
  BY <1>1, <1>5, BaseFacts DEF Rest, bounds
<1>7. client'.session <= service.epoch
  BY <1>5, BaseFacts
<1> QED
  BY <1>1, <1>2, <1>3, <1>4, <1>5, <1>6, <1>7, BaseKept, CallersFacts DEF link

\* The game's other calls.
LEMMA GameBase ==
  ASSUME Base, Resume \/ Resumed \/ EndEpisode \/ EpisodeEnded \/ Disconnect \/ Expire
  PROVE  Base'
<1>1. /\ asked' = asked /\ service' = service /\ applied' = applied /\ on' = on
      /\ losses' = losses
  BY DEF Resume, Resumed, EndEpisode, EpisodeEnded, Disconnect, Expire, Goto, bounds
<1>2. upsets' \in 0 .. MaxUpsets /\ down' \in BOOLEAN
  <2>1. /\ upsets' = upsets \/ (upsets' = upsets + 1 /\ upsets < MaxUpsets)
        /\ down' \in {down, TRUE, FALSE}
    BY DEF Resume, Resumed, EndEpisode, EpisodeEnded, Disconnect, Expire, bounds
  <2>2. upsets \in 0 .. MaxUpsets /\ down \in BOOLEAN
    BY BaseFacts DEF Rest
  <2>3. upsets' \in 0 .. MaxUpsets
    BY <2>1, <2>2, Numbers
  <2>4. down' \in BOOLEAN
    BY <2>1, <2>2
  <2> QED
    BY <2>3, <2>4
<1>3. Rest'
  BY <1>1, <1>2, BaseFacts DEF Rest
<1>4. Timed' /\ Answers'
  BY BaseFacts DEF Timed, Answers, Resume, Resumed, EndEpisode, EpisodeEnded, Disconnect, Expire
<1>5. Ways(pc') /\ \A q \in Calls : pc'[q] = "http_chat" => pc[q] = "http_chat"
  <2>1. \A s \in Idle \cup {"http_resume"} :
          pc' = [pc EXCEPT !["resume"] = s] =>
            Ways(pc') /\ \A q \in Calls : pc'[q] = "http_chat" => pc[q] = "http_chat"
    BY BaseFacts, CallersFacts, Numbers DEF Ways, Waiting, Idle
  <2>2. \A s \in Idle \cup {"http_end"} :
          pc' = [pc EXCEPT !["end"] = s] =>
            Ways(pc') /\ \A q \in Calls : pc'[q] = "http_chat" => pc[q] = "http_chat"
    BY BaseFacts, CallersFacts, Numbers DEF Ways, Waiting, Idle
  <2>3. pc' = [p \in Callers |-> IF pc[p] = "http_chat" THEN "done" ELSE pc[p]] =>
            Ways(pc') /\ \A q \in Calls : pc'[q] = "http_chat" => pc[q] = "http_chat"
    BY BaseFacts, CallersFacts DEF Ways, Idle
  <2>4. Disconnect => pc' = [p \in Callers |-> IF pc[p] = "http_chat" THEN "done" ELSE pc[p]]
    BY DEF Disconnect
  <2>5. "done" \in Idle
    BY DEF Idle
  <2> QED
    BY <2>1, <2>2, <2>3, <2>4, <2>5, BaseFacts
       DEF Resume, Resumed, EndEpisode, EpisodeEnded, Expire, Goto
<1>6. Linked' /\ \A i \in Sockets :
        \/ socks'[i] = socks[i]
        \/ socks'[i].session = socks[i].session /\ (socks'[i].state = "closed" \/ socks[i].state # "closed")
  <2>1. CASE link' = link
    BY <1>1, <2>1, BaseFacts DEF Linked, link
  <2>2. CASE Disconnect
    <3>1. /\ socks' = Shut(socket) /\ socket' = 0 /\ ready' = 0
      BY <2>2 DEF Disconnect
    <3>2. Linked'
      BY <1>1, <3>1, BaseFacts, ShutTyped DEF Linked
    <3>3. \A i \in Sockets :
            /\ socks'[i].session = socks[i].session
            /\ socks'[i].state = "closed" <=> socks[i].state = "closed"
      BY <3>1, BaseFacts, ShutTyped DEF Linked
    <3> QED
      BY <3>2, <3>3
  <2> QED
    BY <2>1, <2>2 DEF Resume, Resumed, EndEpisode, EpisodeEnded, Expire
<1>7. /\ client' \in Clients /\ client'.session <= service.epoch /\ client'.epoch <= service.epoch
  <2>1. CASE client' = client
    BY <2>1, BaseFacts
  <2>2. CASE Resumed
    <3>1. \A k \in Clients : k.epoch <= service.epoch /\ k.session <= service.epoch =>
            LET r == [k EXCEPT !.epoch = service.epoch] IN
            r \in Clients /\ r.session <= service.epoch /\ r.epoch <= service.epoch
      BY BaseFacts, FieldTyped DEF Same
    <3>2. LET r == [client EXCEPT !.last = [n \in Npcs |-> 0]] IN
          r \in Clients /\ r.epoch <= service.epoch /\ r.session <= service.epoch
      <4>1. LET r == [client EXCEPT !.last = [n \in Npcs |-> 0]] IN
            r \in Clients /\ Same(r, client, {"last"})
        BY BaseFacts, FieldTyped, ForgetsTyped
      <4> QED
        BY <4>1, BaseFacts DEF Same
    <3>3. client.epoch <= service.epoch /\ client.session <= service.epoch /\ client \in Clients
      BY BaseFacts
    <3> DEFINE k == IF service.epoch # client.epoch THEN [client EXCEPT !.last = [n \in Npcs |-> 0]]
                                                    ELSE client
    <3>4. k \in Clients /\ k.epoch <= service.epoch /\ k.session <= service.epoch
      BY <3>2, <3>3
    <3>5. client' \in {client, k, [k EXCEPT !.epoch = service.epoch]}
      BY <2>2 DEF Resumed
    <3> HIDE DEF k
    <3> QED
      BY <3>1, <3>3, <3>4, <3>5
  <2>3. CASE client' = Cleared(client)
    BY <2>3, BaseFacts, ClearedTyped
  <2>4. CASE client' = [client EXCEPT !.stopped = TRUE]
    <3>1. TRUE \in BOOLEAN /\ client \in Clients
      BY BaseFacts
    <3>2. client' \in Clients /\ Same(client', client, {})
      BY <2>4, <3>1, FieldTyped
    <3> QED
      BY <3>2, BaseFacts DEF Same
  <2>5. CASE client' = [client EXCEPT !.fresh = FALSE]
    <3>1. FALSE \in BOOLEAN /\ client \in Clients
      BY BaseFacts
    <3>2. client' \in Clients /\ Same(client', client, {"fresh"})
      BY <2>5, <3>1, FieldTyped
    <3> QED
      BY <3>2, BaseFacts DEF Same
  <2> QED
    BY <2>1, <2>2, <2>3, <2>4, <2>5
       DEF Resume, EndEpisode, EpisodeEnded, Disconnect, Expire
<1> QED
  BY <1>1, <1>3, <1>4, <1>5, <1>6, <1>7, BaseKept

LEMMA BaseStep ==
  ASSUME Base, Begun, [Next]_vars
  PROVE  Base'
<1>1. CASE UNCHANGED vars
  <2>1. Timed' /\ Linked' /\ Ways(pc') /\ Answers' /\ Rest'
    BY <1>1, BaseFacts DEF vars, Timed, Linked, Answers, Rest
  <2> QED
    BY <1>1, <2>1, BaseFacts, BaseKept DEF vars
<1>2. CASE Next
  BY <1>2, EmitBase, DecideCallBase, ServiceAnswersBase, ChatBase, GrantedBase, RefusedBase,
     OpensBase, FailsBase, ClosesBase, SilentBase, ServicePushesBase, ReceiveBase, TimersBase,
     ServiceResetsBase, GameBase
     DEF Next, Own, Settle
<1> QED
  BY <1>1, <1>2

-----------------------------------------------------------------------------
(* What a step does to what is under way *)

\* Nothing is sent and nothing arrives; answers and frames may be lost.
Calm ==
  /\ service'.made = service.made /\ service'.seq = service.seq
  /\ service'.epoch \in {service.epoch, service.epoch + 1}
  /\ \A p \in Calls : answer'[p] = {} \/ answer'[p] = answer[p]
  /\ \A i \in Sockets : Arriving(i)' = {}
       \/ (Arriving(i)' = Arriving(i) /\ socks'[i].inbox = socks[i].inbox)
  /\ applied' = applied
\* The client keeps its epoch, moves to a later one, or gets one of its own.
Onward ==
  client'.session # 0 =>
    \/ client.session # 0 /\ client'.epoch = client.epoch /\ client'.last = client.last
    \/ client.session # 0 /\ client'.epoch > client.epoch
    \/ client'.epoch > service.epoch
\* No socket that is being opened has frames.
Unread == \A i \in Sockets : socks'[i].state = "connecting" => socks'[i].inbox = <<>>

\* The socket of a call that connects is new.
LEMMA ConnectCalm ==
  ASSUME Base, Begun, NEW p \in Calls \cup {Reconnect}, NEW k \in Clients, Connect(p, k)
  PROVE  /\ client' = k /\ Unread
         /\ \A i \in Sockets : Arriving(i)' = {}
              \/ (Arriving(i)' = Arriving(i) /\ socks'[i].inbox = socks[i].inbox)
<1>1. /\ client' = k
      /\ \A i \in Sockets : socks'[i] = socks[i]
           \/ socks'[i] = [state |-> "connecting", session |-> k.session, inbox |-> <<>>]
  BY ConnectTyped DEF Base
<1> QED
  BY <1>1 DEF Unread, Arriving, Begun

LEMMA SameSockets ==
  ASSUME Begun, socks' = socks
  PROVE  /\ Unread
         /\ \A i \in Sockets : Arriving(i)' = Arriving(i) /\ socks'[i].inbox = socks[i].inbox
BY DEF Unread, Arriving, Begun

LEMMA CallKinds ==
  ASSUME Base, Begun, NEW p \in Calls, Emit(p) \/ DecideCall(p)
  PROVE  Calm /\ Onward /\ Unread
<1>1. answer' = answer /\ service' = service /\ applied' = applied
  BY DEF Emit, DecideCall
<1>2. client' = client
  BY DEF Emit, DecideCall, Decide, Connect
<1>3. socks' = socks \/ Connect(p, client)
  BY DEF Emit, DecideCall, link
<1>4. Unread /\ \A i \in Sockets : Arriving(i)' = {}
        \/ (Arriving(i)' = Arriving(i) /\ socks'[i].inbox = socks[i].inbox)
  BY <1>3, SameSockets, ConnectCalm, BaseFacts
<1> QED
  BY <1>1, <1>2, <1>4 DEF Calm, Onward

LEMMA OwnKinds ==
  ASSUME Base, Begun, NEW p \in Callers, Own(p)
  PROVE  Calm /\ Onward /\ Unread
<1>1. CASE SessionGranted(p)
  <2> DEFINE e == service.epoch + 1
             k == Granted(client, e)
  <2>1. /\ answer' = answer /\ applied' = applied /\ service.epoch < MaxEpochs
        /\ service' = [service EXCEPT !.epoch = e]
        /\ pc[p] \in {"ws_session", "http_session"}
        /\ Connect(p, k) \/ (client' = k /\ socks' = socks)
    BY <1>1 DEF SessionGranted, link
  <2>2. p \in Calls \cup {Reconnect} /\ e \in Epochs /\ e > service.epoch
    BY <2>1, BaseFacts, CallersFacts, Numbers DEF Epochs
  <2>3. k \in Clients /\ k.epoch = e
    BY <2>2, BaseFacts, GrantedTyped
  <2>4. /\ service'.epoch = e /\ service'.made = service.made /\ service'.seq = service.seq
    BY <2>1, <2>2, BaseFacts, NewEpoch
  <2> HIDE DEF k
  <2>5. client' = k /\ Unread /\ \A i \in Sockets : Arriving(i)' = {}
          \/ (Arriving(i)' = Arriving(i) /\ socks'[i].inbox = socks[i].inbox)
    BY <2>1, <2>2, <2>3, SameSockets, ConnectCalm
  <2>6. Calm
    BY <2>1, <2>4, <2>5 DEF Calm
  <2>7. Onward
    BY <2>2, <2>3, <2>5 DEF Onward
  <2> QED
    BY <2>5, <2>6, <2>7
<1>2. CASE SessionRefused(p)
  <2> DEFINE k == [client EXCEPT !.static = TRUE]
  <2>1. answer' = answer /\ applied' = applied /\ service' = service /\ socks' = socks
    BY <1>2 DEF SessionRefused, link
  <2>2. client' = k \/ client' = Scheduled(k, timers)
    BY <1>2 DEF SessionRefused, Decide
  <2>3. k \in Clients /\ Same(k, client, {})
    BY BaseFacts, FieldTyped
  <2> HIDE DEF k
  <2>4. client'.session = client.session /\ client'.epoch = client.epoch /\ client'.last = client.last
    BY <2>2, <2>3, BaseFacts, ScheduledTyped DEF Same
  <2> QED
    BY <2>1, <2>4, SameSockets DEF Calm, Onward
<1> QED
  BY <1>1, <1>2 DEF Own

LEMMA SocketKinds ==
  ASSUME Base, Begun, NEW i \in Sockets, Settle(i) \/ Closes(i) \/ GoesSilent(i)
  PROVE  Calm /\ Onward /\ Unread
<1>1. answer' = answer /\ applied' = applied /\ service' = service
  BY DEF Settle, Opens, Fails, Closes, GoesSilent
<1>2. client'.session = client.session /\ client'.epoch = client.epoch /\ client'.last = client.last
  <2>1. CASE client' = client
    BY <2>1
  <2>2. CASE client' = [client EXCEPT !.attempt = 0, !.opened = TRUE]
    BY <2>2, BaseFacts, OpenedTyped DEF Same
  <2>3. ASSUME NEW t, client' = Scheduled(client, t)
        PROVE  /\ client'.session = client.session /\ client'.epoch = client.epoch
               /\ client'.last = client.last
    BY <2>3, BaseFacts, ScheduledTyped
  <2> QED
    BY <2>1, <2>2, <2>3 DEF Settle, Opens, Fails, Closes, GoesSilent
<1>3. /\ \A j \in Sockets \ {i} : socks'[j] = socks[j]
      /\ \/ socks'[i] = Closed
         \/ socks[i].state = "connecting" /\ socks'[i].state = "open" /\ socks'[i].inbox = socks[i].inbox
         \/ socks'[i].state \in {"closing", "silent"}
  <2>1. CASE Opens(i)
    BY <2>1, BaseFacts, OneSocketTyped DEF Opens
  <2>2. CASE Fails(i)
    BY <2>2, BaseFacts, OneSocketTyped DEF Fails
  <2>3. CASE Closes(i)
    BY <2>3, BaseFacts DEF Closes, Linked
  <2>4. CASE GoesSilent(i)
    <3>1. socks \in [Sockets -> SocketStates] /\ socks[i] \in SocketStates
      BY BaseFacts DEF Linked
    <3>2. socks' = [socks EXCEPT ![i] = [[socks[i] EXCEPT !.state = "silent"] EXCEPT !.inbox = <<>>]]
      BY <2>4, <3>1 DEF GoesSilent
    <3>3. [[socks[i] EXCEPT !.state = "silent"] EXCEPT !.inbox = <<>>].state = "silent"
      BY <3>1 DEF SocketStates
    <3> QED
      BY <3>1, <3>2, <3>3
  <2> QED
    BY <2>1, <2>2, <2>3, <2>4 DEF Settle
<1>4. Unread
  BY <1>3, FreshSockets DEF Unread, Begun
<1>5. \A j \in Sockets : Arriving(j)' = {}
        \/ (Arriving(j)' = Arriving(j) /\ socks'[j].inbox = socks[j].inbox)
  <2>1. \A j \in Sockets \ {i} : Arriving(j)' = Arriving(j) /\ socks'[j].inbox = socks[j].inbox
    BY <1>3 DEF Arriving
  <2>2. Arriving(i)' = {}
    BY <1>3, FreshSockets DEF Arriving, Begun
  <2> QED
    BY <2>1, <2>2
<1> QED
  BY <1>1, <1>2, <1>4, <1>5 DEF Calm, Onward

LEMMA TimersKinds ==
  ASSUME Base, Begun, ReconnectFires \/ BeatFires \/ LivenessFires
  PROVE  Calm /\ Onward /\ Unread
<1>1. answer' = answer /\ applied' = applied /\ service' = service
  BY DEF ReconnectFires, BeatFires, LivenessFires
<1>2. client'.session = client.session /\ client'.epoch = client.epoch /\ client'.last = client.last
  <2>1. CASE client' = client
    BY <2>1
  <2>2. ASSUME NEW t, client' = Scheduled(client, t)
        PROVE  /\ client'.session = client.session /\ client'.epoch = client.epoch
               /\ client'.last = client.last
    BY <2>2, BaseFacts, ScheduledTyped
  <2> QED
    BY <2>1, <2>2 DEF ReconnectFires, BeatFires, LivenessFires, Connect
<1>3. socks' = socks \/ Connect(Reconnect, client) \/ socks' = Shut(socket)
  BY DEF ReconnectFires, BeatFires, LivenessFires, link
<1>4. CASE socks' = Shut(socket)
  <2>1. /\ \A j \in Sockets : socks'[j].inbox = socks[j].inbox /\ (j # socket => socks'[j] = socks[j])
        /\ socket # 0 => socks'[socket].state \in {"closed", "closing", "failing"}
    BY <1>4, BaseFacts, ShutTyped DEF Linked
  <2>2. Unread
    BY <2>1, Numbers DEF Unread, Begun
  <2>3. \A j \in Sockets : Arriving(j)' = {}
          \/ (Arriving(j)' = Arriving(j) /\ socks'[j].inbox = socks[j].inbox)
    BY <2>1, Numbers DEF Arriving
  <2> QED
    BY <1>1, <1>2, <2>2, <2>3 DEF Calm, Onward
<1>5. CASE socks' = socks \/ Connect(Reconnect, client)
  <2>1. Unread /\ \A i \in Sockets : Arriving(i)' = {}
          \/ (Arriving(i)' = Arriving(i) /\ socks'[i].inbox = socks[i].inbox)
    BY <1>5, SameSockets, ConnectCalm, BaseFacts
  <2> QED
    BY <1>1, <1>2, <2>1 DEF Calm, Onward
<1> QED
  BY <1>3, <1>4, <1>5

LEMMA GameKinds ==
  ASSUME Base, Begun,
         Resume \/ Resumed \/ EndEpisode \/ EpisodeEnded \/ Disconnect \/ Expire \/ ServiceResets
  PROVE  Calm /\ Onward /\ Unread
<1>1. /\ applied' = applied /\ service'.made = service.made /\ service'.seq = service.seq
      /\ service'.epoch \in {service.epoch, service.epoch + 1}
  <2>1. CASE service' = service /\ applied' = applied
    BY <2>1
  <2>2. CASE ServiceResets
    <3>1. service.epoch + 1 \in Epochs
      BY <2>2, Numbers, BaseFacts DEF ServiceResets, Epochs
    <3> QED
      BY <2>2, <3>1, BaseFacts, NewEpoch DEF ServiceResets
  <2> QED
    BY <2>1, <2>2 DEF Resume, Resumed, EndEpisode, EpisodeEnded, Disconnect, Expire
<1>2. \A p \in Calls : answer'[p] = {} \/ answer'[p] = answer[p]
  BY DEF Resume, Resumed, EndEpisode, EpisodeEnded, Disconnect, Expire, ServiceResets
<1>3. Onward
  <2>1. CASE client' = client
    BY <2>1 DEF Onward
  <2>2. CASE client' = Cleared(client)
    BY <2>2, BaseFacts, ClearedTyped DEF Onward
  <2>3. CASE client' = [client EXCEPT !.stopped = TRUE]
    <3>1. TRUE \in BOOLEAN /\ client \in Clients
      BY BaseFacts
    <3>2. client' \in Clients /\ Same(client', client, {})
      BY <2>3, <3>1, FieldTyped
    <3> QED
      BY <3>2 DEF Same, Onward
  <2>4. CASE client' = [client EXCEPT !.fresh = FALSE]
    <3>1. FALSE \in BOOLEAN /\ client \in Clients
      BY BaseFacts
    <3>2. client' \in Clients /\ Same(client', client, {"fresh"})
      BY <2>4, <3>1, FieldTyped
    <3> QED
      BY <3>2 DEF Same, Onward
  <2>5. CASE Resumed /\ client' # client
    <3> DEFINE k == IF service.epoch # client.epoch THEN [client EXCEPT !.last = [n \in Npcs |-> 0]]
                                                    ELSE client
    <3>1. k \in Clients /\ Same(k, client, {"last"}) /\ (service.epoch = client.epoch => k = client)
      <4>1. LET r == [client EXCEPT !.last = [n \in Npcs |-> 0]] IN
            r \in Clients /\ Same(r, client, {"last"})
        BY BaseFacts, FieldTyped, ForgetsTyped
      <4>2. client \in Clients /\ Same(client, client, {"last"})
        BY BaseFacts DEF Same
      <4> QED
        BY <4>1, <4>2
    <3>2. client' = IF k.session # 0 THEN [k EXCEPT !.epoch = service.epoch] ELSE k
      BY <2>5 DEF Resumed
    <3> HIDE DEF k
    <3>3. CASE k.session = 0
      BY <3>2, <3>3 DEF Onward
    <3>4. CASE k.session # 0
      <4>1. client' = [k EXCEPT !.epoch = service.epoch] /\ service.epoch \in 0 .. MaxEpochs
        BY <3>2, <3>4, BaseFacts
      <4>2. client'.epoch = service.epoch /\ Same(client', k, {"epoch"})
        BY <3>1, <4>1, FieldTyped
      <4> QED
        BY <3>1, <3>4, <4>2, BaseFacts DEF Same, Onward
    <3> QED
      BY <3>3, <3>4
  <2> QED
    BY <2>1, <2>2, <2>3, <2>4, <2>5
       DEF Resume, EndEpisode, EpisodeEnded, Disconnect, Expire, ServiceResets
<1>4. Unread /\ \A i \in Sockets : Arriving(i)' = {}
        \/ (Arriving(i)' = Arriving(i) /\ socks'[i].inbox = socks[i].inbox)
  <2>1. CASE socks' = socks
    BY <2>1, SameSockets
  <2>2. CASE socks' = Shut(socket)
    <3>1. /\ \A j \in Sockets : socks'[j].inbox = socks[j].inbox /\ (j # socket => socks'[j] = socks[j])
          /\ socket # 0 => socks'[socket].state \in {"closed", "closing", "failing"}
      BY <2>2, BaseFacts, ShutTyped DEF Linked
    <3>2. Unread
      BY <3>1, Numbers DEF Unread, Begun
    <3> QED
      BY <3>1, <3>2, Numbers DEF Arriving
  <2> QED
    BY <2>1, <2>2
       DEF Resume, Resumed, EndEpisode, EpisodeEnded, Disconnect, Expire, ServiceResets, link
<1> QED
  BY <1>1, <1>2, <1>3, <1>4 DEF Calm

LEMMA ChatKinds ==
  ASSUME Base, Begun, NEW p \in Calls, ChatFails(p) \/ JoinedEnds(p)
  PROVE  Calm /\ Onward /\ Unread
<1>1. /\ applied' = applied /\ service' = service /\ socks' = socks
      /\ \A q \in Calls : answer'[q] = {} \/ answer'[q] = answer[q]
      /\ client' \in {client, Adopted(client, service.epoch)}
  BY BaseFacts DEF ChatFails, JoinedEnds, link, Answers
<1>2. Onward
  <2>1. LET k == Adopted(client, service.epoch) IN
        /\ k.session = client.session
        /\ client.session # 0 => k.epoch = service.epoch
        /\ client.session = 0 \/ client.epoch = service.epoch => k = client
    BY BaseFacts, AdoptedTyped
  <2> QED
    BY <1>1, <2>1, BaseFacts DEF Onward
<1> QED
  BY <1>1, <1>2, SameSockets DEF Calm

LEMMA StutterKinds ==
  ASSUME Begun, UNCHANGED vars
  PROVE  Calm /\ Onward /\ Unread
BY SameSockets DEF vars, Calm, Onward

LEMMA StepKinds ==
  ASSUME Base, Begun, [Next]_vars
  PROVE  \/ Calm /\ Onward /\ Unread
         \/ \E p \in Calls : ServiceAnswers(p) \/ ChatAnswered(p)
         \/ \E i \in Sockets : ServicePushes(i) \/ Receive(i)
BY CallKinds, OwnKinds, SocketKinds, TimersKinds, GameKinds, ChatKinds, StutterKinds
   DEF Next, Chat

LEMMA AppendedFacts ==
  ASSUME NEW s \in Seq(Frames), NEW f \in Frames
  PROVE  /\ Len(s) \in Nat /\ Len(s) + 1 \in DOMAIN Append(s, f)
         /\ Append(s, f)[Len(s) + 1] = f
         /\ \A k \in DOMAIN s : k \in 1 .. Len(s) /\ k \in DOMAIN Append(s, f)
                                /\ Append(s, f)[k] = s[k]
         /\ \A k \in DOMAIN Append(s, f) : k = Len(s) + 1 \/ k \in DOMAIN s
OBVIOUS

LEMMA BegunStep ==
  ASSUME Base, Begun, [Next]_vars
  PROVE  Begun'
<1>1. /\ service.epoch \in Nat /\ socks \in [Sockets -> SocketStates]
      /\ \A i \in Sockets : socks[i].inbox \in Seq(Frames)
  BY BaseFacts, SocketFields DEF Linked
<1>2. CASE Calm /\ Unread
  <2>1. service'.epoch \in Nat /\ service'.epoch >= service.epoch
    BY <1>1, <1>2 DEF Calm
  <2>2. \A p \in Calls : \A d \in answer'[p] : d \in Decisions /\ d.epoch <= service'.epoch
    BY <1>1, <1>2, <2>1, BaseFacts, DecisionFields, Numbers DEF Begun, Calm, Answers, Epochs
  <2>3. \A i \in Sockets : \A k \in Arriving(i)' : socks'[i].inbox[k].epoch <= service'.epoch
    <3> TAKE i \in Sockets
    <3> TAKE k \in Arriving(i)'
    <3>1. k \in Arriving(i) /\ socks'[i].inbox = socks[i].inbox
      BY <1>2 DEF Calm
    <3>2. socks[i].inbox[k] \in Frames
      BY <1>1, <3>1 DEF Arriving
    <3>3. socks[i].inbox[k].epoch \in Nat
      BY <3>2, FrameFields, Numbers DEF Epochs
    <3> QED
      BY <1>1, <2>1, <3>1, <3>3 DEF Begun
  <2> QED
    BY <1>2, <2>2, <2>3 DEF Begun, Unread
<1>3. ASSUME NEW p \in Calls, ServiceAnswers(p) PROVE Begun'
  <2>1. /\ answer' = [answer EXCEPT ![p] = {Made(Npc[p])}] /\ service' = AfterMade(Npc[p])
        /\ socks' = socks /\ service.made < MaxDecisions /\ pc[p] = "http_chat"
    BY <1>3 DEF ServiceAnswers, link
  <2>2. Made(Npc[p]).epoch = service.epoch /\ service'.epoch = service.epoch
    BY <2>1, BaseFacts, MadeTyped, Numbers DEF Base, Sessions
  <2> QED
    BY <1>1, <2>1, <2>2, BaseFacts DEF Begun, Arriving, Answers
<1>4. ASSUME NEW p \in Calls, ChatAnswered(p) PROVE Begun'
  <2>1. answer' = [answer EXCEPT ![p] = {}] /\ service' = service /\ socks' = socks
    BY <1>4 DEF ChatAnswered, link
  <2> QED
    BY <2>1, BaseFacts DEF Begun, Arriving, Answers
<1>5. ASSUME NEW i \in Sockets, ServicePushes(i) PROVE Begun'
  <2>1. service.epoch # 0 /\ service.wire < MaxWire /\ socks[i].state = "open" /\ answer' = answer
    BY <1>5, PushKinds DEF ServicePushes
  <2>2. PICK f \in Frames : \E s \in Services : Sends(i, f, s) /\ s.wire = service.wire
    BY <1>5, PushKinds
  <2>3. PICK s \in Services : Sends(i, f, s) /\ s.wire = service.wire
    BY <2>2
  <2>4. Push(i, f, s) /\ f.epoch = service.epoch /\ s.wire < MaxWire
    BY <2>1, <2>3 DEF Sends
  <2>5. s.epoch = service.epoch
    <3>1. service \in Services /\ Sessions
      BY BaseFacts DEF Base
    <3>2. CASE s = [service EXCEPT !.seq[service.epoch] = [n \in Npcs |-> 0]]
      BY <2>1, <3>1, <3>2, AnewTyped
    <3>3. ASSUME NEW n \in Npcs, service.made < MaxDecisions, s = AfterMade(n)
          PROVE  s.epoch = service.epoch
      BY <2>1, <3>1, <3>3, MadeTyped
    <3> QED
      BY <2>3, <3>2, <3>3 DEF Sends
  <2>6. /\ service'.epoch = service.epoch /\ socks'[i].state = "open"
        /\ socks'[i].inbox = Append(socks[i].inbox, f)
        /\ \A j \in Sockets \ {i} : socks'[j] = socks[j]
    BY <2>1, <2>4, <2>5, PushTyped
  <2>7. \A k \in Arriving(i)' :
          \/ socks'[i].inbox[k] = f
          \/ k \in Arriving(i) /\ socks'[i].inbox[k] = socks[i].inbox[k]
    <3> DEFINE b == socks[i].inbox
    <3>1. b \in Seq(Frames) /\ f \in Frames
      BY <1>1
    <3>2. Arriving(i)' = DOMAIN Append(b, f) /\ Arriving(i) = DOMAIN b
      BY <2>1, <2>6 DEF Arriving
    <3>3. \A k \in DOMAIN Append(b, f) :
            Append(b, f)[k] = f \/ (k \in DOMAIN b /\ Append(b, f)[k] = b[k])
      BY <3>1, AppendedFacts
    <3> QED
      BY <2>6, <3>2, <3>3
  <2>8. \A k \in Arriving(i)' : socks'[i].inbox[k].epoch <= service'.epoch
    <3> TAKE k \in Arriving(i)'
    <3>1. CASE socks'[i].inbox[k] = f
      BY <1>1, <2>4, <2>6, <3>1
    <3>2. CASE k \in Arriving(i) /\ socks'[i].inbox[k] = socks[i].inbox[k]
      BY <2>6, <3>2 DEF Begun
    <3> QED
      BY <2>7, <3>1, <3>2
  <2>9. \A j \in Sockets \ {i} : \A k \in Arriving(j)' : socks'[j].inbox[k].epoch <= service'.epoch
    BY <2>6 DEF Begun, Arriving
  <2>10. \A j \in Sockets : socks'[j].state = "connecting" => socks'[j].inbox = <<>>
    BY <2>6 DEF Begun
  <2> QED
    BY <2>1, <2>6, <2>8, <2>9, <2>10 DEF Begun
<1>6. ASSUME NEW i \in Sockets, Receive(i) PROVE Begun'
  <2>1. /\ answer' = answer /\ service' = service /\ socks[i].inbox # <<>>
        /\ socks' = [socks EXCEPT ![i].inbox = Tail(@)] /\ socks[i].state = "open"
    BY <1>6 DEF Receive
  <2>2. /\ socks'[i].state = socks[i].state /\ socks'[i].inbox = Tail(socks[i].inbox)
        /\ \A j \in Sockets \ {i} : socks'[j] = socks[j]
    BY <2>1, BaseFacts, TakeTyped
  <2>3. \A k \in Arriving(i)' : k + 1 \in Arriving(i) /\ socks'[i].inbox[k] = socks[i].inbox[k + 1]
    BY <1>1, <2>1, <2>2 DEF Arriving
  <2> QED
    BY <2>1, <2>2, <2>3 DEF Begun, Arriving
<1> QED
  BY <1>2, <1>3, <1>4, <1>5, <1>6, StepKinds

LEMMA InitBase ==
  ASSUME Init
  PROVE  Base /\ Begun
<1>1. /\ socks = [i \in Sockets |-> Closed] /\ pc = [p \in Callers |-> "idle"]
      /\ on = [p \in Callers |-> 0] /\ answer = [p \in Calls |-> {}]
      /\ socket = 0 /\ ready = 0 /\ timers = {} /\ asked = {} /\ down = FALSE
      /\ losses = 0 /\ upsets = 0 /\ applied = [n \in Npcs |-> 0]
  BY DEF Init
<1>2. client \in Clients /\ client.session = 0 /\ client.epoch = 0
  BY Numbers DEF Init, Clients
<1>3. service \in Services /\ service.epoch = 0 /\ service.made = 0
      /\ \A e \in Epochs : \A n \in Npcs : service.seq[e][n] = 0
  BY Numbers DEF Init, Services
<1>4. Linked /\ Ways(pc) /\ Timed
  BY <1>1, FreshSockets, CallersFacts DEF Linked, Ways, Timed, Idle
<1>5. Answers /\ Rest
  <2>1. Answers
    BY <1>1 DEF Answers
  <2>2. applied \in [Npcs -> 0 .. MaxDecisions] /\ 0 \in 0 .. MaxLosses /\ 0 \in 0 .. MaxUpsets
    BY <1>1, Numbers
  <2> QED
    BY <1>1, <2>1, <2>2 DEF Rest
<1>6. Sessions
  BY <1>1, <1>2, <1>3, FreshSockets, CallersFacts DEF Sessions
<1>7. Begun
  BY <1>1, FreshSockets DEF Begun, Arriving
<1> QED
  BY <1>2, <1>3, <1>4, <1>5, <1>6, <1>7, TypeParts DEF Base

LEMMA AlwaysBase == Spec => [](Base /\ Begun)
<1>1. Init => Base /\ Begun
  BY InitBase
<1>2. Base /\ Begun /\ [Next]_vars => (Base /\ Begun)'
  BY BaseStep, BegunStep
<1> QED
  BY <1>1, <1>2, PTL DEF Spec

\* Whatever the game, the network and the service do, and in whatever order, the
\* client's session, its sockets and what each call waits for stay of their types.
THEOREM TypeCorrect == Spec => []TypeOK
<1>1. Base /\ Begun => TypeOK
  BY DEF Base
<1> QED
  BY <1>1, AlwaysBase, PTL

-----------------------------------------------------------------------------
(* One connection *)

\* A step that leaves the sockets and the promise alone, and no new call when the
\* game has disconnected.
LEMMA ConnectedKept ==
  ASSUME Connected, Quiet, link' = link, "liveness" \in timers' => "liveness" \in timers \/ Live(socket),
         down' => down /\ timers' = timers /\ \A p \in Callers : pc'[p] = pc[p] \/ pc'[p] \in Idle
  PROVE  Connected' /\ Quiet'
BY DEF Connected, Quiet, Live, link

LEMMA ConnectConnected ==
  ASSUME Base, Connected, NEW p \in Calls \cup {Reconnect}, NEW k \in Clients, Connect(p, k),
         timers' \subseteq timers
  PROVE  Connected'
<1>1. "liveness" \in timers' => Live(socket)
  BY DEF Connected
<1>2. CASE link' = link
  BY <1>1, <1>2 DEF Connected, Live, link
<1>3. ASSUME ~Live(socket), ready = 0, NEW i \in Sockets, socks[i].state = "closed",
             socks' = [socks EXCEPT ![i] = [state |-> "connecting", session |-> k.session,
                                            inbox |-> <<>>]],
             socket' = i, ready' = i
      PROVE  Connected'
  <2>1. /\ socks'[i].state = "connecting" /\ \A j \in Sockets \ {i} : socks'[j] = socks[j]
    BY <1>3, BaseFacts DEF Linked
  <2>2. \A j \in Sockets : socks[j].state \notin {"connecting", "open", "silent", "failing"}
    BY <1>3, Numbers DEF Connected, Live
  <2> QED
    BY <1>1, <1>3, <2>1, <2>2 DEF Connected
<1> QED
  BY <1>2, <1>3 DEF Connect, link

LEMMA CallConnected ==
  ASSUME Base, Connected, Quiet, NEW p \in Calls, Emit(p) \/ DecideCall(p)
  PROVE  Connected' /\ Quiet'
<1>1. down' = FALSE /\ timers' = timers
  BY DEF Emit, DecideCall
<1>2. CASE link' = link
  BY <1>1, <1>2, ConnectedKept
<1>3. CASE Connect(p, client)
  BY <1>1, <1>3, ConnectConnected, BaseFacts DEF Quiet
<1> QED
  BY <1>2, <1>3 DEF Emit, DecideCall, link

LEMMA OwnConnected ==
  ASSUME Base, Connected, Quiet, NEW p \in Callers, Own(p)
  PROVE  Connected' /\ Quiet'
<1>1. pc[p] \in {"ws_session", "http_session"} /\ down' = down
  BY DEF Own, SessionGranted, SessionRefused
<1>2. ~down /\ ~down'
  BY <1>1 DEF Quiet, Idle
<1>3. timers' = timers \/ timers' = Retry(timers)
  BY DEF Own, SessionGranted, SessionRefused
<1>4. "liveness" \in timers' => "liveness" \in timers
  BY <1>3, RetryTyped, BaseFacts DEF Timed
<1>5. CASE link' = link
  BY <1>2, <1>4, <1>5, ConnectedKept
<1>6. CASE SessionGranted(p) /\ pc[p] = "ws_session"
  <2> DEFINE k == Granted(client, service.epoch + 1)
  <2>1. Connect(p, k) /\ timers' = timers /\ p \in Calls \cup {Reconnect}
        /\ service.epoch + 1 \in Epochs
    BY <1>6, BaseFacts, CallersFacts, Numbers DEF SessionGranted, Epochs
  <2>2. k \in Clients
    BY <2>1, BaseFacts, GrantedTyped
  <2> HIDE DEF k
  <2> QED
    BY <1>2, <2>1, <2>2, ConnectConnected DEF Quiet
<1> QED
  BY <1>1, <1>5, <1>6 DEF Own, SessionGranted, SessionRefused, link

\* Every socket that is being opened, or open, is the client's.
LEMMA SocketConnected ==
  ASSUME Base, Connected, Quiet, NEW i \in Sockets, Settle(i) \/ Closes(i) \/ GoesSilent(i)
  PROVE  Connected' /\ Quiet'
<1>1. CASE Opens(i)
  <2>1. /\ socks[i].state = "connecting" /\ socket' = socket /\ ready' = 0 /\ down' = down
        /\ timers' = timers \cup {"heartbeat"}
        /\ socks'[i].state = "open" /\ \A j \in Sockets \ {i} : socks'[j] = socks[j]
    BY <1>1, BaseFacts, OneSocketTyped DEF Opens
  <2>2. socket = i /\ ready = i /\ i # 0
    BY <2>1, Numbers DEF Connected
  <2>3. Connected'
    BY <2>1, <2>2 DEF Connected, Live
  <2> QED
    BY <2>1, <2>2, <2>3 DEF Quiet
<1>2. CASE Fails(i)
  <2>1. /\ socks[i].state \in {"failing", "connecting"} /\ socket' = socket /\ ready' = 0
        /\ down' = down
        /\ \/ timers' = timers \/ timers' = Retry(timers)
        /\ socks'[i].state = "closing" /\ \A j \in Sockets \ {i} : socks'[j] = socks[j]
    BY <1>2, BaseFacts, OneSocketTyped DEF Fails
  <2>2. socket = i /\ ready = i /\ i # 0 /\ ~Live(socket)
    BY <2>1, Numbers DEF Connected, Live
  <2>3. "liveness" \notin timers'
    BY <2>1, <2>2, RetryTyped, BaseFacts DEF Connected, Timed
  <2>4. Connected'
    BY <2>1, <2>2, <2>3 DEF Connected
  <2> QED
    BY <2>1, <2>2, <2>4 DEF Quiet
<1>3. CASE Closes(i)
  <2>1. /\ socks[i].state \in {"closing", "open", "silent"} /\ down' = down /\ pc' = pc
        /\ socks'[i].state = "closed" /\ \A j \in Sockets \ {i} : socks'[j] = socks[j]
    BY <1>3, BaseFacts, FreshSockets DEF Closes, Linked
  <2>2. CASE socket = i
    <3> DEFINE t == timers \ {"heartbeat", "liveness"}
    <3>1. socket' = 0 /\ ready' = 0 /\ (timers' = t \/ timers' = Retry(t))
      BY <1>3, <2>2 DEF Closes
    <3>2. "liveness" \notin timers'
      BY <3>1, RetryTyped, BaseFacts DEF Timed
    <3>3. \A j \in Sockets \ {i} : socks[j].state \notin {"connecting", "open", "silent", "failing"}
      BY <2>2 DEF Connected
    <3>4. Connected'
      BY <2>1, <3>1, <3>2, <3>3 DEF Connected
    <3> QED
      BY <2>1, <2>2, <3>4, Numbers DEF Quiet
  <2>3. CASE socket # i
    <3>1. /\ socks[i].state = "closing" /\ socket' = socket /\ ready' = ready /\ timers' = timers
      BY <1>3, <2>1, <2>3 DEF Closes, Connected
    <3> QED
      <4>1. /\ ready # 0 => ready \in Sockets /\ socks'[ready] = socks[ready]
            /\ Live(socket) => socks'[socket] = socks[socket]
        BY <2>1, <2>3, <3>1, BaseFacts DEF Connected, Live, Linked
      <4>2. "liveness" \in timers' => Live(socket)'
        BY <3>1, <4>1 DEF Connected, Live
      <4>3. Connected'
        BY <2>1, <3>1, <4>1, <4>2 DEF Connected
      <4> QED
        BY <2>1, <3>1, <4>3 DEF Quiet
  <2> QED
    BY <2>2, <2>3
<1>4. CASE GoesSilent(i)
  <2>1. /\ socks[i].state = "open" /\ socket' = socket /\ ready' = ready /\ down' = down
        /\ pc' = pc /\ timers' = timers
    BY <1>4 DEF GoesSilent
  <2>2. socks'[i].state = "silent" /\ \A j \in Sockets \ {i} : socks'[j] = socks[j]
    <3>1. socks \in [Sockets -> SocketStates] /\ socks[i] \in SocketStates
      BY BaseFacts DEF Linked
    <3>2. socks' = [socks EXCEPT ![i] = [[socks[i] EXCEPT !.state = "silent"] EXCEPT !.inbox = <<>>]]
      BY <1>4, <3>1 DEF GoesSilent
    <3>3. [[socks[i] EXCEPT !.state = "silent"] EXCEPT !.inbox = <<>>].state = "silent"
      BY <3>1 DEF SocketStates
    <3> QED
      BY <3>1, <3>2, <3>3
  <2>3. socket = i /\ i # 0
    BY <2>1, Numbers DEF Connected
  <2> QED
    <3>1. ready # 0 => ready \in Sockets /\ socks'[ready] = socks[ready]
      BY <2>1, <2>2, BaseFacts DEF Connected, Linked
    <3>2. Live(socket)'
      BY <2>1, <2>2, <2>3 DEF Live
    <3>3. Connected'
      BY <2>1, <2>2, <2>3, <3>1, <3>2 DEF Connected
    <3> QED
      BY <2>1, <3>3 DEF Quiet
<1> QED
  BY <1>1, <1>2, <1>3, <1>4 DEF Settle

LEMMA TimersConnected ==
  ASSUME Base, Connected, Quiet, ReconnectFires \/ BeatFires \/ LivenessFires
  PROVE  Connected' /\ Quiet'
<1>1. ~down /\ down' = down
  BY DEF Quiet, ReconnectFires, BeatFires, LivenessFires
<1>2. CASE ReconnectFires /\ link' = link
  <2> DEFINE t == timers \ {"reconnect"}
  <2>1. timers' = t \/ timers' = Retry(t)
    BY <1>2 DEF ReconnectFires
  <2>2. "liveness" \in timers' => "liveness" \in timers
    BY <2>1, RetryTyped, BaseFacts DEF Timed
  <2> QED
    BY <1>1, <1>2, <2>2, ConnectedKept
<1>3. CASE ReconnectFires /\ Connect(Reconnect, client) /\ timers' = timers \ {"reconnect"}
  BY <1>1, <1>3, ConnectConnected, BaseFacts DEF Quiet
<1>4. CASE BeatFires
  <2>1. link' = link /\ ("liveness" \in timers' => "liveness" \in timers \/ Live(socket))
    BY <1>4 DEF BeatFires
  <2> QED
    BY <1>1, <2>1, ConnectedKept
<1>5. CASE LivenessFires
  <2>1. /\ timers' = timers \ {"liveness"} /\ socks' = Shut(socket) /\ socket' = socket
        /\ ready' = ready /\ Live(socket) /\ socket # 0
    BY <1>5 DEF LivenessFires, Connected, Live
  <2>2. /\ socks'[socket].state \in {"closed", "closing"}
        /\ \A j \in Sockets \ {socket} : socks'[j] = socks[j]
    BY <2>1, BaseFacts, ShutTyped DEF Linked, Live
  <2>3. ready # socket /\ (ready # 0 => ready \in Sockets)
    BY <2>1, BaseFacts DEF Connected, Live, Linked
  <2>4. Connected'
    BY <2>1, <2>2, <2>3 DEF Connected
  <2> QED
    BY <1>1, <2>4 DEF Quiet
<1> QED
  BY <1>2, <1>3, <1>4, <1>5 DEF ReconnectFires, link

LEMMA TrafficConnected ==
  ASSUME Base, Connected, Quiet, NEW i \in Sockets, ServicePushes(i) \/ Receive(i)
  PROVE  Connected' /\ Quiet'
<1>1. /\ socket' = socket /\ ready' = ready /\ pc' = pc /\ down' = down /\ timers' \subseteq timers
  BY ReceiveKinds DEF ServicePushes, Receive
<1>2. \A j \in Sockets : socks'[j].state = socks[j].state
  <2>1. CASE ServicePushes(i)
    <3>1. PICK f \in Frames : \E s \in Services : Sends(i, f, s) /\ s.wire = service.wire
      BY <2>1, PushKinds
    <3>2. PICK s \in Services : Sends(i, f, s) /\ s.wire = service.wire
      BY <3>1
    <3>3. Push(i, f, s) /\ s.wire < MaxWire
      BY <2>1, <3>2, PushKinds DEF Sends
    <3> QED
      BY <3>3, PushTyped
  <2>2. CASE Receive(i)
    BY <2>2, BaseFacts, TakeTyped DEF Receive
  <2> QED
    BY <2>1, <2>2
<1>3. "liveness" \in timers' => Live(socket)'
  BY <1>1, <1>2, BaseFacts DEF Connected, Live, Linked
<1>4. Connected'
  BY <1>1, <1>2, <1>3, BaseFacts DEF Connected, Linked
<1>5. Quiet'
  BY <1>1 DEF Quiet
<1> QED
  BY <1>4, <1>5

LEMMA OtherConnected ==
  ASSUME Base, Connected, Quiet,
         \/ \E p \in Calls : ServiceAnswers(p) \/ Chat(p)
         \/ ServiceResets \/ Resume \/ Resumed \/ EndEpisode \/ EpisodeEnded \/ Expire
         \/ UNCHANGED vars
  PROVE  Connected' /\ Quiet'
<1>1. link' = link /\ timers' = timers
  BY DEF ServiceAnswers, Chat, ChatAnswered, ChatFails, JoinedEnds, ServiceResets, Resume, Resumed,
         EndEpisode, EpisodeEnded, Expire, vars, link
<1>2. down' => down
  BY DEF ServiceAnswers, Chat, ChatAnswered, ChatFails, JoinedEnds, ServiceResets, Resume, Resumed,
         EndEpisode, EpisodeEnded, Expire, vars
<1>3. down' => \A p \in Callers : pc'[p] = pc[p] \/ pc'[p] \in Idle
  <2>1. \A p \in Callers : Goto(p, "done") => \A q \in Callers : pc'[q] = pc[q] \/ pc'[q] \in Idle
    BY BaseFacts DEF Goto, Ways, Idle
  <2>2. Resume \/ EndEpisode => ~down'
    BY DEF Resume, EndEpisode
  <2>3. pc' = pc \/ (\E p \in Callers : Goto(p, "done")) \/ Resume \/ EndEpisode
    BY CallersFacts
       DEF ServiceAnswers, Chat, ChatAnswered, ChatFails, JoinedEnds, ServiceResets, Resumed,
           EpisodeEnded, Expire, vars
  <2> QED
    BY <2>1, <2>2, <2>3
<1> QED
  BY <1>1, <1>2, <1>3, ConnectedKept

\* The game disconnects only between its calls: no socket is being opened.
LEMMA DisconnectConnected ==
  ASSUME QuietStop, Base, Connected, Disconnect
  PROVE  Connected' /\ Quiet'
<1>1. /\ ready = 0 /\ \A p \in Callers : pc[p] \in Idle
      /\ timers' = {} /\ socks' = Shut(socket) /\ socket' = 0 /\ ready' = 0
      /\ pc' = [p \in Callers |-> IF pc[p] = "http_chat" THEN "done" ELSE pc[p]]
  BY DEF Disconnect
<1>2. \A j \in Sockets : socks'[j].state \notin {"connecting", "open", "silent", "failing"}
  <2>1. CASE socket = 0
    BY <1>1, <2>1, BaseFacts, ShutTyped, Numbers DEF Connected, Linked
  <2>2. CASE socket # 0
    <3>1. socks[socket].state # "connecting" /\ socks[socket].state # "failing"
      BY <1>1, <2>2, BaseFacts DEF Connected, Linked
    <3>2. socks'[socket].state \in {"closed", "closing"} /\ \A j \in Sockets \ {socket} : socks'[j] = socks[j]
      BY <1>1, <2>2, <3>1, BaseFacts, ShutTyped DEF Linked
    <3>3. \A j \in Sockets \ {socket} : socks[j].state \notin {"connecting", "open", "silent", "failing"}
      BY <1>1 DEF Connected
    <3> QED
      BY <3>2, <3>3
  <2> QED
    BY <2>1, <2>2
<1>3. Connected'
  BY <1>1, <1>2 DEF Connected
<1>4. Quiet'
  BY <1>1 DEF Quiet, Idle
<1> QED
  BY <1>3, <1>4

LEMMA ConnectedStep ==
  ASSUME QuietStop, Base, Connected, Quiet, [Next]_vars
  PROVE  Connected' /\ Quiet'
BY CallConnected, OwnConnected, SocketConnected, TimersConnected, TrafficConnected, OtherConnected,
   DisconnectConnected
   DEF Next

LEMMA AlwaysConnected == ASSUME QuietStop PROVE Spec => [](Connected /\ Quiet)
<1>1. Init => Connected /\ Quiet
  BY FreshSockets DEF Init, Connected, Quiet
<1>2. Base /\ Connected /\ Quiet /\ [Next]_vars => (Connected /\ Quiet)'
  BY ConnectedStep
<1> QED
  BY <1>1, <1>2, AlwaysBase, PTL DEF Spec

\* A client whose game disconnects only between its calls has one connection while it
\* is in use, though calls, timers, losses and late close events overlap, and after a
\* disconnect none comes back but by a call of the game.
THEOREM ConnectionIsOne == ASSUME QuietStop PROVE Spec => []OneConnection
<1>1. Connected /\ Quiet => OneConnection
  BY Numbers DEF Connected, Quiet, OneConnection, OneSocket, StaysDown
<1> QED
  BY <1>1, AlwaysConnected, PTL

-----------------------------------------------------------------------------
(* Decisions in order *)

LEMMA ComingTyped ==
  ASSUME Base, NEW i \in Sockets
  PROVE  /\ socks[i].inbox \in Seq(Frames) /\ Arriving(i) \subseteq Nat
         /\ \A k : IsDecision(i, k) \/ IsReset(i, k) =>
              k \in Nat /\ k \in DOMAIN socks[i].inbox /\ socks[i].inbox[k] \in Frames
         /\ \A k : IsDecision(i, k) => Coming(i, k) \in Decisions
<1>1. socks[i].inbox \in Seq(Frames)
  BY BaseFacts, SocketFields DEF Linked
<1>2. \A k \in Arriving(i) : k \in Nat /\ k \in DOMAIN socks[i].inbox /\ socks[i].inbox[k] \in Frames
  BY <1>1 DEF Arriving
<1> QED
  BY <1>1, <1>2, FrameFields DEF IsDecision, IsReset, Coming

\* The numbers of the service, and what they bound.
LEMMA ServiceNumbers ==
  ASSUME Base
  PROVE  /\ service.epoch \in Nat /\ service.made \in Nat
         /\ \A n \in Npcs : applied[n] \in Nat /\ client.last[n] \in Nat
         /\ \A n \in Npcs : service.epoch # 0 => service.seq[service.epoch][n] \in Nat
         /\ \A d \in Decisions : d.n \in Nat /\ d.epoch \in Nat /\ d.seq \in Nat /\ d.npc \in Npcs
                                   /\ d.epoch # 0 /\ d.seq > 0
         /\ client.epoch \in Nat /\ \A p \in Calls : answer[p] \subseteq Decisions
<1>1. service.epoch \in Nat /\ service.made \in Nat
  BY BaseFacts, ServiceFields, Numbers
<1>2. \A n \in Npcs : applied[n] \in Nat /\ client.last[n] \in Nat
  BY BaseFacts, ClientFields, Numbers DEF Rest
<1>3. \A n \in Npcs : service.epoch # 0 => service.seq[service.epoch][n] \in Nat
  BY BaseFacts, ServiceFields, Numbers DEF Epochs
<1>4. \A d \in Decisions : d.n \in Nat /\ d.epoch \in Nat /\ d.seq \in Nat /\ d.npc \in Npcs
                            /\ d.epoch # 0 /\ d.seq > 0
  BY DecisionFields, Numbers DEF Epochs
<1>5. client.epoch \in Nat /\ \A p \in Calls : answer[p] \subseteq Decisions
  BY BaseFacts, ClientFields, Numbers DEF Answers
<1> QED
  BY <1>1, <1>2, <1>3, <1>4, <1>5

\* Frames that nothing happened to.
Untouched(i) ==
  /\ \A k : IsDecision(i, k)' <=> IsDecision(i, k)
  /\ \A k : IsReset(i, k)' <=> IsReset(i, k)
  /\ \A k : Coming(i, k)' = Coming(i, k)
  /\ socks'[i].inbox = socks[i].inbox

LEMMA SameUntouched ==
  ASSUME NEW i \in Sockets, Arriving(i)' = Arriving(i), socks'[i].inbox = socks[i].inbox
  PROVE  Untouched(i)
BY DEF Untouched, IsDecision, IsReset, Coming

LEMMA NothingArrives ==
  ASSUME NEW i \in Sockets, Arriving(i)' = {}
  PROVE  \A k : ~IsDecision(i, k)' /\ ~IsReset(i, k)'
BY DEF IsDecision, IsReset

\* Frames keep what Sent and Resets say of them where the service counts on, the calls
\* lose answers and the game gets nothing.
LEMMA FramesKept ==
  ASSUME Base, NEW i \in Sockets, Sent(i), Resets(i), Untouched(i) \/ Arriving(i)' = {},
         \A d \in Decisions : WasMade(d) => WasMade(d)',
         \A d \in Decisions : WasMade(d) /\ Counted(d) => Counted(d)',
         \A p \in Calls : answer'[p] \subseteq answer[p],
         applied' = applied
  PROVE  Sent(i)' /\ Resets(i)'
<1>1. CASE Arriving(i)' = {}
  BY <1>1, NothingArrives DEF Sent, Resets
<1>2. CASE Untouched(i)
  <2>1. ASSUME NEW k \in Nat, IsDecision(i, k)' PROVE InPlace(i, k)'
    <3>1. /\ IsDecision(i, k) /\ InPlace(i, k) /\ Coming(i, k)' = Coming(i, k)
          /\ Coming(i, k) \in Decisions /\ socks'[i].inbox = socks[i].inbox
      BY <1>2, <2>1, ComingTyped DEF Untouched, Sent
    <3>2. WasMade(Coming(i, k))' /\ (Coming(i, k).epoch = socks[i].inbox[k].epoch)'
      BY <3>1 DEF InPlace, WasMade
    <3>3. Counted(Coming(i, k))' \/ \E m \in Nat : m > k /\ IsReset(i, m)'
      BY <1>2, <3>1 DEF InPlace, Untouched, Counted
    <3>4. \A m \in Nat : m > k /\ IsDecision(i, m)' =>
            (Coming(i, k).n < Coming(i, m).n /\ Coming(i, k).epoch <= Coming(i, m).epoch)'
      BY <1>2, <3>1 DEF InPlace, Untouched
    <3>5. \A p \in Calls : \A c \in answer'[p] :
            Ordered(Coming(i, k), c)' /\ Ordered(c, Coming(i, k))'
      BY <3>1 DEF InPlace, Ordered
    <3> QED
      BY <3>2, <3>3, <3>4, <3>5 DEF InPlace
  <2>2. ASSUME NEW k \in Nat, IsReset(i, k)'
        PROVE  /\ \A p \in Calls : answer'[p] = {}
               /\ \A m \in Nat : m > k /\ IsDecision(i, m)' =>
                    (Coming(i, m).n > applied[Coming(i, m).npc])'
    BY <1>2, <2>2 DEF Untouched, Resets
  <2> QED
    BY <2>1, <2>2 DEF Sent, Resets
<1> QED
  BY <1>1, <1>2

LEMMA CalmFlight ==
  ASSUME Base, Flight, Calm
  PROVE  Flight'
<1>1. /\ service.epoch \in Nat /\ service'.made = service.made /\ service'.seq = service.seq
      /\ service'.epoch \in {service.epoch, service.epoch + 1} /\ applied' = applied
      /\ \A p \in Calls : answer'[p] \subseteq answer[p]
  BY ServiceNumbers DEF Calm
<1>2. \A d \in Decisions : WasMade(d) => WasMade(d)'
  BY <1>1, ServiceNumbers DEF WasMade
<1>3. \A d \in Decisions : WasMade(d) /\ Counted(d) => Counted(d)'
  BY <1>1, ServiceNumbers DEF WasMade, Counted
<1>4. Answered'
  <2>1. \A p \in Calls : \A d \in answer'[p] : d \in Decisions /\ WasMade(d)' /\ Counted(d)'
    BY <1>1, <1>2, <1>3, ServiceNumbers DEF Flight, Answered
  <2>2. \A p, q \in Calls : \A d \in answer'[p] : \A c \in answer'[q] : Ordered(d, c)'
    BY <1>1 DEF Flight, Answered, Ordered
  <2> QED
    BY <2>1, <2>2 DEF Answered
<1>5. ASSUME NEW i \in Sockets PROVE Sent(i)' /\ Resets(i)'
  <2>1. Untouched(i) \/ Arriving(i)' = {}
    BY SameUntouched DEF Calm
  <2> QED
    BY <1>1, <1>2, <1>3, <2>1, FramesKept DEF Flight
<1> QED
  BY <1>1, <1>4, <1>5 DEF Flight

\* A decision is made: its number is the highest, and in its epoch so is its count.
LEMMA NewDecision ==
  ASSUME Base, service.epoch # 0, service.made < MaxDecisions, NEW n \in Npcs,
         service'.epoch = service.epoch, service'.made = service.made + 1,
         service'.seq = AfterMade(n).seq, NEW x, x = Made(n)
  PROVE  /\ x \in Decisions /\ WasMade(x)' /\ Counted(x)'
         /\ \A m \in Npcs : applied[m] <= service.made => applied[m] < x.n
         /\ \A d \in Decisions : WasMade(d) =>
              WasMade(d)' /\ d.n < x.n /\ d.epoch <= x.epoch /\ Ordered(d, x)
         /\ \A d \in Decisions : WasMade(d) /\ Counted(d) =>
              Counted(d)' /\ Ordered(x, d)
<1> DEFINE e == service.epoch
<1>1. /\ x \in Decisions /\ x.n = service.made + 1 /\ x.npc = n /\ x.epoch = e
      /\ x.seq = service.seq[e][n] + 1
      /\ AfterMade(n).seq = [service.seq EXCEPT ![e] = [service.seq[e] EXCEPT ![n] = service.seq[e][n] + 1]]
  BY BaseFacts, MadeTyped DEF Base
<1>2. e \in Epochs /\ service.seq \in [Epochs -> [Npcs -> 0 .. MaxDecisions]]
  BY BaseFacts, ServiceFields, Numbers DEF Epochs
<1>3. \A m \in Npcs : service'.seq[e][m] = IF m = n THEN service.seq[e][n] + 1 ELSE service.seq[e][m]
  BY <1>1, <1>2
<1>4. \A m \in Npcs : service.seq[e][m] \in Nat /\ service'.seq[e][m] >= service.seq[e][m]
  BY <1>2, <1>3
<1>5. WasMade(x)' /\ Counted(x)'
  BY <1>1, <1>3, <1>4, ServiceNumbers DEF WasMade, Counted
<1>6. \A m \in Npcs : applied[m] <= service.made => applied[m] < x.n
  BY <1>1, ServiceNumbers
<1>7. \A d \in Decisions : WasMade(d) =>
        WasMade(d)' /\ d.n < x.n /\ d.epoch <= x.epoch /\ Ordered(d, x)
  BY <1>1, ServiceNumbers DEF WasMade, Ordered
<1>8. \A d \in Decisions : WasMade(d) /\ Counted(d) => Counted(d)' /\ Ordered(x, d)
  <2> TAKE d \in Decisions
  <2> HAVE WasMade(d) /\ Counted(d)
  <2>1. Counted(d)'
    BY <1>3, <1>4, ServiceNumbers DEF Counted
  <2>2. ~(x.epoch < d.epoch)
    BY <1>1, ServiceNumbers DEF WasMade
  <2>3. ~(x.epoch = d.epoch /\ x.npc = d.npc /\ x.seq < d.seq)
    BY <1>1, <1>4, ServiceNumbers DEF Counted
  <2> QED
    BY <2>1, <2>2, <2>3 DEF Ordered
<1> QED
  BY <1>1, <1>5, <1>6, <1>7, <1>8

\* The service answers a call: where answers do not overtake, no reset is under way, so
\* that every frame that is counts in the epoch.
LEMMA AnswersFlight ==
  ASSUME ~Overtaking, Base, Flight, NEW p \in Calls, ServiceAnswers(p)
  PROVE  Flight'
<1> PICK x : x = Made(Npc[p])
  OBVIOUS
<1>1. /\ service' = AfterMade(Npc[p]) /\ service.made < MaxDecisions /\ pc[p] = "http_chat"
      /\ answer' = [answer EXCEPT ![p] = {x}] /\ socks' = socks /\ applied' = applied
      /\ ~ResetUnderway
  BY DEF ServiceAnswers, link
<1>2. service.epoch # 0 /\ Npc[p] \in Npcs
  BY <1>1, Numbers DEF Base, Sessions
<1>3. service'.epoch = service.epoch /\ service'.made = service.made + 1
  BY <1>1, <1>2, BaseFacts, MadeTyped DEF Base
<1>4. /\ x \in Decisions /\ WasMade(x)' /\ Counted(x)'
      /\ \A m \in Npcs : applied[m] <= service.made => applied[m] < x.n
      /\ \A d \in Decisions : WasMade(d) =>
           WasMade(d)' /\ d.n < x.n /\ d.epoch <= x.epoch /\ Ordered(d, x)
      /\ \A d \in Decisions : WasMade(d) /\ Counted(d) => Counted(d)' /\ Ordered(x, d)
  BY <1>1, <1>2, <1>3, NewDecision
<1>5. /\ answer'[p] = {x} /\ \A q \in Calls \ {p} : answer'[q] = answer[q]
      /\ \A q \in Calls : \A d \in answer[q] : d \in Decisions /\ WasMade(d) /\ Counted(d)
      /\ \A q \in Calls : \A d \in answer'[q] : d = x \/ \E r \in Calls : d \in answer[r]
  BY <1>1, BaseFacts, ServiceNumbers DEF Flight, Answered, Answers
<1>6. Answered'
  <2>1. \A q \in Calls : \A d \in answer'[q] : WasMade(d)' /\ Counted(d)'
    BY <1>4, <1>5
  <2>2. Ordered(x, x)
    BY <1>4, ServiceNumbers DEF Ordered
  <2>3. \A q, r \in Calls : \A d \in answer'[q] : \A c \in answer'[r] : Ordered(d, c)
    BY <1>4, <1>5, <2>2 DEF Flight, Answered
  <2> QED
    BY <2>1, <2>3 DEF Answered, Ordered
<1>7. ASSUME NEW i \in Sockets PROVE Sent(i)' /\ Resets(i)'
  <2>1. Untouched(i) /\ \A k : ~IsReset(i, k)
    BY <1>1 DEF Untouched, IsDecision, IsReset, Coming, Arriving, ResetUnderway
  <2>2. ASSUME NEW k \in Nat, IsDecision(i, k)' PROVE InPlace(i, k)'
    <3>1. /\ IsDecision(i, k) /\ InPlace(i, k) /\ Coming(i, k)' = Coming(i, k)
          /\ Coming(i, k) \in Decisions /\ WasMade(Coming(i, k)) /\ Counted(Coming(i, k))
      BY <2>1, <2>2, ComingTyped DEF Untouched, Flight, Sent, InPlace
    <3>2. WasMade(Coming(i, k))' /\ (Coming(i, k).epoch = socks[i].inbox[k].epoch)'
      BY <1>1, <1>4, <3>1 DEF InPlace, WasMade
    <3>3. Counted(Coming(i, k))'
      BY <1>4, <3>1 DEF Counted
    <3>4. \A m \in Nat : m > k /\ IsDecision(i, m)' =>
            (Coming(i, k).n < Coming(i, m).n /\ Coming(i, k).epoch <= Coming(i, m).epoch)'
      BY <2>1, <3>1 DEF InPlace, Untouched
    <3>5. \A q \in Calls : \A c \in answer'[q] :
            Ordered(Coming(i, k), c)' /\ Ordered(c, Coming(i, k))'
      BY <1>4, <1>5, <3>1 DEF InPlace, Ordered
    <3> QED
      BY <3>2, <3>3, <3>4, <3>5 DEF InPlace
  <2> QED
    BY <2>1, <2>2 DEF Sent, Resets, Untouched
<1>8. \A n \in Npcs : applied'[n] <= service'.made
  BY <1>1, <1>3, ServiceNumbers DEF Flight
<1> QED
  BY <1>6, <1>7, <1>8 DEF Flight

\* What is at the end of the inbox once a frame is sent.
LEMMA PushedFrames ==
  ASSUME Base, NEW i \in Sockets, NEW f \in Frames, NEW s \in Services, s.wire < MaxWire,
         Push(i, f, s), socks[i].state = "open", NEW l, l = Len(socks[i].inbox) + 1
  PROVE  /\ l \in Nat
         /\ \A k : IsDecision(i, k) =>
              /\ k \in Nat /\ k < l /\ IsDecision(i, k)' /\ Coming(i, k)' = Coming(i, k)
              /\ socks'[i].inbox[k] = socks[i].inbox[k]
         /\ \A k : IsReset(i, k) => k \in Nat /\ k < l /\ IsReset(i, k)'
         /\ \A k : IsDecision(i, k)' =>
              \/ IsDecision(i, k)
              \/ k = l /\ f.type = "decision" /\ Coming(i, k)' = f.decision /\ socks'[i].inbox[k] = f
         /\ \A k : IsReset(i, k)' => IsReset(i, k) \/ (k = l /\ f.type = "resume_reset")
         /\ f.type = "resume_reset" => IsReset(i, l)'
<1> DEFINE b == socks[i].inbox
           c == socks'[i].inbox
<1>1. b \in Seq(Frames) /\ Len(b) \in Nat /\ l = Len(b) + 1
  BY ComingTyped
<1>2. c = Append(b, f) /\ socks'[i].state = "open"
  BY PushTyped
<1>3. Arriving(i) = DOMAIN b /\ Arriving(i)' = DOMAIN c
  BY <1>2 DEF Arriving
<1> HIDE DEF c
<1>4. /\ l \in DOMAIN c /\ c[l] = f
      /\ \A k \in DOMAIN b : k \in Nat /\ k < l /\ k \in DOMAIN c /\ c[k] = b[k]
      /\ \A k \in DOMAIN c : k = l \/ k \in DOMAIN b
  BY <1>1, <1>2, AppendedFacts
<1> USE DEF c
<1>5. l \in Nat
  BY <1>1
<1>6. \A k : IsDecision(i, k) =>
         /\ k \in Nat /\ k < l /\ IsDecision(i, k)' /\ Coming(i, k)' = Coming(i, k)
         /\ socks'[i].inbox[k] = socks[i].inbox[k]
  BY <1>3, <1>4 DEF IsDecision, Coming
<1>7. \A k : IsReset(i, k) => k \in Nat /\ k < l /\ IsReset(i, k)'
  BY <1>3, <1>4 DEF IsReset
<1>8. \A k : IsDecision(i, k)' =>
         \/ IsDecision(i, k)
         \/ k = l /\ f.type = "decision" /\ Coming(i, k)' = f.decision /\ socks'[i].inbox[k] = f
  BY <1>3, <1>4 DEF IsDecision, Coming
<1>9. \A k : IsReset(i, k)' => IsReset(i, k) \/ (k = l /\ f.type = "resume_reset")
  BY <1>3, <1>4 DEF IsReset
<1>10. f.type = "resume_reset" => IsReset(i, l)'
  BY <1>3, <1>4 DEF IsReset
<1> QED
  BY <1>5, <1>6, <1>7, <1>8, <1>9, <1>10

\* No frame arrives but over the one open socket.
LEMMA OthersSilent ==
  ASSUME Connected, NEW i \in Sockets, socks[i].state = "open",
         \A j \in Sockets \ {i} : socks'[j] = socks[j]
  PROVE  \A j \in Sockets \ {i} : Arriving(j)' = {}
BY DEF Connected, Arriving

LEMMA PushFlight ==
  ASSUME ~Overtaking, Base, Connected, Flight, NEW i \in Sockets, ServicePushes(i)
  PROVE  Flight'
<1>1. /\ service.epoch # 0 /\ service.wire < MaxWire /\ socks[i].state = "open"
      /\ answer' = answer /\ applied' = applied
  BY PushKinds DEF ServicePushes
<1>2. PICK f \in Frames : \E s \in Services : Sends(i, f, s) /\ s.wire = service.wire
  BY PushKinds
<1>3. PICK s \in Services : Sends(i, f, s) /\ s.wire = service.wire
  BY <1>2
<1>4. Push(i, f, s) /\ s.wire < MaxWire /\ f.epoch = service.epoch
  BY <1>1, <1>3 DEF Sends
<1>5. PICK l : l = Len(socks[i].inbox) + 1
  OBVIOUS
<1>6. /\ l \in Nat
      /\ \A k : IsDecision(i, k) =>
           /\ k \in Nat /\ k < l /\ IsDecision(i, k)' /\ Coming(i, k)' = Coming(i, k)
           /\ socks'[i].inbox[k] = socks[i].inbox[k]
      /\ \A k : IsReset(i, k) => k \in Nat /\ k < l /\ IsReset(i, k)'
      /\ \A k : IsDecision(i, k)' =>
           \/ IsDecision(i, k)
           \/ k = l /\ f.type = "decision" /\ Coming(i, k)' = f.decision /\ socks'[i].inbox[k] = f
      /\ \A k : IsReset(i, k)' => IsReset(i, k) \/ (k = l /\ f.type = "resume_reset")
      /\ f.type = "resume_reset" => IsReset(i, l)'
  BY <1>1, <1>4, <1>5, PushedFrames
<1>7. /\ service'.epoch = s.epoch /\ service'.made = s.made /\ service'.seq = s.seq
      /\ \A j \in Sockets \ {i} : socks'[j] = socks[j]
  BY <1>4, PushTyped
<1>8. \A j \in Sockets \ {i} : Sent(j)' /\ Resets(j)'
  BY <1>1, <1>7, OthersSilent, NothingArrives DEF Sent, Resets
<1>9. \A k \in Nat : IsDecision(i, k) => InPlace(i, k) /\ Coming(i, k) \in Decisions
  BY ComingTyped DEF Flight, Sent
<1>10. service \in Services /\ Sessions
  BY BaseFacts DEF Base
<1>11. ASSUME service'.epoch = service.epoch, service'.made = service.made,
              f.type # "decision",
              \A k \in Nat : IsDecision(i, k) =>
                Counted(Coming(i, k))' \/ \E m \in Nat : m > k /\ IsReset(i, m)',
              IsReset(i, l)' => \A p \in Calls : answer[p] = {}
       PROVE  Sent(i)' /\ Resets(i)'
  <2>1. ASSUME NEW k \in Nat, IsDecision(i, k)' PROVE InPlace(i, k)'
    <3>1. /\ IsDecision(i, k) /\ InPlace(i, k) /\ Coming(i, k)' = Coming(i, k)
          /\ socks'[i].inbox[k] = socks[i].inbox[k]
      BY <1>6, <1>9, <1>11, <2>1
    <3>2. WasMade(Coming(i, k))' /\ (Coming(i, k).epoch = socks[i].inbox[k].epoch)'
      BY <1>11, <3>1 DEF InPlace, WasMade
    <3>3. Counted(Coming(i, k))' \/ \E m \in Nat : m > k /\ IsReset(i, m)'
      BY <1>11, <3>1
    <3>4. \A m \in Nat : m > k /\ IsDecision(i, m)' =>
            (Coming(i, k).n < Coming(i, m).n /\ Coming(i, k).epoch <= Coming(i, m).epoch)'
      BY <1>6, <1>11, <3>1 DEF InPlace
    <3>5. \A p \in Calls : \A c \in answer'[p] :
            Ordered(Coming(i, k), c)' /\ Ordered(c, Coming(i, k))'
      BY <1>1, <3>1 DEF InPlace, Ordered
    <3> QED
      BY <3>2, <3>3, <3>4, <3>5 DEF InPlace
  <2>2. ASSUME NEW k \in Nat, IsReset(i, k)'
        PROVE  /\ \A p \in Calls : answer'[p] = {}
               /\ \A m \in Nat : m > k /\ IsDecision(i, m)' =>
                    (Coming(i, m).n > applied[Coming(i, m).npc])'
    <3>1. CASE IsReset(i, k)
      BY <1>1, <1>6, <1>11, <3>1 DEF Flight, Resets
    <3>2. CASE k = l
      <4>1. \A m \in Nat : IsDecision(i, m)' => m < l
        BY <1>6, <1>11
      <4> QED
        BY <1>1, <1>6, <1>11, <2>2, <3>2, <4>1
    <3> QED
      BY <1>6, <2>2, <3>1, <3>2
  <2> QED
    BY <2>1, <2>2 DEF Sent, Resets
<1>12. CASE f.type = "session_ready" /\ s = service
  <2>1. \A d \in Decisions : (Counted(d)' <=> Counted(d)) /\ (WasMade(d)' <=> WasMade(d))
    BY <1>7, <1>12 DEF Counted, WasMade
  <2>2. ~IsReset(i, l)'
    BY <1>6, <1>12
  <2>3. \A k \in Nat : IsDecision(i, k) =>
          Counted(Coming(i, k))' \/ \E m \in Nat : m > k /\ IsReset(i, m)'
    <3> TAKE k \in Nat
    <3> HAVE IsDecision(i, k)
    <3>1. Coming(i, k)' = Coming(i, k) /\ Coming(i, k) \in Decisions /\ InPlace(i, k)
      BY <1>6, <1>9
    <3>2. CASE Counted(Coming(i, k))
      BY <1>7, <1>12, <3>1, <3>2 DEF Counted
    <3>3. CASE \E m \in Nat : m > k /\ IsReset(i, m)
      BY <1>6, <3>3
    <3> QED
      BY <3>1, <3>2, <3>3 DEF InPlace
  <2>4. Sent(i)' /\ Resets(i)'
    BY <1>7, <1>11, <1>12, <2>2, <2>3
  <2>5. Answered'
    BY <1>1, <2>1, ServiceNumbers DEF Flight, Answered, Ordered
  <2> QED
    BY <1>1, <1>7, <1>8, <1>12, <2>4, <2>5 DEF Flight
<1>13. CASE /\ f.type = "resume_reset"
            /\ s = [service EXCEPT !.seq[service.epoch] = [n \in Npcs |-> 0]]
  <2>1. \A p \in Calls : answer[p] = {}
    BY <1>3, <1>13 DEF Sends
  <2>2. s.epoch = service.epoch /\ s.made = service.made
    BY <1>1, <1>10, <1>13, AnewTyped
  <2>3. \A k \in Nat : IsDecision(i, k) =>
          Counted(Coming(i, k))' \/ \E m \in Nat : m > k /\ IsReset(i, m)'
    BY <1>6, <1>13
  <2>4. Sent(i)' /\ Resets(i)'
    BY <1>7, <1>11, <1>13, <2>1, <2>2, <2>3
  <2>5. Answered'
    BY <1>1, <2>1 DEF Answered
  <2> QED
    BY <1>1, <1>7, <1>8, <2>2, <2>4, <2>5 DEF Flight
<1>14. ASSUME NEW n \in Npcs, f.type = "decision", service.made < MaxDecisions,
              f.decision = Made(n), s = AfterMade(n)
       PROVE  Flight'
  <2>1. PICK x : x = Made(n)
    OBVIOUS
  <2>2. service'.epoch = service.epoch /\ service'.made = service.made + 1
        /\ service'.seq = AfterMade(n).seq /\ x.epoch = service.epoch
    BY <1>1, <1>7, <1>10, <1>14, <2>1, MadeTyped
  <2>3. /\ x \in Decisions /\ WasMade(x)' /\ Counted(x)'
        /\ \A m \in Npcs : applied[m] <= service.made => applied[m] < x.n
        /\ \A d \in Decisions : WasMade(d) =>
             WasMade(d)' /\ d.n < x.n /\ d.epoch <= x.epoch /\ Ordered(d, x)
        /\ \A d \in Decisions : WasMade(d) /\ Counted(d) => Counted(d)' /\ Ordered(x, d)
    BY <1>1, <1>14, <2>1, <2>2, NewDecision
  <2>4. Answered'
    BY <1>1, <2>3, ServiceNumbers DEF Flight, Answered, Ordered
  <2>5. ASSUME NEW k \in Nat, IsDecision(i, k) PROVE InPlace(i, k)'
    <3>1. /\ InPlace(i, k) /\ Coming(i, k)' = Coming(i, k) /\ Coming(i, k) \in Decisions
          /\ socks'[i].inbox[k] = socks[i].inbox[k] /\ WasMade(Coming(i, k))
      BY <1>6, <1>9, <2>5 DEF InPlace
    <3>2. WasMade(Coming(i, k))' /\ (Coming(i, k).epoch = socks[i].inbox[k].epoch)'
      BY <2>3, <3>1 DEF InPlace, WasMade
    <3>3. Counted(Coming(i, k))' \/ \E m \in Nat : m > k /\ IsReset(i, m)'
      <4>1. CASE Counted(Coming(i, k))
        BY <2>3, <3>1, <4>1 DEF Counted
      <4>2. CASE \E m \in Nat : m > k /\ IsReset(i, m)
        BY <1>6, <4>2
      <4> QED
        BY <3>1, <4>1, <4>2 DEF InPlace
    <3>4. \A m \in Nat : m > k /\ IsDecision(i, m)' =>
            (Coming(i, k).n < Coming(i, m).n /\ Coming(i, k).epoch <= Coming(i, m).epoch)'
      BY <1>6, <1>14, <2>1, <2>3, <3>1 DEF InPlace
    <3>5. \A p \in Calls : \A c \in answer'[p] :
            Ordered(Coming(i, k), c)' /\ Ordered(c, Coming(i, k))'
      BY <1>1, <3>1 DEF InPlace, Ordered
    <3> QED
      BY <3>2, <3>3, <3>4, <3>5 DEF InPlace
  <2>6. ASSUME NEW k \in Nat, k = l, IsDecision(i, k)', Coming(i, k)' = x, socks'[i].inbox[k] = f
        PROVE  InPlace(i, k)'
    <3>1. WasMade(Coming(i, k))' /\ (Coming(i, k).epoch = socks[i].inbox[k].epoch)'
      BY <1>4, <2>2, <2>3, <2>6 DEF WasMade
    <3>2. Counted(Coming(i, k))'
      BY <2>3, <2>6 DEF Counted
    <3>3. \A m \in Nat : IsDecision(i, m)' => m <= k
      BY <1>6, <2>6
    <3>4. \A p \in Calls : \A c \in answer'[p] :
            Ordered(Coming(i, k), c)' /\ Ordered(c, Coming(i, k))'
      BY <1>1, <2>3, <2>6, ServiceNumbers DEF Flight, Answered, Ordered
    <3> QED
      BY <3>1, <3>2, <3>3, <3>4 DEF InPlace
  <2>7. Sent(i)'
    BY <1>6, <1>14, <2>1, <2>5, <2>6 DEF Sent
  <2>8. ASSUME NEW k \in Nat, IsReset(i, k)'
        PROVE  /\ \A p \in Calls : answer'[p] = {}
               /\ \A m \in Nat : m > k /\ IsDecision(i, m)' =>
                    (Coming(i, m).n > applied[Coming(i, m).npc])'
    <3>1. IsReset(i, k)
      BY <1>6, <1>14, <2>8
    <3>2. /\ \A p \in Calls : answer[p] = {}
          /\ \A m \in Nat : m > k /\ IsDecision(i, m) => Coming(i, m).n > applied[Coming(i, m).npc]
      BY <3>1 DEF Flight, Resets
    <3>3. applied[x.npc] < x.n
      BY <2>3, ServiceNumbers DEF Flight
    <3> QED
      BY <1>1, <1>6, <1>14, <2>1, <2>3, <3>2, <3>3, ServiceNumbers
  <2>9. \A m \in Npcs : applied'[m] <= service'.made
    BY <1>1, <2>2, ServiceNumbers DEF Flight
  <2> QED
    BY <1>8, <2>4, <2>7, <2>8, <2>9 DEF Flight, Resets
<1> QED
  BY <1>3, <1>12, <1>13, <1>14 DEF Sends

\* What is in the inbox once its head is read.
LEMMA TakenFrames ==
  ASSUME Base, NEW i \in Sockets, Receive(i)
  PROVE  /\ \A k : IsDecision(i, k)' =>
              /\ k \in Nat /\ k >= 1 /\ IsDecision(i, k + 1)
              /\ Coming(i, k)' = Coming(i, k + 1) /\ socks'[i].inbox[k] = socks[i].inbox[k + 1]
         /\ \A k : IsReset(i, k)' => k \in Nat /\ k >= 1 /\ IsReset(i, k + 1)
         /\ \A k \in Nat : k > 1 /\ IsReset(i, k) => IsReset(i, k - 1)'
         /\ \A j \in Sockets \ {i} : socks'[j] = socks[j]
         /\ socks[i].state = "open" /\ 1 \in Arriving(i) /\ Head(socks[i].inbox) = socks[i].inbox[1]
<1> DEFINE b == socks[i].inbox
           c == socks'[i].inbox
<1>1. b \in Seq(Frames) /\ b # <<>> /\ socks[i].state = "open"
  BY ComingTyped DEF Receive
<1>2. /\ c = Tail(b) /\ socks'[i].state = "open" /\ \A j \in Sockets \ {i} : socks'[j] = socks[j]
  BY <1>1, BaseFacts, TakeTyped DEF Receive
<1>3. Arriving(i) = DOMAIN b /\ Arriving(i)' = DOMAIN c
  BY <1>1, <1>2 DEF Arriving
<1>4. /\ \A k \in DOMAIN c : k \in Nat /\ k >= 1 /\ k + 1 \in DOMAIN b /\ c[k] = b[k + 1]
      /\ \A k \in DOMAIN b : k \in Nat /\ (k > 1 => k - 1 \in DOMAIN c /\ c[k - 1] = b[k])
      /\ 1 \in DOMAIN b /\ Head(b) = b[1]
  BY SMTT(30), <1>1, <1>2
<1> QED
  BY <1>1, <1>2, <1>3, <1>4 DEF IsDecision, IsReset, Coming

\* What the game gets of a decision.
LEMMA GiveFacts ==
  ASSUME Base, NEW k, NEW d \in Decisions, Give(k, d)
  PROVE  /\ IsNew(k, d) => applied'[d.npc] = d.n
         /\ ~IsNew(k, d) => applied' = applied
         /\ \A n \in Npcs \ {d.npc} : applied'[n] = applied[n]
BY BaseFacts, DecisionFields DEF Give, Rest

LEMMA ReceiveFlight ==
  ASSUME Base, Connected, Flight, NEW i \in Sockets, Receive(i)
  PROVE  Flight'
<1>1. /\ \A k : IsDecision(i, k)' =>
           /\ k \in Nat /\ k >= 1 /\ IsDecision(i, k + 1)
           /\ Coming(i, k)' = Coming(i, k + 1) /\ socks'[i].inbox[k] = socks[i].inbox[k + 1]
      /\ \A k : IsReset(i, k)' => k \in Nat /\ k >= 1 /\ IsReset(i, k + 1)
      /\ \A k \in Nat : k > 1 /\ IsReset(i, k) => IsReset(i, k - 1)'
      /\ \A j \in Sockets \ {i} : socks'[j] = socks[j]
      /\ socks[i].state = "open" /\ 1 \in Arriving(i) /\ Head(socks[i].inbox) = socks[i].inbox[1]
  BY TakenFrames
<1>2. answer' = answer /\ service' = service
  BY DEF Receive
<1>3. \A j \in Sockets \ {i} : Sent(j)' /\ Resets(j)'
  BY <1>1, OthersSilent, NothingArrives DEF Sent, Resets
<1>4. Answered'
  BY <1>2 DEF Flight, Answered, WasMade, Counted, Ordered
<1>5. ASSUME NEW k \in Nat, IsDecision(i, k)' PROVE InPlace(i, k)'
  <2>1. /\ k + 1 \in Nat /\ IsDecision(i, k + 1) /\ Coming(i, k)' = Coming(i, k + 1)
        /\ socks'[i].inbox[k] = socks[i].inbox[k + 1] /\ Coming(i, k + 1) \in Decisions
    BY <1>1, <1>5, ComingTyped
  <2>2. InPlace(i, k + 1)
    BY <2>1 DEF Flight, Sent
  <2>3. WasMade(Coming(i, k))' /\ (Coming(i, k).epoch = socks[i].inbox[k].epoch)'
    BY <1>2, <2>1, <2>2 DEF InPlace, WasMade
  <2>4. Counted(Coming(i, k))' \/ \E m \in Nat : m > k /\ IsReset(i, m)'
    <3>1. CASE Counted(Coming(i, k + 1))
      BY <1>2, <2>1, <3>1 DEF Counted
    <3>2. ASSUME NEW m \in Nat, m > k + 1, IsReset(i, m)
          PROVE  \E r \in Nat : r > k /\ IsReset(i, r)'
      <4>1. m - 1 \in Nat /\ m - 1 > k /\ IsReset(i, m - 1)'
        BY <1>1, <3>2
      <4> QED
        BY <4>1
    <3> QED
      BY <2>2, <3>1, <3>2 DEF InPlace
  <2>5. \A m \in Nat : m > k /\ IsDecision(i, m)' =>
          (Coming(i, k).n < Coming(i, m).n /\ Coming(i, k).epoch <= Coming(i, m).epoch)'
    <3> TAKE m \in Nat
    <3> HAVE m > k /\ IsDecision(i, m)'
    <3>1. m + 1 \in Nat /\ m + 1 > k + 1 /\ IsDecision(i, m + 1) /\ Coming(i, m)' = Coming(i, m + 1)
      BY <1>1
    <3> QED
      BY <2>1, <2>2, <3>1 DEF InPlace
  <2>6. \A p \in Calls : \A c \in answer'[p] :
          Ordered(Coming(i, k), c)' /\ Ordered(c, Coming(i, k))'
    BY <1>2, <2>1, <2>2 DEF InPlace, Ordered
  <2> QED
    BY <2>3, <2>4, <2>5, <2>6 DEF InPlace
<1> DEFINE f == socks[i].inbox[1]
<1>6. f \in Frames /\ (f.type = "decision" => IsDecision(i, 1) /\ f.decision = Coming(i, 1))
  BY <1>1, ComingTyped DEF IsDecision, Coming, Arriving
<1>7. applied' = applied \/ (f.type = "decision" /\ \E k : Give(k, f.decision))
  BY <1>1, ReceiveKinds
<1>8. \A n \in Npcs : applied'[n] = applied[n]
        \/ (IsDecision(i, 1) /\ Coming(i, 1) \in Decisions /\ applied'[n] = Coming(i, 1).n)
  <2>1. CASE applied' = applied
    BY <2>1
  <2>2. ASSUME NEW k, f.type = "decision", Give(k, f.decision)
        PROVE  \A n \in Npcs : applied'[n] = applied[n]
                 \/ (IsDecision(i, 1) /\ Coming(i, 1) \in Decisions /\ applied'[n] = Coming(i, 1).n)
    BY <1>6, <2>2, GiveFacts, ComingTyped
  <2> QED
    BY <1>7, <2>1, <2>2
<1>9. \A n \in Npcs : applied'[n] <= service'.made
  <2>1. IsDecision(i, 1) => Coming(i, 1).n <= service.made
    BY DEF Flight, Sent, InPlace, WasMade
  <2> QED
    BY <1>2, <1>8, <2>1 DEF Flight
<1>10. ASSUME NEW k \in Nat, IsReset(i, k)'
       PROVE  /\ \A p \in Calls : answer'[p] = {}
              /\ \A m \in Nat : m > k /\ IsDecision(i, m)' =>
                   (Coming(i, m).n > applied[Coming(i, m).npc])'
  <2>1. k + 1 \in Nat /\ k >= 1 /\ IsReset(i, k + 1)
    BY <1>1, <1>10
  <2>2. \A p \in Calls : answer'[p] = {}
    BY <1>2, <2>1 DEF Flight, Resets
  <2>3. ASSUME NEW m \in Nat, m > k, IsDecision(i, m)'
        PROVE  (Coming(i, m).n > applied[Coming(i, m).npc])'
    <3>1. /\ m + 1 \in Nat /\ m + 1 > k + 1 /\ m + 1 > 1 /\ IsDecision(i, m + 1)
          /\ Coming(i, m)' = Coming(i, m + 1) /\ Coming(i, m + 1) \in Decisions
      BY <1>1, <2>3, ComingTyped
    <3>2. Coming(i, m + 1).n > applied[Coming(i, m + 1).npc]
      BY <2>1, <3>1 DEF Flight, Resets
    <3>3. IsDecision(i, 1) => Coming(i, 1).n < Coming(i, m + 1).n
      BY <3>1 DEF Flight, Sent, InPlace
    <3> QED
      BY <1>8, <3>1, <3>2, <3>3, ServiceNumbers
  <2> QED
    BY <2>2, <2>3
<1> QED
  BY <1>3, <1>4, <1>5, <1>9, <1>10 DEF Flight, Sent, Resets

LEMMA ChatFlight ==
  ASSUME Base, Flight, NEW p \in Calls, ChatAnswered(p)
  PROVE  Flight'
<1>1. /\ answer' = [answer EXCEPT ![p] = {}] /\ service' = service /\ socks' = socks
      /\ \E d \in answer[p] : Give(Adopted(client, d.epoch), d)
  BY DEF ChatAnswered, link
<1>2. PICK d \in answer[p] : Give(Adopted(client, d.epoch), d)
  BY <1>1
<1>3. d \in Decisions /\ d.n <= service.made
  BY ServiceNumbers DEF Flight, Answered, WasMade
<1>4. \A q \in Calls : answer'[q] \subseteq answer[q]
  BY <1>1, BaseFacts DEF Answers
<1>5. \A n \in Npcs : applied'[n] <= service'.made
  BY <1>1, <1>2, <1>3, GiveFacts DEF Flight
<1>6. Answered'
  BY <1>1, <1>4 DEF Flight, Answered, WasMade, Counted, Ordered
<1>7. ASSUME NEW i \in Sockets PROVE Sent(i)' /\ Resets(i)'
  <2>1. Untouched(i)
    BY <1>1 DEF Untouched, IsDecision, IsReset, Coming, Arriving
  <2>2. \A k \in Nat : ~IsReset(i, k)
    BY <1>2 DEF Flight, Resets
  <2>3. ASSUME NEW k \in Nat, IsDecision(i, k)' PROVE InPlace(i, k)'
    <3>1. /\ IsDecision(i, k) /\ InPlace(i, k) /\ Coming(i, k)' = Coming(i, k)
          /\ socks'[i].inbox = socks[i].inbox
      BY <2>1, <2>3 DEF Untouched, Flight, Sent
    <3>2. WasMade(Coming(i, k))' /\ (Coming(i, k).epoch = socks[i].inbox[k].epoch)'
      BY <1>1, <3>1 DEF InPlace, WasMade
    <3>3. Counted(Coming(i, k))'
      BY <1>1, <2>2, <3>1 DEF InPlace, Counted
    <3>4. \A m \in Nat : m > k /\ IsDecision(i, m)' =>
            (Coming(i, k).n < Coming(i, m).n /\ Coming(i, k).epoch <= Coming(i, m).epoch)'
      BY <2>1, <3>1 DEF InPlace, Untouched
    <3>5. \A q \in Calls : \A c \in answer'[q] :
            Ordered(Coming(i, k), c)' /\ Ordered(c, Coming(i, k))'
      BY <1>4, <3>1 DEF InPlace, Ordered
    <3> QED
      BY <3>2, <3>3, <3>4, <3>5 DEF InPlace
  <2> QED
    BY <2>1, <2>2, <2>3 DEF Sent, Resets, Untouched
<1> QED
  BY <1>5, <1>6, <1>7 DEF Flight

LEMMA FlightStep ==
  ASSUME ~Overtaking, Base, Begun, Connected, Flight, [Next]_vars
  PROVE  Flight'
BY StepKinds, CalmFlight, AnswersFlight, PushFlight, ReceiveFlight, ChatFlight

\* A client in a later epoch takes no older decision.
LEMMA LaterFresh ==
  ASSUME Base, NEW k \in Clients, NEW c \in Decisions, FreshFor(client, c),
         \/ k.epoch = client.epoch /\ k.last = client.last
         \/ k.epoch > client.epoch
  PROVE  FreshFor(k, c)
<1>1. k.epoch \in Nat
  BY ClientFields, Numbers
<1> QED
  BY <1>1, ServiceNumbers DEF FreshFor

\* What is newer than a decision that the client takes is still newer.
LEMMA TakenFresh ==
  ASSUME Base, NEW k \in Clients, NEW d \in Decisions, NEW c \in Decisions,
         d.epoch = k.epoch, FreshFor(k, c), d.n < c.n \/ Ordered(d, c),
         client' = Accepted(k, d), Give(k, d)
  PROVE  FreshFor(client, c)'
<1>1. CASE ~IsNew(k, d)
  BY <1>1, AcceptedTyped, GiveFacts DEF FreshFor
<1>2. CASE IsNew(k, d)
  <2>1. /\ client'.epoch = k.epoch /\ client'.last = [k.last EXCEPT ![d.npc] = d.seq]
        /\ k.last \in [Npcs -> 0 .. MaxDecisions] /\ d.npc \in Npcs /\ c.npc \in Npcs
    BY <1>2, AcceptedTyped, ClientFields, DecisionFields
  <2>2. applied'[d.npc] = d.n /\ \A n \in Npcs \ {d.npc} : applied'[n] = applied[n]
    BY <1>2, GiveFacts
  <2>3. CASE c.npc # d.npc
    BY <2>1, <2>2, <2>3 DEF FreshFor
  <2>4. CASE c.npc = d.npc
    <3>1. c.epoch > d.epoch \/ (c.epoch = d.epoch /\ c.seq > d.seq) => d.n < c.n
      BY <2>4, ServiceNumbers DEF Ordered
    <3>2. client'.last[c.npc] = d.seq /\ applied'[c.npc] = d.n
      BY <2>1, <2>2, <2>4
    <3> QED
      BY <2>1, <3>1, <3>2, ServiceNumbers DEF FreshFor
  <2> QED
    BY <2>3, <2>4
<1> QED
  BY <1>1, <1>2

\* The game gets a decision only if it is newer than what it has.
LEMMA GivesNewer ==
  ASSUME Base, NEW k \in Clients, NEW d \in Decisions, d.epoch = k.epoch, FreshFor(k, d), Give(k, d)
  PROVE  \A n \in Npcs : applied'[n] # applied[n] => applied'[n] > applied[n]
<1>1. CASE ~IsNew(k, d)
  BY <1>1, GiveFacts
<1>2. CASE IsNew(k, d)
  <2>1. d.n > applied[d.npc] /\ applied'[d.npc] = d.n
    BY <1>2, GiveFacts DEF FreshFor, IsNew
  <2> QED
    BY <2>1, <1>2, GiveFacts
<1> QED
  BY <1>1, <1>2

LEMMA CalmNewer ==
  ASSUME Base, Flight, Newer, Calm, Onward, client'.epoch \in Nat
  PROVE  Newer'
<1> SUFFICES ASSUME client'.session # 0
             PROVE  /\ \A p \in Calls : \A d \in answer'[p] : FreshFor(client, d)'
                    /\ \A i \in Sockets : \A k \in Nat : IsDecision(i, k)' =>
                         FreshFor(client, Coming(i, k))'
  BY DEF Newer
<1>1. ASSUME NEW d \in Decisions, client.session # 0 => FreshFor(client, d), WasMade(d)
      PROVE  FreshFor(client, d)'
  <2>1. applied' = applied
    BY DEF Calm
  <2>2. CASE client'.epoch > service.epoch
    <3>1. ~(d.epoch > client'.epoch) /\ d.epoch # client'.epoch
      BY <1>1, <2>2, ServiceNumbers DEF WasMade
    <3> QED
      BY <3>1 DEF FreshFor
  <2>3. CASE /\ client.session # 0 /\ client'.epoch = client.epoch /\ client'.last = client.last
    BY <1>1, <2>1, <2>3 DEF FreshFor
  <2>4. CASE client.session # 0 /\ client'.epoch > client.epoch
    BY <1>1, <2>1, <2>4, ServiceNumbers DEF FreshFor
  <2> QED
    BY <2>2, <2>3, <2>4 DEF Onward
<1>2. \A p \in Calls : \A d \in answer'[p] :
        d \in Decisions /\ WasMade(d) /\ (client.session # 0 => FreshFor(client, d))
  BY ServiceNumbers DEF Calm, Flight, Answered, Newer
<1>3. ASSUME NEW i \in Sockets, NEW k \in Nat, IsDecision(i, k)'
      PROVE  FreshFor(client, Coming(i, k))'
  <2>1. Untouched(i)
    BY <1>3, NothingArrives, SameUntouched DEF Calm
  <2>2. IsDecision(i, k) /\ Coming(i, k)' = Coming(i, k)
    BY <1>3, <2>1 DEF Untouched
  <2>3. /\ Coming(i, k) \in Decisions /\ WasMade(Coming(i, k))
        /\ client.session # 0 => FreshFor(client, Coming(i, k))
    BY <2>2, ComingTyped DEF Flight, Sent, InPlace, Newer
  <2>4. PICK d \in Decisions : d = Coming(i, k)
    BY <2>3
  <2>5. FreshFor(client, d)'
    BY <1>1, <2>3, <2>4
  <2> QED
    BY <2>2, <2>4, <2>5 DEF FreshFor
<1> QED
  BY <1>1, <1>2, <1>3

LEMMA AnswersNewer ==
  ASSUME Base, Flight, Newer, NEW p \in Calls, ServiceAnswers(p)
  PROVE  Newer'
<1>1. PICK x : x = Made(Npc[p])
  OBVIOUS
<1>2. /\ service' = AfterMade(Npc[p]) /\ service.made < MaxDecisions /\ pc[p] = "http_chat"
      /\ answer' = [answer EXCEPT ![p] = {x}] /\ socks' = socks /\ applied' = applied
      /\ client' = client
  BY <1>1 DEF ServiceAnswers, link
<1>3. service.epoch # 0 /\ Npc[p] \in Npcs
  BY <1>2, Numbers DEF Base, Sessions
<1>4. x \in Decisions /\ x.n = service.made + 1
  BY <1>1, <1>2, <1>3, BaseFacts, MadeTyped DEF Base
<1>5. x.n > applied[x.npc]
  BY <1>4, ServiceNumbers DEF Flight
<1>6. \A q \in Calls : \A d \in answer'[q] : d = x \/ \E r \in Calls : d \in answer[r]
  BY <1>2, BaseFacts DEF Answers
<1>7. \A i \in Sockets : Untouched(i)
  BY <1>2 DEF Untouched, IsDecision, IsReset, Coming, Arriving
<1>8. client.session # 0 => \A q \in Calls : \A d \in answer'[q] : FreshFor(client, d)'
  BY <1>2, <1>5, <1>6 DEF Newer, FreshFor
<1>9. client.session # 0 => \A i \in Sockets : \A k \in Nat : IsDecision(i, k)' =>
                              FreshFor(client, Coming(i, k))'
  BY <1>2, <1>7 DEF Newer, FreshFor, Untouched
<1> QED
  BY <1>2, <1>8, <1>9 DEF Newer

LEMMA PushNewer ==
  ASSUME Base, Connected, Flight, Newer, NEW i \in Sockets, ServicePushes(i)
  PROVE  Newer'
<1>1. /\ service.epoch # 0 /\ service.wire < MaxWire /\ socks[i].state = "open"
      /\ answer' = answer /\ applied' = applied /\ client' = client
  BY PushKinds DEF ServicePushes
<1>2. PICK f \in Frames : \E s \in Services : Sends(i, f, s) /\ s.wire = service.wire
  BY PushKinds
<1>3. PICK s \in Services : Sends(i, f, s) /\ s.wire = service.wire
  BY <1>2
<1>4. Push(i, f, s) /\ s.wire < MaxWire
  BY <1>1, <1>3 DEF Sends
<1>5. PICK l : l = Len(socks[i].inbox) + 1
  OBVIOUS
<1>6. \A k : IsDecision(i, k)' =>
        \/ IsDecision(i, k) /\ Coming(i, k)' = Coming(i, k)
        \/ f.type = "decision" /\ Coming(i, k)' = f.decision
  BY <1>1, <1>4, <1>5, PushedFrames
<1>7. \A j \in Sockets \ {i} : Arriving(j)' = {}
  BY <1>1, <1>4, PushTyped, OthersSilent
<1>8. f.type = "decision" => f.decision.n > applied[f.decision.npc]
  <2>1. ASSUME NEW n \in Npcs, f.decision = Made(n), service.made < MaxDecisions
        PROVE  f.decision.n > applied[f.decision.npc]
    <3>1. f.decision.n = service.made + 1 /\ f.decision.npc = n
      BY <1>1, <2>1, BaseFacts, MadeTyped DEF Base
    <3> QED
      BY <3>1, ServiceNumbers DEF Flight
  <2> QED
    BY <1>3, <2>1 DEF Sends
<1>9. client.session # 0 => \A p \in Calls : \A d \in answer'[p] : FreshFor(client, d)'
  BY <1>1 DEF Newer, FreshFor
<1>10. client.session # 0 => \A k \in Nat : IsDecision(i, k)' => FreshFor(client, Coming(i, k))'
  BY <1>1, <1>6, <1>8 DEF Newer, FreshFor
<1> QED
  BY <1>1, <1>7, <1>9, <1>10, NothingArrives DEF Newer

\* A frame that arrives: the client stays, moves on, starts anew, or takes a decision.
LEMMA ReceiveNewer ==
  ASSUME Base, Connected, Flight, Newer, NEW i \in Sockets, Receive(i)
  PROVE  /\ Newer'
         /\ \A n \in Npcs : applied'[n] # applied[n] => applied'[n] > applied[n]
<1> DEFINE f == Head(socks[i].inbox)
           k == [client EXCEPT !.wire[f.epoch] = f.seq]
<1>1. /\ \A m : IsDecision(i, m)' =>
           /\ m \in Nat /\ m >= 1 /\ IsDecision(i, m + 1) /\ Coming(i, m)' = Coming(i, m + 1)
      /\ \A j \in Sockets \ {i} : socks'[j] = socks[j]
      /\ socks[i].state = "open" /\ 1 \in Arriving(i) /\ f = socks[i].inbox[1]
      /\ answer' = answer
  BY TakenFrames DEF Receive
<1>2. \A j \in Sockets \ {i} : Arriving(j)' = {}
  BY <1>1, OthersSilent
<1>3. /\ f \in Frames /\ k \in Clients /\ Same(k, client, {})
      /\ \/ client' = client /\ applied' = applied
         \/ /\ f.type = "session_ready" /\ client.session # 0 /\ f.epoch >= client.epoch
            /\ client' \in {k, Adopted(k, f.epoch)} /\ applied' = applied
         \/ /\ f.type = "resume_reset" /\ f.epoch = client.epoch
            /\ client' = [k EXCEPT !.last = [n \in Npcs |-> 0]] /\ applied' = applied
         \/ /\ f.type = "decision" /\ client.session # 0 /\ f.epoch = client.epoch
            /\ client' = Accepted(k, f.decision) /\ Give(k, f.decision)
  BY ReceiveKinds
<1> HIDE DEF k
\* What is still under way was under way before.
<1>4. /\ \A p \in Calls : \A d \in answer[p] : d \in Decisions
      /\ \A m \in Nat : IsDecision(i, m)' =>
           \E c \in Decisions : /\ c = Coming(i, m)' /\ c = Coming(i, m + 1) /\ IsDecision(i, m + 1)
                                /\ m + 1 \in Nat /\ m + 1 > 1
  BY <1>1, ServiceNumbers, ComingTyped
<1>5. ASSUME client'.session # 0 =>
               /\ \A p \in Calls : \A d \in answer[p] : FreshFor(client, d)'
               /\ \A m \in Nat : \A c \in Decisions :
                    m > 1 /\ IsDecision(i, m) /\ c = Coming(i, m) => FreshFor(client, c)'
      PROVE  Newer'
  <2>1. ASSUME NEW j \in Sockets, NEW m \in Nat, IsDecision(j, m)', client'.session # 0
        PROVE  FreshFor(client, Coming(j, m))'
    <3>1. j = i
      BY <1>2, <2>1, NothingArrives
    <3>2. PICK c \in Decisions : /\ c = Coming(i, m)' /\ c = Coming(i, m + 1)
                                 /\ IsDecision(i, m + 1) /\ m + 1 \in Nat /\ m + 1 > 1
      BY <1>4, <2>1, <3>1
    <3>3. FreshFor(client, c)'
      BY <1>5, <2>1, <3>2
    <3> QED
      BY <3>1, <3>2, <3>3 DEF FreshFor
  <2> QED
    BY <1>1, <1>5, <2>1 DEF Newer
<1>6. client.session # 0 =>
        /\ \A p \in Calls : \A d \in answer[p] : FreshFor(client, d)
        /\ \A m \in Nat : IsDecision(i, m) => FreshFor(client, Coming(i, m))
  BY DEF Newer
<1>7. CASE client' = client /\ applied' = applied
  <2>1. \A c \in Decisions : FreshFor(client, c)' <=> FreshFor(client, c)
    BY <1>7 DEF FreshFor
  <2> QED
    BY <1>4, <1>5, <1>6, <1>7, <2>1
<1>8. CASE /\ f.type = "session_ready" /\ client.session # 0 /\ f.epoch >= client.epoch
           /\ client' \in {k, Adopted(k, f.epoch)} /\ applied' = applied
  <2>1. f.epoch \in 0 .. MaxEpochs /\ f.epoch \in Nat
    BY <1>3, FrameFields, Numbers DEF Epochs
  <2>2. /\ client' \in Clients
        /\ \/ client'.epoch = client.epoch /\ client'.last = client.last
           \/ client'.epoch > client.epoch
    <3>1. CASE client' = k
      BY <1>3, <3>1 DEF Same
    <3>2. CASE client' = Adopted(k, f.epoch) /\ f.epoch = client.epoch
      BY <1>3, <2>1, <3>2, AdoptedTyped DEF Same
    <3>3. CASE client' = Adopted(k, f.epoch) /\ f.epoch # client.epoch
      <4>1. client' \in Clients /\ client'.epoch = f.epoch
        BY <1>3, <1>8, <2>1, <3>3, AdoptedTyped DEF Same
      <4> QED
        BY <1>8, <2>1, <3>3, <4>1, ServiceNumbers
    <3> QED
      BY <1>8, <3>1, <3>2, <3>3
  <2>3. \A c \in Decisions : FreshFor(client, c) => FreshFor(client', c)
    BY <2>2, LaterFresh
  <2>4. \A c \in Decisions : FreshFor(client, c) => FreshFor(client, c)'
    BY <1>8, <2>3 DEF FreshFor
  <2> QED
    BY <1>4, <1>5, <1>6, <1>8, <2>4
<1>9. CASE /\ f.type = "resume_reset" /\ f.epoch = client.epoch
           /\ client' = [k EXCEPT !.last = [n \in Npcs |-> 0]] /\ applied' = applied
  <2>1. IsReset(i, 1)
    BY <1>1, <1>9 DEF IsReset
  <2>2. /\ \A p \in Calls : answer[p] = {}
        /\ \A m \in Nat : m > 1 /\ IsDecision(i, m) => Coming(i, m).n > applied[Coming(i, m).npc]
    BY <2>1 DEF Flight, Resets
  <2> QED
    BY <1>5, <1>9, <2>2 DEF FreshFor
<1>10. CASE /\ f.type = "decision" /\ client.session # 0 /\ f.epoch = client.epoch
            /\ client' = Accepted(k, f.decision) /\ Give(k, f.decision)
  <2>1. PICK d : d = f.decision
    OBVIOUS
  <2>2. IsDecision(i, 1) /\ d = Coming(i, 1) /\ d \in Decisions
    BY <1>1, <1>10, <2>1, ComingTyped DEF IsDecision, Coming
  <2>3. InPlace(i, 1) /\ d.epoch = f.epoch
    BY <1>1, <2>2 DEF Flight, Sent, InPlace
  <2>4. d.epoch = k.epoch /\ k.epoch = client.epoch /\ k.last = client.last
    BY <1>3, <1>10, <2>3 DEF Same
  <2>5. \A c \in Decisions : FreshFor(client, c) => FreshFor(k, c)
    BY <2>4 DEF FreshFor
  <2>6. \A c \in Decisions : FreshFor(client, c) /\ (d.n < c.n \/ Ordered(d, c)) => FreshFor(client, c)'
    BY <1>3, <1>10, <2>1, <2>2, <2>4, <2>5, TakenFresh
  <2>7. \A p \in Calls : \A c \in answer[p] : Ordered(d, c)
    BY <2>2, <2>3 DEF InPlace
  <2>8. \A m \in Nat : m > 1 /\ IsDecision(i, m) => d.n < Coming(i, m).n
    BY <2>2, <2>3 DEF InPlace
  <2>9. Newer'
    BY <1>4, <1>5, <1>6, <1>10, <2>6, <2>7, <2>8
  <2>10. FreshFor(k, d)
    BY <1>6, <1>10, <2>2, <2>5
  <2> QED
    BY <1>3, <1>10, <2>1, <2>2, <2>4, <2>9, <2>10, GivesNewer
<1> QED
  BY <1>3, <1>7, <1>8, <1>9, <1>10

LEMMA ChatNewer ==
  ASSUME ~Overtaking, Base, Flight, Newer, NEW p \in Calls, ChatAnswered(p)
  PROVE  /\ Newer'
         /\ \A n \in Npcs : applied'[n] # applied[n] => applied'[n] > applied[n]
<1>1. PICK d \in answer[p] :
        /\ client.session # 0 /\ d.epoch >= client.epoch
        /\ client' = Accepted(Adopted(client, d.epoch), d)
        /\ Give(Adopted(client, d.epoch), d)
  BY DEF ChatAnswered
<1>2. answer' = [answer EXCEPT ![p] = {}] /\ socks' = socks
  BY DEF ChatAnswered, link
<1> DEFINE k == Adopted(client, d.epoch)
<1>3. d \in Decisions /\ d.epoch \in 0 .. MaxEpochs
  BY ServiceNumbers, DecisionFields, Numbers DEF Epochs
<1>4. /\ k \in Clients /\ k.epoch = d.epoch
      /\ \/ k.epoch = client.epoch /\ k.last = client.last
         \/ k.epoch > client.epoch
  BY <1>1, <1>3, AdoptedTyped, BaseFacts, ServiceNumbers
<1> HIDE DEF k
<1>5. \A c \in Decisions : FreshFor(client, c) => FreshFor(k, c)
  BY <1>4, LaterFresh
<1>6. \A c \in Decisions : FreshFor(client, c) /\ Ordered(d, c) => FreshFor(client, c)'
  BY <1>1, <1>3, <1>4, <1>5, TakenFresh DEF k
<1>7. \A q \in Calls : \A c \in answer'[q] :
        c \in Decisions /\ Ordered(d, c) /\ FreshFor(client, c)
  BY <1>1, <1>2, BaseFacts, ServiceNumbers DEF Answers, Flight, Answered, Newer
<1>8. ASSUME NEW i \in Sockets, NEW m \in Nat, IsDecision(i, m)'
      PROVE  FreshFor(client, Coming(i, m))'
  <2>1. IsDecision(i, m) /\ Coming(i, m)' = Coming(i, m)
    BY <1>2, <1>8 DEF IsDecision, Coming, Arriving
  <2>2. PICK c \in Decisions : c = Coming(i, m)
    BY <2>1, ComingTyped
  <2>3. Ordered(d, c) /\ FreshFor(client, c)
    BY <1>1, <2>1, <2>2 DEF Flight, Sent, InPlace, Newer
  <2>4. FreshFor(client, c)'
    BY <1>6, <2>3
  <2> QED
    BY <2>1, <2>2, <2>4 DEF FreshFor
<1>9. Newer'
  BY <1>6, <1>7, <1>8 DEF Newer
<1>10. FreshFor(k, d)
  BY <1>1, <1>3, <1>5 DEF Newer
<1> QED
  BY <1>1, <1>3, <1>4, <1>9, <1>10, GivesNewer DEF k

LEMMA NewerStep ==
  ASSUME ~Overtaking, Base, Begun, Connected, Flight, Newer, [Next]_vars
  PROVE  /\ Newer'
         /\ \A n \in Npcs : applied'[n] # applied[n] => applied'[n] > applied[n]
<1>1. CASE Calm /\ Onward
  <2>1. client'.epoch \in Nat
    <3>1. Base'
      BY BaseStep
    <3>2. PICK k \in Clients : k = client'
      BY <3>1 DEF Base, TypeOK
    <3>3. k.epoch \in Nat
      BY ClientFields, Numbers
    <3> QED
      BY <3>2, <3>3
  <2> QED
    BY <1>1, <2>1, CalmNewer DEF Calm
<1>2. ASSUME NEW p \in Calls, ServiceAnswers(p)
      PROVE  Newer' /\ applied' = applied
  BY <1>2, AnswersNewer DEF ServiceAnswers
<1>3. ASSUME NEW i \in Sockets, ServicePushes(i)
      PROVE  Newer' /\ applied' = applied
  BY <1>3, PushNewer DEF ServicePushes
<1> QED
  BY <1>1, <1>2, <1>3, ReceiveNewer, ChatNewer, StepKinds

LEMMA AlwaysNewer ==
  ASSUME QuietStop, ~Overtaking
  PROVE  Spec => [](Flight /\ Newer)
<1>1. Init => Flight /\ Newer
  <2> SUFFICES ASSUME Init PROVE Flight /\ Newer
    OBVIOUS
  <2>1. /\ \A p \in Calls : answer[p] = {}
        /\ \A i \in Sockets : Arriving(i) = {}
        /\ \A n \in Npcs : applied[n] = 0
        /\ service.made = 0 /\ client.session = 0
    BY FreshSockets DEF Init, Arriving
  <2> QED
    BY <2>1 DEF Flight, Answered, Sent, Resets, IsDecision, IsReset, Newer
<1>2. Base /\ Begun /\ Connected /\ Flight /\ Newer /\ [Next]_vars => (Flight /\ Newer)'
  BY FlightStep, NewerStep
<1> QED
  BY <1>1, <1>2, AlwaysBase, AlwaysConnected, PTL DEF Spec

\* Where no answer overtakes a reset and the game disconnects between its calls, it gets
\* of each NPC's decisions each one at most once and none after a newer one: over both
\* transports, lost and reopened sockets, expired sessions and new epochs.
THEOREM DecisionsInOrder ==
  ASSUME QuietStop, ~Overtaking
  PROVE  Spec => InOrder
<1>1. Base /\ Begun /\ Connected /\ Flight /\ Newer /\ [Next]_vars =>
        [\A n \in Npcs : applied'[n] # applied[n] => applied'[n] > applied[n]]_vars
  BY NewerStep
<1> QED
  BY <1>1, AlwaysBase, AlwaysConnected, AlwaysNewer, PTL DEF Spec, InOrder
=============================================================================
