------------------------- MODULE RelayStream_proofs -------------------------
(***************************************************************************)
(* Proofs about RelayStream, for any number of attempts and callbacks: the *)
(* client's timers, and the order in which callbacks are delivered.        *)
(***************************************************************************)
EXTENDS RelayStream, TLAPS

(* What every method of the client preserves.  A client that was told to   *)
(* stop has nothing; otherwise a socket is awaited or connected, and an    *)
(* awaited one has its deadline.                                           *)
Sound(c) ==
  /\ c \in Client
  /\ c.timer => c.state = "reconnecting" /\ c.ws = 0 /\ c.pending = 0 /\ ~c.shuttingDown
  /\ c.state = "reconnecting" => c.timer
  /\ c.pending # 0 => c.deadline /\ c.ws = c.pending /\ ~c.shuttingDown
  /\ c.state = "connected" => c.ws # 0 /\ ~c.shuttingDown
  /\ c.ws # 0 => c.pending = c.ws \/ c.state = "connected"
  /\ Retry /\ c.attempt > 0 /\ ~c.shuttingDown
       => c.state = "connected" \/ c.pending # 0 \/ c.timer

(* A socket that is being opened belongs to the attempt that waits for it. *)
OpeningIsPending ==
  /\ sock \in [Socket -> {"none", "opening", "open", "closed"}]
  /\ client.ws # 0 /\ sock[client.ws] = "opening" => client.pending = client.ws

ClientInv ==
  /\ Sound(client)
  /\ OpeningIsPending
  /\ stopped = "no" => ~client.shuttingDown

(* What the parts of the methods do to the fields.                         *)
LEMMA ZeroIsNoSocket == 0 \in 0..MaxAttempts
  BY ClientAssumption

LEMMA SettleFields ==
  ASSUME NEW c \in Client
  PROVE  /\ Settle(c) \in Client /\ Settle(c).pending = 0 /\ Settle(c).deadline = FALSE
         /\ Settle(c).state = c.state /\ Settle(c).ws = c.ws /\ Settle(c).timer = c.timer
         /\ Settle(c).shuttingDown = c.shuttingDown /\ Settle(c).attempt = c.attempt
  BY ZeroIsNoSocket DEF Client, Settle

LEMMA CloseFields ==
  ASSUME NEW c \in Client
  PROVE  /\ CloseSocket(c) \in Client /\ CloseSocket(c).ws = 0
         /\ CloseSocket(c).pending = c.pending /\ CloseSocket(c).deadline = c.deadline
         /\ CloseSocket(c).state = c.state /\ CloseSocket(c).timer = c.timer
         /\ CloseSocket(c).shuttingDown = c.shuttingDown /\ CloseSocket(c).attempt = c.attempt
  BY ZeroIsNoSocket DEF Client, CloseSocket

LEMMA CleanupFields ==
  ASSUME NEW c \in Client
  PROVE  /\ Cleanup(c) \in Client /\ Cleanup(c).ws = 0 /\ Cleanup(c).pending = c.pending
         /\ Cleanup(c).deadline = FALSE /\ Cleanup(c).timer = FALSE
         /\ Cleanup(c).state = c.state
         /\ Cleanup(c).shuttingDown = c.shuttingDown /\ Cleanup(c).attempt = c.attempt
  <1> DEFINE d == [c EXCEPT !.timer = FALSE, !.deadline = FALSE, !.synchronized = FALSE]
  <1>1. /\ d \in Client /\ d.ws = c.ws /\ d.pending = c.pending /\ d.deadline = FALSE
        /\ d.timer = FALSE /\ d.state = c.state /\ d.shuttingDown = c.shuttingDown
        /\ d.attempt = c.attempt
    BY DEF Client
  <1>2. Cleanup(c) = CloseSocket(d)
    BY DEF Cleanup
  <1> HIDE DEF d
  <1> QED
    BY <1>1, <1>2, CloseFields

LEMMA ScheduleFields ==
  ASSUME NEW c \in Client
  PROVE  LET d == ScheduleReconnect(c)
         IN  /\ d \in Client /\ d.timer /\ d.ws = c.ws /\ d.pending = c.pending
             /\ d.deadline = c.deadline /\ d.shuttingDown = c.shuttingDown
             /\ d.attempt = c.attempt
             /\ d.state = IF c.timer THEN c.state ELSE "reconnecting"
  BY DEF Client, ConnectionState, ScheduleReconnect

LEMMA ScheduleAfterFailureFields ==
  ASSUME NEW c \in Client
  PROVE  LET d == ScheduleReconnectAfterFailure(c)
         IN  /\ d \in Client /\ d.ws = c.ws /\ d.pending = c.pending
             /\ d.deadline = c.deadline /\ d.shuttingDown = c.shuttingDown
             /\ d.attempt = c.attempt
             /\ IF c.shuttingDown \/ ~Retry
                THEN d.timer = c.timer /\ d.state = c.state
                ELSE d.timer /\ d.state = IF c.timer THEN c.state ELSE "reconnecting"
  BY ScheduleFields DEF ScheduleReconnectAfterFailure

LEMMA StateFields ==
  ASSUME NEW c \in Client, NEW x \in ConnectionState
  PROVE  LET d == [c EXCEPT !.state = x]
         IN  /\ d \in Client /\ d.state = x /\ d.ws = c.ws /\ d.pending = c.pending
             /\ d.deadline = c.deadline /\ d.timer = c.timer
             /\ d.shuttingDown = c.shuttingDown /\ d.attempt = c.attempt
  BY DEF Client

LEMMA StartFields ==
  ASSUME NEW c \in Client, c.attempt < MaxAttempts
  PROVE  LET d == StartConnect(c)
         IN  /\ d \in Client /\ d.state = "connecting" /\ d.ws = c.attempt + 1
             /\ d.pending = c.attempt + 1 /\ d.attempt = c.attempt + 1
             /\ d.deadline /\ ~d.timer /\ ~d.shuttingDown
  <1> DEFINE d == Cleanup(c)
  <1>1. c.attempt + 1 \in 0..MaxAttempts
    BY ClientAssumption DEF Client
  <1>2. d \in Client /\ ~d.timer
    BY CleanupFields
  <1> DEFINE n == c.attempt + 1
             e == [d EXCEPT !.shuttingDown = FALSE, !.state = "connecting", !.attempt = n]
             f == [e EXCEPT !.pending = n, !.deadline = TRUE, !.ws = n]
  <1>3. StartConnect(c) =
          [d EXCEPT !.shuttingDown = FALSE, !.state = "connecting",
                    !.attempt = n, !.pending = n, !.deadline = TRUE, !.ws = n]
    BY DEF StartConnect
  <1> HIDE DEF d, n
  <1>4. StartConnect(c) = f
    BY <1>2, <1>3 DEF Client
  <1>5. n \in 0..MaxAttempts
    BY <1>1 DEF n
  <1>6. /\ e \in Client /\ e.state = "connecting" /\ e.attempt = n /\ ~e.shuttingDown
        /\ ~e.timer
    BY <1>2, <1>5 DEF Client, ConnectionState
  <1> HIDE DEF e
  <1>7. /\ f \in Client /\ f.state = "connecting" /\ f.attempt = n /\ f.ws = n /\ f.pending = n
        /\ f.deadline /\ ~f.shuttingDown /\ ~f.timer
    BY <1>5, <1>6 DEF Client
  <1> QED
    BY <1>4, <1>7 DEF n

LEMMA StartIsSound ==
  ASSUME NEW c, Sound(c), c.attempt < MaxAttempts, c.pending = 0
  PROVE  /\ Sound(StartConnect(c)) /\ ~StartConnect(c).shuttingDown
         /\ StartConnect(c).ws = c.attempt + 1 /\ StartConnect(c).pending = c.attempt + 1
         /\ Sound(StartThrows(c)) /\ StartThrows(c).ws = 0 /\ ~StartThrows(c).shuttingDown
         /\ StartConnect(c).attempt = c.attempt + 1 /\ StartThrows(c).attempt = c.attempt + 1
  <1> c \in Client /\ c.attempt \in 0..MaxAttempts
    BY DEF Sound, Client
  <1> DEFINE d == [StartConnect(c) EXCEPT !.ws = 0]
             e == [Settle(d) EXCEPT !.state = "disconnected"]
  <1>1. d = CloseSocket(StartConnect(c))
    BY DEF CloseSocket
  <1>2. /\ d \in Client /\ d.ws = 0 /\ ~d.timer /\ ~d.shuttingDown /\ d.attempt = c.attempt + 1
    BY <1>1, StartFields, CloseFields
  <1>3. /\ Settle(d) \in Client /\ Settle(d).ws = 0 /\ Settle(d).pending = 0 /\ ~Settle(d).timer
        /\ ~Settle(d).shuttingDown /\ Settle(d).attempt = c.attempt + 1
    BY <1>2, SettleFields
  <1>4. /\ e \in Client /\ e.ws = 0 /\ e.pending = 0 /\ ~e.timer /\ ~e.shuttingDown
        /\ e.state = "disconnected" /\ e.attempt = c.attempt + 1
    BY <1>3, StateFields DEF ConnectionState
  <1>5. StartThrows(c) = ScheduleReconnectAfterFailure(e)
    BY DEF StartThrows
  <1> HIDE DEF d, e
  <1>6. /\ Sound(StartThrows(c)) /\ StartThrows(c).ws = 0 /\ ~StartThrows(c).shuttingDown
        /\ StartThrows(c).attempt = c.attempt + 1
    BY <1>4, <1>5, ScheduleAfterFailureFields DEF Sound
  <1>7. Sound(StartConnect(c))
    BY StartFields DEF Sound
  <1> QED
    BY <1>6, <1>7, StartFields

LEMMA TimeOutIsSound ==
  ASSUME NEW c, Sound(c), c.pending # 0
  PROVE  /\ Sound(TimeOut(c)) /\ TimeOut(c).ws = 0 /\ ~TimeOut(c).shuttingDown
         /\ TimeOut(c).attempt = c.attempt
  <1> c \in Client /\ ~c.timer /\ ~c.shuttingDown
    BY DEF Sound
  <1> DEFINE d == CloseSocket(Settle(c))
             e == [d EXCEPT !.state = "disconnected"]
  <1>1. /\ d \in Client /\ d.ws = 0 /\ d.pending = 0 /\ ~d.timer /\ ~d.shuttingDown
        /\ d.attempt = c.attempt
    <2>1. /\ Settle(c) \in Client /\ Settle(c).pending = 0 /\ ~Settle(c).timer
          /\ ~Settle(c).shuttingDown /\ Settle(c).attempt = c.attempt
      BY SettleFields
    <2> QED
      BY <2>1, CloseFields
  <1>2. /\ e \in Client /\ e.ws = 0 /\ e.pending = 0 /\ ~e.timer /\ ~e.shuttingDown
        /\ e.state = "disconnected" /\ e.attempt = c.attempt
    BY <1>1, StateFields DEF ConnectionState
  <1>3. TimeOut(c) = ScheduleReconnectAfterFailure(e)
    BY DEF TimeOut
  <1> HIDE DEF d, e
  <1> QED
    BY <1>2, <1>3, ScheduleAfterFailureFields DEF Sound

LEMMA DisconnectFields ==
  ASSUME NEW c \in Client
  PROVE  /\ Sound(DisconnectClient(c)) /\ DisconnectClient(c).ws = 0
         /\ DisconnectClient(c).shuttingDown /\ DisconnectClient(c).attempt = c.attempt
  <1> DEFINE d == Cleanup(Settle(c))
  <1>1. d \in Client /\ d.ws = 0 /\ d.pending = 0 /\ ~d.timer /\ d.attempt = c.attempt
    <2>1. Settle(c) \in Client /\ Settle(c).pending = 0 /\ Settle(c).attempt = c.attempt
      BY SettleFields
    <2> QED
      BY <2>1, CleanupFields
  <1>2. DisconnectClient(c) = [d EXCEPT !.shuttingDown = TRUE, !.state = "disconnected"]
    BY DEF DisconnectClient
  <1> HIDE DEF d
  <1> QED
    BY <1>1, <1>2 DEF Sound, Client, ConnectionState

LEMMA DisconnectIsSound ==
  ASSUME NEW c, Sound(c)
  PROVE  /\ Sound(DisconnectClient(c)) /\ DisconnectClient(c).ws = 0
         /\ Sound(HandleAuth(c, FALSE)) /\ HandleAuth(c, FALSE).ws = 0
         /\ DisconnectClient(c).attempt = c.attempt /\ HandleAuth(c, FALSE).attempt = c.attempt
  <1> DEFINE d == DisconnectClient(Settle(c))
  <1>1. c \in Client /\ Settle(c) \in Client /\ Settle(c).attempt = c.attempt
    BY SettleFields DEF Sound
  <1>2. d \in Client /\ Sound(d) /\ d.ws = 0 /\ d.shuttingDown /\ d.attempt = c.attempt
    BY <1>1, DisconnectFields DEF Sound
  <1>3. HandleAuth(c, FALSE) = d
    BY <1>2 DEF HandleAuth, ScheduleReconnectAfterFailure
  <1> QED
    BY <1>1, <1>2, <1>3, DisconnectFields

LEMMA LossIsSound ==
  ASSUME NEW c, Sound(c), c.ws # 0
  PROVE  /\ Sound(LoseSocket(c)) /\ LoseSocket(c).ws = 0
         /\ LoseSocket(c).shuttingDown = c.shuttingDown /\ LoseSocket(c).attempt = c.attempt
  <1> c \in Client /\ ~c.timer /\ ~c.shuttingDown
    BY DEF Sound
  <1> c.shuttingDown = FALSE
    BY DEF Client
  <1> DEFINE d == [c EXCEPT !.ws = 0]
             e == [d EXCEPT !.state = "disconnected"]
             g == HandleDisconnect(d)
  <1>1. d = CloseSocket(c)
    BY DEF CloseSocket
  <1>2. /\ d \in Client /\ d.ws = 0 /\ d.pending = c.pending /\ d.state = c.state
        /\ ~d.timer /\ ~d.shuttingDown /\ d.attempt = c.attempt
    BY <1>1, CloseFields
  <1>3. /\ e \in Client /\ e.ws = 0 /\ e.pending = c.pending /\ ~e.timer /\ ~e.shuttingDown
        /\ e.state = "disconnected" /\ e.attempt = c.attempt
    BY <1>2, StateFields DEF ConnectionState
  <1>4. g = IF c.state # "connected" THEN e ELSE ScheduleReconnect(e)
    BY <1>2 DEF HandleDisconnect
  <1>5. LoseSocket(c) = IF c.pending = 0 THEN g ELSE ScheduleReconnectAfterFailure(Settle(g))
    BY DEF LoseSocket
  <1> HIDE DEF d, e, g
  <1>6. /\ g \in Client /\ g.ws = 0 /\ g.pending = c.pending /\ ~g.shuttingDown
        /\ g.attempt = c.attempt
        /\ IF c.state # "connected" THEN g.state = "disconnected" /\ ~g.timer
                                   ELSE g.state = "reconnecting" /\ g.timer
    BY <1>3, <1>4, ScheduleFields
  <1>7. CASE c.pending = 0
    <2>1. c.state = "connected"
      BY <1>7 DEF Sound
    <2>2. LoseSocket(c) = g /\ g.state = "reconnecting" /\ g.timer /\ g.pending = 0
      BY <1>5, <1>6, <1>7, <2>1
    <2>3. g.shuttingDown = FALSE
      BY <1>6 DEF Client
    <2> QED
      BY <1>6, <2>2, <2>3 DEF Sound
  <1>8. CASE c.pending # 0
    <2>1. /\ Settle(g) \in Client /\ Settle(g).ws = 0 /\ Settle(g).pending = 0
          /\ ~Settle(g).shuttingDown /\ Settle(g).state = g.state /\ Settle(g).timer = g.timer
          /\ Settle(g).attempt = c.attempt
      BY <1>6, SettleFields
    <2>3. LoseSocket(c) = ScheduleReconnectAfterFailure(Settle(g))
      BY <1>5, <1>8
    <2> DEFINE h == Settle(g)
    <2>4. /\ IF h.timer THEN h.state = "reconnecting" ELSE h.state = "disconnected"
          /\ h \in Client /\ h.ws = 0 /\ h.pending = 0 /\ ~h.shuttingDown
          /\ h.attempt = c.attempt
      BY <1>6, <2>1
    <2> HIDE DEF h
    <2>5. LET r == ScheduleReconnectAfterFailure(h)
          IN  /\ r \in Client /\ r.ws = 0 /\ r.pending = 0 /\ ~r.shuttingDown
              /\ r.attempt = c.attempt
              /\ ~Retry \/ r.timer
              /\ IF r.timer THEN r.state = "reconnecting" ELSE r.state = "disconnected"
      BY <2>4, ScheduleAfterFailureFields
    <2>6. LoseSocket(c) = ScheduleReconnectAfterFailure(h)
      BY <2>3 DEF h
    <2>7. LoseSocket(c).shuttingDown = FALSE
      BY <2>5, <2>6 DEF Client
    <2> QED
      BY <2>5, <2>6, <2>7 DEF Sound
  <1> QED
    BY <1>7, <1>8

LEMMA OpenIsSound ==
  ASSUME NEW c, Sound(c), c.ws # 0, c.pending = c.ws
  PROVE  /\ Sound(HandleOpen(c)) /\ HandleOpen(c).ws = c.ws
         /\ HandleOpen(c).shuttingDown = c.shuttingDown /\ HandleOpen(c).attempt = c.attempt
  BY ClientAssumption DEF Sound, Client, ConnectionState, HandleOpen

LEMMA AuthIsSound ==
  ASSUME NEW c, Sound(c), c.ws # 0
  PROVE  /\ Sound(HandleAuth(c, TRUE)) /\ HandleAuth(c, TRUE).ws = c.ws
         /\ HandleAuth(c, TRUE).shuttingDown = c.shuttingDown
         /\ HandleAuth(c, TRUE).attempt = c.attempt
  <1> DEFINE d == [c EXCEPT !.state = "connected"]
  <1>1. c \in Client /\ ~c.timer /\ ~c.shuttingDown
    BY DEF Sound
  <1>2. /\ d \in Client /\ d.state = "connected" /\ d.ws = c.ws /\ ~d.timer /\ ~d.shuttingDown
        /\ d.attempt = c.attempt
    BY <1>1, StateFields DEF ConnectionState
  <1>3. HandleAuth(c, TRUE) = Settle(d)
    BY DEF HandleAuth
  <1> HIDE DEF d
  <1>4. /\ Settle(d) \in Client /\ Settle(d).state = "connected" /\ Settle(d).ws = c.ws
        /\ Settle(d).pending = 0 /\ ~Settle(d).timer /\ ~Settle(d).shuttingDown
        /\ Settle(d).attempt = c.attempt
    BY <1>2, SettleFields
  <1>5. Settle(d).shuttingDown = c.shuttingDown
    BY <1>1, <1>4 DEF Client
  <1> QED
    BY <1>3, <1>4, <1>5 DEF Sound

LEMMA SynchronizedIsSound ==
  ASSUME NEW c, Sound(c)
  PROVE  Sound([c EXCEPT !.synchronized = TRUE])
  BY ClientAssumption DEF Sound, Client, ConnectionState

LEMMA ClientInit == Init => ClientInv
  BY ClientAssumption
  DEF Init, ClientInv, Sound, OpeningIsPending, Client, ConnectionState, NewClient, Socket

LEMMA ClientStep == ClientInv /\ [Next]_vars => ClientInv'
  <1> SUFFICES ASSUME ClientInv, [Next]_vars PROVE ClientInv'
    OBVIOUS
  <1> client \in Client /\ client.ws \in 0..MaxAttempts /\ client.attempt \in 0..MaxAttempts
    BY DEF ClientInv, Sound, Client
  <1>1. CASE Attempt
    <2>1. CASE client' = StartConnect(client) /\ sock' = [Drop EXCEPT ![client.attempt + 1] = "opening"]
      BY <1>1, <2>1, StartIsSound, ClientAssumption
      DEF Attempt, ClientInv, OpeningIsPending, Drop, Socket
    <2>2. CASE client' = StartThrows(client) /\ sock' = Drop
      BY <1>1, <2>2, StartIsSound DEF Attempt, ClientInv, OpeningIsPending, Drop
    <2> QED
      BY <1>1, <2>1, <2>2 DEF Attempt
  <1>2. CASE DeadlineFires
    BY <1>2, TimeOutIsSound DEF DeadlineFires, ClientInv, OpeningIsPending, Drop
  <1>3. CASE Disconnect
    BY <1>3, DisconnectIsSound DEF Disconnect, ClientInv, OpeningIsPending, Drop
  <1>4. ASSUME NEW s \in Socket, Open(s) PROVE ClientInv'
    <2>1. client.ws # 0 /\ client.pending = client.ws
      BY <1>4, ClientAssumption DEF Open, ClientInv, OpeningIsPending, Socket
    <2> QED
      BY <1>4, <2>1, OpenIsSound DEF Open, ClientInv, OpeningIsPending
  <1>5. ASSUME NEW s \in Socket, Break(s) PROVE ClientInv'
    BY <1>5 DEF Break, ClientInv, OpeningIsPending
  <1>6. ASSUME NEW s \in Socket, Closed(s) PROVE ClientInv'
    BY <1>6, LossIsSound, ClientAssumption DEF Closed, ClientInv, OpeningIsPending, Socket
  <1>7. ASSUME NEW s \in Socket, ReceiveInfo(s) \/ ReceiveCallback(s) PROVE ClientInv'
    BY <1>7 DEF ReceiveInfo, ReceiveCallback, clientVars, ClientInv, OpeningIsPending
  <1>8. ASSUME NEW s \in Socket, ReceiveAuth(s) PROVE ClientInv'
    <2>1. client.ws # 0 /\ sock[client.ws] # "opening"
      BY <1>8, ClientAssumption DEF ReceiveAuth, Take, Socket
    <2>2. CASE client' = HandleAuth(client, TRUE) /\ UNCHANGED <<sock, stopped>>
      BY <2>1, <2>2, AuthIsSound DEF ClientInv, OpeningIsPending
    <2>3. CASE client' = HandleAuth(client, FALSE) /\ sock' = Drop /\ stopped' = "auth"
      BY <2>3, DisconnectIsSound DEF ClientInv, OpeningIsPending, Drop
    <2> QED
      BY <1>8, <2>2, <2>3 DEF ReceiveAuth
  <1>9. ASSUME NEW s \in Socket, ReceiveSynchronized(s) PROVE ClientInv'
    BY <1>9, SynchronizedIsSound DEF ReceiveSynchronized, ClientInv, OpeningIsPending, Client
  <1>10. ASSUME NEW s \in Socket, Accept(s) \/ Authenticate(s) \/ EndSession(s) PROVE ClientInv'
    BY <1>10 DEF Accept, Authenticate, EndSession, clientVars, ClientInv, OpeningIsPending
  <1>11. CASE Webhook \/ Flush
    BY <1>11 DEF Webhook, Flush, clientVars, ClientInv, OpeningIsPending
  <1>12. CASE ServerRestarts
    BY <1>12, ClientAssumption DEF ServerRestarts, ClientInv, OpeningIsPending, Socket
  <1>13. CASE UNCHANGED vars
    BY <1>13 DEF vars, ClientInv, OpeningIsPending
  <1> QED
    BY <1>1, <1>2, <1>3, <1>4, <1>5, <1>6, <1>7, <1>8, <1>9, <1>10, <1>11, <1>12, <1>13
    DEF Next, SocketStep, Receive, Connect, ReconnectFires

THEOREM ClientInvariance == Spec => []ClientInv
  BY ClientInit, ClientStep, PTL DEF Spec

(* With retries, for any number of attempts: a client that was not told to *)
(* stop is connected, awaits an attempt with a deadline, or has a          *)
(* reconnect scheduled.                                                    *)
THEOREM ClientIsNeverStranded == Spec => []NeverStranded
  <1>1. ClientInv => NeverStranded
    BY DEF ClientInv, Sound, NeverStranded, Resting
  <1> QED
    BY <1>1, ClientInvariance, PTL

(* For any number of attempts, a scheduled reconnect never coexists with a *)
(* socket, an attempt or a deliberate stop.                                *)
THEOREM TimerIsIdle == Spec => []TimerMeansIdle
  <1>1. ClientInv => TimerMeansIdle
    BY DEF ClientInv, Sound, TimerMeansIdle
  <1> QED
    BY <1>1, ClientInvariance, PTL

----------------------------------------------------------------------------
(* The order of the callbacks.  Every callback is somewhere on the way     *)
(* from the buffer over the client's socket to the harness, and whatever   *)
(* is further on its way was broadcast earlier.                            *)
IsCallback(m) == m.type = "callback"

StreamTypes ==
  /\ down \in [Socket -> Seq(Message)]
  /\ buffer \in Seq(Callback)
  /\ sent \in 0..MaxCallbacks
  /\ delivered \in Seq(Callback)

Increasing ==
  /\ \A i, j \in DOMAIN delivered : i < j => delivered[i] < delivered[j]
  /\ \A i, j \in DOMAIN buffer : i < j => buffer[i] < buffer[j]
  /\ \A s \in Socket : \A i, j \in DOMAIN down[s] :
        i < j /\ IsCallback(down[s][i]) /\ IsCallback(down[s][j]) => down[s][i].id < down[s][j].id

Successive ==
  /\ \A k \in DOMAIN buffer : buffer[k] <= sent
  /\ \A i \in DOMAIN delivered : delivered[i] <= sent
  /\ \A i \in DOMAIN delivered, k \in DOMAIN buffer : delivered[i] < buffer[k]
  /\ \A s \in Socket : \A i \in DOMAIN down[s] :
        IsCallback(down[s][i]) =>
          down[s][i].id <= sent /\ \A k \in DOMAIN buffer : down[s][i].id < buffer[k]
  /\ client.ws # 0 =>
        \A i \in DOMAIN delivered, j \in DOMAIN down[client.ws] :
          IsCallback(down[client.ws][j]) => delivered[i] < down[client.ws][j].id

FreshIsEmpty ==
  /\ client.ws <= client.attempt
  /\ \A s \in Socket : s > client.attempt => sock[s] = "none" /\ down[s] = <<>>

OrderInv == ClientInv /\ StreamTypes /\ Increasing /\ Successive /\ FreshIsEmpty

LEMMA ClientTypes ==
  ASSUME ClientInv
  PROVE  client \in Client /\ client.ws \in 0..MaxAttempts /\ client.attempt \in 0..MaxAttempts
  BY DEF ClientInv, Sound, Client

LEMMA AttemptFrame ==
  ASSUME ClientInv, FreshIsEmpty, Attempt
  PROVE  /\ client'.attempt = client.attempt + 1 /\ client'.attempt \in Socket
         /\ client'.ws \in {0, client'.attempt}
         /\ \A s \in Socket : s > client'.attempt => sock'[s] = "none"
  <1>1. /\ Sound(client) /\ client.attempt \in 0..MaxAttempts /\ client.ws \in 0..MaxAttempts
        /\ client.attempt < MaxAttempts /\ client.pending = 0
    BY ClientTypes DEF ClientInv, Attempt
  <1>2. /\ client'.attempt = client.attempt + 1 /\ client'.ws \in {0, client.attempt + 1}
    BY <1>1, StartIsSound DEF Attempt
  <1>3. \A s \in Socket : s > client.attempt + 1 => Drop[s] = "none"
    BY <1>1 DEF Drop, FreshIsEmpty, Socket
  <1>4. \A s \in Socket : s > client.attempt + 1 => sock'[s] = "none"
    <2>1. CASE sock' = Drop
      BY <1>3, <2>1
    <2>2. CASE sock' = [Drop EXCEPT ![client.attempt + 1] = "opening"]
      <3>1. \A s \in Socket : s > client.attempt + 1 => s # client.attempt + 1
        BY <1>1 DEF Socket
      <3> QED
        BY <1>3, <2>2, <3>1 DEF Drop
    <2> QED
      BY <2>1, <2>2 DEF Attempt
  <1> QED
    BY <1>1, <1>2, <1>4, ClientAssumption DEF Socket

(* Every other step keeps the attempt; it may drop the socket.             *)
Keeps ==
  /\ client'.attempt = client.attempt
  /\ client'.ws \in {0, client.ws}
  /\ \A s \in Socket : s > client.attempt => sock'[s] = "none"

LEMMA DropFrame ==
  ASSUME ClientInv, FreshIsEmpty, sock' = Drop
  PROVE  \A s \in Socket : s > client.attempt => sock'[s] = "none"
  BY ClientTypes DEF Drop, FreshIsEmpty, Socket

LEMMA ClientFrame ==
  ASSUME ClientInv, FreshIsEmpty, [Next]_vars
  PROVE  Attempt \/ Keeps
  <1> client \in Client /\ client.ws \in 0..MaxAttempts /\ client.attempt \in 0..MaxAttempts
    BY ClientTypes
  <1> Sound(client)
    BY DEF ClientInv
  <1>2. CASE DeadlineFires
    BY <1>2, TimeOutIsSound, DropFrame DEF DeadlineFires, Keeps
  <1>3. CASE Disconnect
    BY <1>3, DisconnectIsSound, DropFrame DEF Disconnect, Keeps
  <1>4. ASSUME NEW s \in Socket, Open(s) PROVE Keeps
    <2>1. client.ws # 0 /\ client.pending = client.ws
      BY <1>4, ClientAssumption DEF Open, ClientInv, OpeningIsPending, Socket
    <2>2. s <= client.attempt
      BY <1>4 DEF Open, FreshIsEmpty, Socket
    <2>3. client'.attempt = client.attempt /\ client'.ws = client.ws
      BY <1>4, <2>1, OpenIsSound DEF Open
    <2> QED
      BY <1>4, <2>2, <2>3 DEF Open, Keeps, FreshIsEmpty, Socket
  <1>5. ASSUME NEW s \in Socket, Break(s) PROVE Keeps
    BY <1>5 DEF Break, Keeps, FreshIsEmpty, Socket
  <1>6. ASSUME NEW s \in Socket, Closed(s) PROVE Keeps
    BY <1>6, LossIsSound, ClientAssumption DEF Closed, Keeps, FreshIsEmpty, Socket
  <1>7. ASSUME NEW s \in Socket, ReceiveInfo(s) \/ ReceiveCallback(s) PROVE Keeps
    BY <1>7 DEF ReceiveInfo, ReceiveCallback, clientVars, Keeps, FreshIsEmpty
  <1>8. ASSUME NEW s \in Socket, ReceiveAuth(s) PROVE Keeps
    <2>1. client.ws # 0
      BY <1>8, ClientAssumption DEF ReceiveAuth, Take, Socket
    <2>2. CASE client' = HandleAuth(client, TRUE) /\ UNCHANGED <<sock, stopped>>
      BY <2>1, <2>2, AuthIsSound DEF Keeps, FreshIsEmpty
    <2>3. CASE client' = HandleAuth(client, FALSE) /\ sock' = Drop /\ stopped' = "auth"
      BY <2>3, DisconnectIsSound, DropFrame DEF Keeps
    <2> QED
      BY <1>8, <2>2, <2>3 DEF ReceiveAuth
  <1>9. ASSUME NEW s \in Socket, ReceiveSynchronized(s) PROVE Keeps
    BY <1>9 DEF ReceiveSynchronized, Keeps, FreshIsEmpty, Client
  <1>10. ASSUME NEW s \in Socket, Accept(s) \/ Authenticate(s) \/ EndSession(s) PROVE Keeps
    BY <1>10 DEF Accept, Authenticate, EndSession, clientVars, Keeps, FreshIsEmpty
  <1>11. CASE Webhook \/ Flush
    BY <1>11 DEF Webhook, Flush, clientVars, Keeps, FreshIsEmpty
  <1>12. CASE ServerRestarts
    BY <1>12 DEF ServerRestarts, Keeps, FreshIsEmpty
  <1>13. CASE UNCHANGED vars
    BY <1>13 DEF vars, Keeps, FreshIsEmpty
  <1> QED
    BY <1>2, <1>3, <1>4, <1>5, <1>6, <1>7, <1>8, <1>9, <1>10, <1>11, <1>12, <1>13
    DEF Next, SocketStep, Receive, Connect, ReconnectFires

LEMMA MessageFacts ==
  /\ \A t \in Control : Plain(t) \in Message /\ ~IsCallback(Plain(t))
  /\ \A cb \in Callback : Live(cb) \in Message /\ IsCallback(Live(cb)) /\ Live(cb).id = cb
  /\ \A m \in Message : IsCallback(m) => m.id \in Callback
  BY DEF Control, Plain, Live, Message, IsCallback

(* Every callback on a wire was on it before, in the same order.           *)
Embeds ==
  \A r \in Socket :
    /\ \A i \in DOMAIN down'[r] : IsCallback(down'[r][i]) =>
         \E x \in DOMAIN down[r] : down'[r][i] = down[r][x]
    /\ \A i, j \in DOMAIN down'[r] :
         i < j /\ IsCallback(down'[r][i]) /\ IsCallback(down'[r][j]) =>
           \E x, y \in DOMAIN down[r] :
             x < y /\ down'[r][i] = down[r][x] /\ down'[r][j] = down[r][y]

LEMMA EmbedStep ==
  ASSUME OrderInv, ClientInv', Keeps, Embeds, down' \in [Socket -> Seq(Message)],
         \A s \in Socket : s > client.attempt => down'[s] = <<>>,
         sent' = sent, delivered' = delivered, buffer' \in {buffer, <<>>}
  PROVE  OrderInv'
  <1> USE DEF OrderInv
  <1>1. StreamTypes'
    <2>1. buffer \in Seq(Callback) /\ <<>> \in Seq(Callback)
      BY DEF StreamTypes
    <2> QED
      BY <2>1 DEF StreamTypes
  <1>2. Increasing'
    <2>1. \A s \in Socket : \A i, j \in DOMAIN down'[s] :
            i < j /\ IsCallback(down'[s][i]) /\ IsCallback(down'[s][j])
              => down'[s][i].id < down'[s][j].id
      BY DEF Embeds, Increasing
    <2>2. \A i, j \in DOMAIN buffer' : i < j => buffer'[i] < buffer'[j]
      BY DEF Increasing
    <2> QED
      BY <2>1, <2>2 DEF Increasing
  <1>3. Successive'
    <2>1. \A k \in DOMAIN buffer' : k \in DOMAIN buffer /\ buffer'[k] = buffer[k]
      OBVIOUS
    <2>2. \A s \in Socket : \A i \in DOMAIN down'[s] :
            IsCallback(down'[s][i]) =>
              /\ down'[s][i].id <= sent'
              /\ \A k \in DOMAIN buffer' : down'[s][i].id < buffer'[k]
      BY <2>1 DEF Embeds, Successive
    <2>3. client'.ws # 0 =>
            \A i \in DOMAIN delivered', j \in DOMAIN down'[client'.ws] :
              IsCallback(down'[client'.ws][j]) => delivered'[i] < down'[client'.ws][j].id
      <3>1. client'.ws # 0 => client'.ws = client.ws /\ client.ws \in Socket
        BY ClientTypes, ClientAssumption DEF Keeps, Socket
      <3> QED
        BY <3>1 DEF Embeds, Successive
    <2> QED
      BY <2>1, <2>2, <2>3 DEF Successive
  <1>4. FreshIsEmpty'
    BY ClientTypes DEF FreshIsEmpty, Keeps
  <1> QED
    BY <1>1, <1>2, <1>3, <1>4

LEMMA SameEmbeds ==
  ASSUME down' = down
  PROVE  Embeds
  BY DEF Embeds

LEMMA TailEmbeds ==
  ASSUME StreamTypes, NEW s \in Socket, down[s] # <<>>, down' = [down EXCEPT ![s] = Tail(@)]
  PROVE  /\ Embeds
         /\ down' \in [Socket -> Seq(Message)]
         /\ \A r \in Socket : down[r] = <<>> => down'[r] = <<>>
  <1>1. /\ down[s] \in Seq(Message) /\ Tail(down[s]) \in Seq(Message)
        /\ Len(Tail(down[s])) = Len(down[s]) - 1 /\ Len(down[s]) \in Nat
        /\ DOMAIN Tail(down[s]) = 1..Len(Tail(down[s])) /\ DOMAIN down[s] = 1..Len(down[s])
    BY DEF StreamTypes
  <1>2. ASSUME NEW i \in DOMAIN Tail(down[s])
        PROVE  i \in Nat /\ i + 1 \in DOMAIN down[s] /\ Tail(down[s])[i] = down[s][i + 1]
    BY <1>1
  <1>3. down'[s] = Tail(down[s]) /\ \A r \in Socket : r # s => down'[r] = down[r]
    BY DEF StreamTypes
  <1>4. ASSUME NEW i \in DOMAIN down'[s], NEW j \in DOMAIN down'[s], i < j
        PROVE  \E x, y \in DOMAIN down[s] :
                 x < y /\ down'[s][i] = down[s][x] /\ down'[s][j] = down[s][y]
    <2>1. /\ i + 1 \in DOMAIN down[s] /\ j + 1 \in DOMAIN down[s] /\ i + 1 < j + 1
          /\ down'[s][i] = down[s][i + 1] /\ down'[s][j] = down[s][j + 1]
      <3>1. i \in DOMAIN Tail(down[s]) /\ j \in DOMAIN Tail(down[s])
        BY <1>3
      <3>2. /\ i \in Nat /\ i + 1 \in DOMAIN down[s] /\ Tail(down[s])[i] = down[s][i + 1]
            /\ j \in Nat /\ j + 1 \in DOMAIN down[s] /\ Tail(down[s])[j] = down[s][j + 1]
        BY <1>2, <3>1
      <3>3. i + 1 < j + 1
        BY <1>4, <3>2
      <3> QED
        BY <1>3, <3>2, <3>3
    <2> QED
      BY <2>1
  <1>5. \A i \in DOMAIN down'[s] : \E x \in DOMAIN down[s] : down'[s][i] = down[s][x]
    BY <1>2, <1>3
  <1>6. Embeds
    BY <1>3, <1>4, <1>5 DEF Embeds
  <1>7. down' \in [Socket -> Seq(Message)]
    BY <1>1 DEF StreamTypes
  <1> QED
    BY <1>3, <1>6, <1>7

LEMMA SendEmbeds ==
  ASSUME StreamTypes, NEW s \in Socket, NEW q \in Seq(Message),
         \A i \in 1..Len(q) : ~IsCallback(q[i]), down' = Send(s, q)
  PROVE  /\ Embeds
         /\ down' \in [Socket -> Seq(Message)]
         /\ \A r \in Socket : sock[r] = "none" => down'[r] = down[r]
  <1>1. CASE down' = down
    BY <1>1, SameEmbeds DEF StreamTypes
  <1>2. CASE sock[s] \in {"opening", "open"} /\ down' = [down EXCEPT ![s] = @ \o q]
    <2>1. /\ down[s] \in Seq(Message) /\ down[s] \o q \in Seq(Message)
          /\ Len(down[s] \o q) = Len(down[s]) + Len(q) /\ Len(down[s]) \in Nat /\ Len(q) \in Nat
          /\ DOMAIN (down[s] \o q) = 1..Len(down[s] \o q) /\ DOMAIN down[s] = 1..Len(down[s])
      BY DEF StreamTypes
    <2>2. ASSUME NEW i \in DOMAIN (down[s] \o q), IsCallback((down[s] \o q)[i])
          PROVE  i \in DOMAIN down[s] /\ (down[s] \o q)[i] = down[s][i]
      <3>1. CASE i \in 1..Len(down[s])
        BY <2>1, <3>1
      <3>2. CASE i \notin 1..Len(down[s])
        <4>1. i - Len(down[s]) \in 1..Len(q) /\ (down[s] \o q)[i] = q[i - Len(down[s])]
          BY <2>1, <3>2
        <4> QED
          BY <2>2, <4>1
      <3> QED
        BY <3>1, <3>2
    <2>3. down'[s] = down[s] \o q /\ \A r \in Socket : r # s => down'[r] = down[r]
      BY <1>2 DEF StreamTypes
    <2>4. Embeds
      <3>1. ASSUME NEW i \in DOMAIN down'[s], IsCallback(down'[s][i])
            PROVE  i \in DOMAIN down[s] /\ down'[s][i] = down[s][i]
        BY <2>2, <2>3, <3>1
      <3>2. /\ \A i \in DOMAIN down'[s] : IsCallback(down'[s][i]) =>
                 \E x \in DOMAIN down[s] : down'[s][i] = down[s][x]
            /\ \A i, j \in DOMAIN down'[s] :
                 i < j /\ IsCallback(down'[s][i]) /\ IsCallback(down'[s][j]) =>
                   \E x, y \in DOMAIN down[s] :
                     x < y /\ down'[s][i] = down[s][x] /\ down'[s][j] = down[s][y]
        BY <3>1
      <3>3. ASSUME NEW r \in Socket, r # s
            PROVE  down'[r] = down[r]
        BY <2>3, <3>3
      <3> QED
        BY <3>2, <3>3 DEF Embeds
    <2>5. down' \in [Socket -> Seq(Message)]
      BY <1>2, <2>1 DEF StreamTypes
    <2> QED
      BY <1>2, <2>3, <2>4, <2>5
  <1> QED
    BY <1>1, <1>2 DEF Send

LEMMA OrderInit == Init => OrderInv
  <1> SUFFICES ASSUME Init PROVE OrderInv
    OBVIOUS
  <1>1. ClientInv
    BY ClientInit
  <1>2. StreamTypes
    BY StreamAssumption DEF Init, StreamTypes
  <1>3. Increasing /\ Successive
    BY DEF Init, Increasing, Successive
  <1>4. FreshIsEmpty
    BY ClientAssumption DEF Init, FreshIsEmpty, NewClient
  <1> QED
    BY <1>1, <1>2, <1>3, <1>4 DEF OrderInv

LEMMA AttemptKeepsOrder ==
  ASSUME OrderInv, ClientInv', Attempt
  PROVE  OrderInv'
  <1> USE DEF OrderInv
  <1>1. UNCHANGED <<down, buffer, sent, delivered>>
    BY DEF Attempt, serverVars, callbackVars, historyVars
  <1>2. /\ client'.attempt = client.attempt + 1 /\ client'.attempt \in Socket
        /\ client'.ws \in {0, client'.attempt} /\ client.attempt \in Nat
        /\ \A s \in Socket : s > client'.attempt => sock'[s] = "none"
    BY AttemptFrame, ClientTypes
  <1>3. StreamTypes' /\ Increasing'
    BY <1>1 DEF StreamTypes, Increasing
  <1>4. FreshIsEmpty'
    BY <1>1, <1>2 DEF FreshIsEmpty, Socket
  <1>5. client'.ws # 0 => down[client'.ws] = <<>>
    BY <1>2 DEF FreshIsEmpty, Socket
  <1>6. Successive'
    BY <1>1, <1>5 DEF Successive
  <1> QED
    BY <1>3, <1>4, <1>6

LEMMA DeliveryKeepsOrder ==
  ASSUME OrderInv, ClientInv', Keeps, NEW s \in Socket, ReceiveCallback(s)
  PROVE  OrderInv'
  <1> USE DEF OrderInv
  <1> DEFINE m == Head(down[s])
  <1>1. /\ client.ws = s /\ down[s] # <<>> /\ down' = [down EXCEPT ![s] = Tail(@)]
        /\ UNCHANGED <<buffer, sent>> /\ UNCHANGED <<client, sock>>
    BY DEF ReceiveCallback, Take, serverVars, callbackVars, clientVars
  <1>2. /\ Embeds /\ down' \in [Socket -> Seq(Message)]
        /\ \A r \in Socket : down[r] = <<>> => down'[r] = <<>>
    BY <1>1, TailEmbeds
  <1>3. \A r \in Socket : r > client.attempt => down'[r] = <<>>
    BY <1>2 DEF FreshIsEmpty
  <1>4. CASE delivered' = delivered
    BY <1>1, <1>2, <1>3, <1>4, EmbedStep
  <1>5. CASE delivered' = Append(delivered, m.id)
    <2>1. /\ down[s] \in Seq(Message) /\ m = down[s][1] /\ 1 \in DOMAIN down[s]
          /\ m \in Message /\ IsCallback(m) /\ m.id \in Callback
      BY <1>1, MessageFacts DEF StreamTypes, ReceiveCallback, IsCallback
    <2>2. /\ delivered' \in Seq(Callback) /\ delivered \in Seq(Callback)
          /\ DOMAIN delivered' = 1..(Len(delivered) + 1) /\ DOMAIN delivered = 1..Len(delivered)
          /\ Len(delivered) \in Nat /\ delivered'[Len(delivered) + 1] = m.id
          /\ \A i \in DOMAIN delivered : delivered'[i] = delivered[i]
      BY <1>5, <2>1 DEF StreamTypes
    <2>3. \A i \in DOMAIN delivered' : i \in DOMAIN delivered \/ delivered'[i] = m.id
      BY <2>2
    <2>4. \A i \in DOMAIN delivered : delivered[i] < m.id
      BY <1>1, <2>1, ClientAssumption DEF Successive, Socket
    <2>5. m.id <= sent /\ \A k \in DOMAIN buffer : m.id < buffer[k]
      BY <2>1 DEF Successive
    <2>6. \A j \in DOMAIN down'[s] : IsCallback(down'[s][j]) => m.id < down'[s][j].id
      <3>1. /\ Len(Tail(down[s])) = Len(down[s]) - 1 /\ Len(down[s]) \in Nat
            /\ DOMAIN Tail(down[s]) = 1..Len(Tail(down[s])) /\ DOMAIN down[s] = 1..Len(down[s])
            /\ down'[s] = Tail(down[s])
        BY <1>1, <2>1 DEF StreamTypes
      <3>2. ASSUME NEW j \in DOMAIN Tail(down[s])
            PROVE  /\ j + 1 \in DOMAIN down[s] /\ 1 < j + 1
                   /\ Tail(down[s])[j] = down[s][j + 1]
        BY <2>1, <3>1
      <3> QED
        BY <2>1, <3>1, <3>2 DEF Increasing
    <2>7. /\ \A r \in Socket : \A i, j \in DOMAIN down'[r] :
              i < j /\ IsCallback(down'[r][i]) /\ IsCallback(down'[r][j])
                => down'[r][i].id < down'[r][j].id
          /\ \A r \in Socket : \A i \in DOMAIN down'[r] :
              IsCallback(down'[r][i]) =>
                down'[r][i].id <= sent /\ \A k \in DOMAIN buffer : down'[r][i].id < buffer[k]
      <3>1. ASSUME NEW r \in Socket, NEW i \in DOMAIN down'[r], NEW j \in DOMAIN down'[r],
                   i < j, IsCallback(down'[r][i]), IsCallback(down'[r][j])
            PROVE  down'[r][i].id < down'[r][j].id
        <4>1. PICK x \in DOMAIN down[r], y \in DOMAIN down[r] :
                x < y /\ down'[r][i] = down[r][x] /\ down'[r][j] = down[r][y]
          BY <1>2, <3>1 DEF Embeds
        <4> QED
          BY <3>1, <4>1 DEF Increasing
      <3>2. ASSUME NEW r \in Socket, NEW i \in DOMAIN down'[r], IsCallback(down'[r][i])
            PROVE  down'[r][i].id <= sent /\ \A k \in DOMAIN buffer : down'[r][i].id < buffer[k]
        <4>1. PICK x \in DOMAIN down[r] : down'[r][i] = down[r][x]
          BY <1>2, <3>2 DEF Embeds
        <4> QED
          BY <3>2, <4>1 DEF Successive
      <3> QED
        BY <3>1, <3>2
    <2>8. \A i, j \in DOMAIN delivered' : i < j => delivered'[i] < delivered'[j]
      <3>1. ASSUME NEW i \in DOMAIN delivered', NEW j \in DOMAIN delivered', i < j
            PROVE  delivered'[i] < delivered'[j]
        <4>1. i \in DOMAIN delivered
          BY <2>2, <3>1
        <4>2. CASE j \in DOMAIN delivered
          BY <2>2, <3>1, <4>1, <4>2 DEF Increasing
        <4>3. CASE delivered'[j] = m.id
          BY <2>2, <2>4, <4>1, <4>3
        <4> QED
          BY <2>3, <4>2, <4>3
      <3> QED
        BY <3>1
    <2>9. Increasing'
      BY <1>1, <2>7, <2>8 DEF Increasing
    <2>10. \A i \in DOMAIN delivered' :
             /\ delivered'[i] <= sent
             /\ \A k \in DOMAIN buffer : delivered'[i] < buffer[k]
      BY <2>2, <2>3, <2>5 DEF Successive
    <2>11. \A i \in DOMAIN delivered', j \in DOMAIN down'[s] :
             IsCallback(down'[s][j]) => delivered'[i] < down'[s][j].id
      <3>1. \A i \in DOMAIN delivered, j \in DOMAIN down'[s] :
              IsCallback(down'[s][j]) => delivered[i] < down'[s][j].id
        BY <1>1, <1>2, ClientAssumption DEF Embeds, Successive, Socket
      <3> QED
        BY <2>2, <2>3, <2>6, <3>1
    <2>12. Successive'
      BY <1>1, <2>7, <2>10, <2>11 DEF Successive
    <2>13. StreamTypes' /\ FreshIsEmpty'
      BY <1>1, <1>2, <1>3, <2>2 DEF StreamTypes, FreshIsEmpty
    <2> QED
      BY <2>9, <2>12, <2>13
  <1> QED
    BY <1>4, <1>5 DEF ReceiveCallback

LEMMA WebhookKeepsOrder ==
  ASSUME OrderInv, ClientInv', Webhook
  PROVE  OrderInv'
  <1> USE DEF OrderInv
  <1>1. UNCHANGED <<client, sock, down, delivered>>
    BY DEF Webhook, clientVars, historyVars
  <1>2. /\ sent' = sent + 1 /\ sent \in Nat /\ sent' \in 0..MaxCallbacks /\ sent' \in Callback
        /\ buffer \in Seq(Callback) /\ buffer' = Append(buffer, sent')
    BY StreamAssumption DEF Webhook, StreamTypes, Callback
  <1>3. /\ buffer' \in Seq(Callback) /\ Len(buffer) \in Nat
        /\ DOMAIN buffer' = 1..(Len(buffer) + 1) /\ DOMAIN buffer = 1..Len(buffer)
        /\ buffer'[Len(buffer) + 1] = sent'
        /\ \A k \in DOMAIN buffer : buffer'[k] = buffer[k]
    BY <1>2
  <1>4. \A k \in DOMAIN buffer' : k \in DOMAIN buffer \/ k = Len(buffer) + 1
    BY <1>3
  <1>5. StreamTypes'
    BY <1>1, <1>2, <1>3 DEF StreamTypes
  <1>6. /\ \A k \in DOMAIN buffer : buffer[k] < sent' /\ buffer[k] \in Nat
        /\ \A i \in DOMAIN delivered : delivered[i] < sent' /\ delivered[i] \in Nat
    <2>1. /\ \A k \in DOMAIN buffer : buffer[k] \in Callback
          /\ \A i \in DOMAIN delivered : delivered[i] \in Callback
      BY DEF StreamTypes
    <2>2. Callback \subseteq Nat
      BY DEF Callback
    <2>3. /\ \A k \in DOMAIN buffer : buffer[k] <= sent
          /\ \A i \in DOMAIN delivered : delivered[i] <= sent
      BY DEF Successive
    <2>4. \A n \in Nat : n <= sent => n < sent'
      BY <1>2
    <2>5. \A k \in DOMAIN buffer : buffer[k] < sent' /\ buffer[k] \in Nat
      BY <2>1, <2>2, <2>3, <2>4
    <2>6. \A i \in DOMAIN delivered : delivered[i] < sent' /\ delivered[i] \in Nat
      BY <2>1, <2>2, <2>3, <2>4
    <2> QED
      BY <2>5, <2>6
  <1>7. \A s \in Socket : \A i \in DOMAIN down[s] :
          IsCallback(down[s][i]) => down[s][i].id < sent' /\ down[s][i].id \in Nat
    <2>1. \A s \in Socket : \A i \in DOMAIN down[s] : down[s][i] \in Message
      BY DEF StreamTypes
    <2> QED
      BY <1>2, <2>1, MessageFacts DEF Successive, Callback
  <1>8. Increasing'
    <2>1. ASSUME NEW i \in DOMAIN buffer', NEW j \in DOMAIN buffer', i < j
          PROVE  buffer'[i] < buffer'[j]
      <3>1. i \in DOMAIN buffer
        BY <1>3, <2>1
      <3> QED
        BY <1>3, <1>4, <1>6, <2>1, <3>1 DEF Increasing
    <2> QED
      BY <1>1, <2>1 DEF Increasing
  <1>9. Successive'
    <2>1. \A k \in DOMAIN buffer' : buffer'[k] <= sent'
      BY <1>2, <1>3, <1>4, <1>6
    <2>2. \A i \in DOMAIN delivered' :
            delivered'[i] <= sent' /\ \A k \in DOMAIN buffer' : delivered'[i] < buffer'[k]
      BY <1>1, <1>2, <1>3, <1>4, <1>6 DEF Successive
    <2>3. \A s \in Socket : \A i \in DOMAIN down'[s] :
            IsCallback(down'[s][i]) =>
              down'[s][i].id <= sent' /\ \A k \in DOMAIN buffer' : down'[s][i].id < buffer'[k]
      BY <1>1, <1>2, <1>3, <1>4, <1>7 DEF Successive
    <2> QED
      BY <1>1, <2>1, <2>2, <2>3 DEF Successive
  <1>10. FreshIsEmpty'
    BY <1>1 DEF FreshIsEmpty
  <1> QED
    BY <1>5, <1>8, <1>9, <1>10

LEMMA BatchFacts ==
  ASSUME StreamTypes
  PROVE  /\ Batch \in Seq(Message) /\ Len(Batch) = Len(buffer) /\ Len(buffer) \in Nat
         /\ DOMAIN buffer = 1..Len(buffer)
         /\ \A k \in 1..Len(buffer) : Batch[k] = Live(buffer[k]) /\ buffer[k] \in Callback
                                       /\ IsCallback(Batch[k]) /\ Batch[k].id = buffer[k]
  <1>1. /\ buffer \in Seq(Callback) /\ Len(buffer) \in Nat /\ DOMAIN buffer = 1..Len(buffer)
        /\ \A k \in 1..Len(buffer) : buffer[k] \in Callback
    BY DEF StreamTypes
  <1>2. \A k \in 1..Len(buffer) : Live(buffer[k]) \in Message
    BY <1>1, MessageFacts
  <1>3. Batch \in [1..Len(buffer) -> Message]
    BY <1>1, <1>2 DEF Batch
  <1>4. Batch \in Seq(Message) /\ Len(Batch) = Len(buffer)
    BY <1>1, <1>3
  <1> QED
    BY <1>1, <1>4, MessageFacts DEF Batch

LEMMA FlushKeepsOrder ==
  ASSUME OrderInv, ClientInv', Flush
  PROVE  OrderInv'
  <1> USE DEF OrderInv
  <1>1. UNCHANGED <<client, sock, sent, delivered>> /\ buffer' = <<>>
    BY DEF Flush, clientVars, callbackVars, historyVars
  <1>2. ASSUME NEW s \in Socket
        PROVE  \/ down'[s] = down[s]
               \/ down'[s] = down[s] \o Batch /\ sock[s] # "none"
    BY DEF Flush, Send, StreamTypes
  <1>3. ASSUME NEW s \in Socket, down'[s] = down[s] \o Batch
        PROVE  /\ down'[s] \in Seq(Message)
               /\ \A i \in DOMAIN down'[s] :
                    \/ i \in DOMAIN down[s] /\ i <= Len(down[s]) /\ down'[s][i] = down[s][i]
                    \/ \E k \in DOMAIN buffer :
                         /\ i = Len(down[s]) + k
                         /\ IsCallback(down'[s][i]) /\ down'[s][i].id = buffer[k]
    <2>1. /\ down[s] \in Seq(Message) /\ Len(down[s]) \in Nat
          /\ DOMAIN down[s] = 1..Len(down[s]) /\ down[s] \o Batch \in Seq(Message)
          /\ DOMAIN (down[s] \o Batch) = 1..(Len(down[s]) + Len(buffer))
      <3>1. down[s] \in Seq(Message) /\ Batch \in Seq(Message) /\ Len(Batch) = Len(buffer)
        BY BatchFacts DEF StreamTypes
      <3>2. Len(down[s] \o Batch) = Len(down[s]) + Len(Batch) /\ down[s] \o Batch \in Seq(Message)
        BY <3>1
      <3> QED
        BY <3>1, <3>2
    <2>2. ASSUME NEW i \in 1..(Len(down[s]) + Len(buffer))
          PROVE  \/ i \in 1..Len(down[s]) /\ (down[s] \o Batch)[i] = down[s][i]
                 \/ /\ i - Len(down[s]) \in 1..Len(buffer)
                    /\ (down[s] \o Batch)[i] = Batch[i - Len(down[s])]
      BY <2>1, BatchFacts
    <2>3. ASSUME NEW i \in DOMAIN down'[s]
          PROVE  \/ i \in DOMAIN down[s] /\ i <= Len(down[s]) /\ down'[s][i] = down[s][i]
                 \/ \E k \in DOMAIN buffer :
                      /\ i = Len(down[s]) + k
                      /\ IsCallback(down'[s][i]) /\ down'[s][i].id = buffer[k]
      <3>1. i \in 1..(Len(down[s]) + Len(buffer))
        BY <1>3, <2>1
      <3>2. CASE i \in 1..Len(down[s]) /\ (down[s] \o Batch)[i] = down[s][i]
        BY <1>3, <2>1, <3>2
      <3>3. CASE /\ i - Len(down[s]) \in 1..Len(buffer)
                 /\ (down[s] \o Batch)[i] = Batch[i - Len(down[s])]
        <4> DEFINE k == i - Len(down[s])
        <4>1. k \in 1..Len(buffer) /\ i = Len(down[s]) + k
          BY <2>1, <3>1, <3>3
        <4>2. k \in DOMAIN buffer /\ IsCallback(down'[s][i]) /\ down'[s][i].id = buffer[k]
          BY <1>3, <3>3, <4>1, BatchFacts
        <4> HIDE DEF k
        <4> QED
          BY <4>1, <4>2
      <3> QED
        BY <2>2, <3>1, <3>2, <3>3
    <2> QED
      BY <1>3, <2>1, <2>3
  <1>4. StreamTypes'
    <2>1. DOMAIN down' = Socket /\ down' = [s \in Socket |-> down'[s]]
      BY DEF Flush, StreamTypes
    <2>2. \A s \in Socket : down'[s] \in Seq(Message)
      BY <1>2, <1>3 DEF StreamTypes
    <2>3. <<>> \in Seq(Callback)
      OBVIOUS
    <2> QED
      BY <1>1, <2>1, <2>2, <2>3 DEF StreamTypes
  <1>5. ASSUME NEW s \in Socket, NEW i \in DOMAIN down'[s], NEW j \in DOMAIN down'[s], i < j,
               IsCallback(down'[s][i]), IsCallback(down'[s][j])
        PROVE  down'[s][i].id < down'[s][j].id
    <2>1. CASE down'[s] = down[s]
      BY <1>5, <2>1 DEF Increasing
    <2>2. CASE down'[s] = down[s] \o Batch
      <3>0. Len(down[s]) \in Nat /\ Len(buffer) \in Nat /\ DOMAIN buffer = 1..Len(buffer)
        BY BatchFacts DEF StreamTypes
      <3>1. CASE i \in DOMAIN down[s] /\ down'[s][i] = down[s][i]
        <4>1. CASE j \in DOMAIN down[s] /\ down'[s][j] = down[s][j]
          BY <1>5, <3>1, <4>1 DEF Increasing
        <4>2. CASE \E k \in DOMAIN buffer : down'[s][j].id = buffer[k]
          BY <1>5, <3>1, <4>2 DEF Successive
        <4> QED
          BY <1>3, <2>2, <4>1, <4>2
      <3>2. ASSUME NEW k \in DOMAIN buffer, i = Len(down[s]) + k, down'[s][i].id = buffer[k]
            PROVE  down'[s][i].id < down'[s][j].id
        <4>1. ~(j <= Len(down[s])) \/ j \notin Nat
          BY <1>5, <3>0, <3>2
        <4>2. j \notin DOMAIN down[s]
          BY <1>5, <3>0, <3>2 DEF StreamTypes
        <4>3. PICK l \in DOMAIN buffer : j = Len(down[s]) + l /\ down'[s][j].id = buffer[l]
          BY <1>3, <2>2, <4>2
        <4>4. k < l
          BY <1>5, <3>0, <3>2, <4>3
        <4> QED
          BY <3>2, <4>3, <4>4 DEF Increasing
      <3> QED
        BY <1>3, <2>2, <3>1, <3>2
    <2> QED
      BY <1>2, <2>1, <2>2
  <1>6. Increasing'
    BY <1>1, <1>5 DEF Increasing
  <1>7. ASSUME NEW s \in Socket, NEW i \in DOMAIN down'[s], IsCallback(down'[s][i])
        PROVE  /\ down'[s][i].id <= sent
               /\ client.ws = s => \A d \in DOMAIN delivered : delivered[d] < down'[s][i].id
    <2>1. client.ws = s => client.ws # 0
      BY ClientAssumption DEF Socket
    <2>2. CASE i \in DOMAIN down[s] /\ down'[s][i] = down[s][i]
      BY <1>7, <2>1, <2>2 DEF Successive
    <2>3. CASE \E k \in DOMAIN buffer : down'[s][i].id = buffer[k]
      BY <2>3 DEF Successive
    <2> QED
      BY <1>2, <1>3, <2>2, <2>3
  <1>8. Successive'
    <2>1. client.ws # 0 => client.ws \in Socket
      BY ClientTypes, ClientAssumption DEF Socket
    <2>2. \A d \in DOMAIN delivered : delivered[d] <= sent
      BY DEF Successive
    <2>3. DOMAIN buffer' = {}
      BY <1>1
    <2>4. client.ws # 0 =>
            \A d \in DOMAIN delivered, j \in DOMAIN down'[client.ws] :
              IsCallback(down'[client.ws][j]) => delivered[d] < down'[client.ws][j].id
      BY <1>7, <2>1
    <2>5. \A s \in Socket : \A i \in DOMAIN down'[s] : IsCallback(down'[s][i]) => down'[s][i].id <= sent
      BY <1>7
    <2> QED
      BY <1>1, <2>2, <2>3, <2>4, <2>5 DEF Successive
  <1>9. FreshIsEmpty'
    BY <1>1, <1>2 DEF FreshIsEmpty
  <1> QED
    BY <1>4, <1>6, <1>8, <1>9

LEMMA OrderStep == OrderInv /\ [Next]_vars => OrderInv'
  <1> SUFFICES ASSUME OrderInv, [Next]_vars PROVE OrderInv'
    OBVIOUS
  <1> USE DEF OrderInv
  <1>0. ClientInv' /\ (Attempt \/ Keeps)
    BY ClientStep, ClientFrame
  <1>1. CASE Attempt
    BY <1>0, <1>1, AttemptKeepsOrder
  <1>2. ASSUME Keeps, UNCHANGED <<down, sent, delivered>>, buffer' \in {buffer, <<>>}
        PROVE  OrderInv'
    <2>1. /\ Embeds /\ down' \in [Socket -> Seq(Message)]
          /\ \A s \in Socket : s > client.attempt => down'[s] = <<>>
      BY <1>2, SameEmbeds DEF StreamTypes, FreshIsEmpty
    <2> QED
      BY <1>0, <1>2, <2>1, EmbedStep
  <1>3. ASSUME NEW s \in Socket, Keeps, Take(s), delivered' = delivered
        PROVE  OrderInv'
    <2>1. /\ down[s] # <<>> /\ down' = [down EXCEPT ![s] = Tail(@)]
          /\ sent' = sent /\ buffer' = buffer
      BY <1>3 DEF Take, serverVars, callbackVars
    <2>2. /\ Embeds /\ down' \in [Socket -> Seq(Message)]
          /\ \A r \in Socket : down[r] = <<>> => down'[r] = <<>>
      BY <2>1, TailEmbeds
    <2>3. \A r \in Socket : r > client.attempt => down'[r] = <<>>
      BY <2>2 DEF FreshIsEmpty
    <2> QED
      BY <1>0, <1>3, <2>1, <2>2, <2>3, EmbedStep
  <1>4. ASSUME NEW s \in Socket, Keeps, Accept(s) \/ Authenticate(s)
        PROVE  OrderInv'
    <2> DEFINE q1 == <<Plain("connected")>>
               q2 == <<Plain("accepted"), Plain("snapshot"), Plain("synchronized")>>
               q3 == <<Plain("rejected")>>
    <2>1. \A q \in {q1, q2, q3} : q \in Seq(Message) /\ \A i \in 1..Len(q) : ~IsCallback(q[i])
      <3>1. q1 \in Seq(Message) /\ \A i \in 1..Len(q1) : ~IsCallback(q1[i])
        BY MessageFacts DEF Control
      <3>2. q2 \in Seq(Message) /\ \A i \in 1..Len(q2) : ~IsCallback(q2[i])
        BY MessageFacts DEF Control
      <3>3. q3 \in Seq(Message) /\ \A i \in 1..Len(q3) : ~IsCallback(q3[i])
        BY MessageFacts DEF Control
      <3> QED
        BY <3>1, <3>2, <3>3
    <2>2. /\ UNCHANGED <<buffer, sent, delivered>>
          /\ \E q \in {q1, q2, q3} : down' = Send(s, q)
      BY <1>4 DEF Accept, Authenticate, callbackVars, historyVars
    <2> HIDE DEF q1, q2, q3
    <2>3. /\ Embeds /\ down' \in [Socket -> Seq(Message)]
          /\ \A r \in Socket : sock[r] = "none" => down'[r] = down[r]
      BY <2>1, <2>2, SendEmbeds
    <2>4. \A r \in Socket : r > client.attempt => down'[r] = <<>>
      BY <2>3 DEF FreshIsEmpty
    <2> QED
      BY <1>0, <1>4, <2>2, <2>3, <2>4, EmbedStep
  <1>5. CASE Keeps
    <2>1. CASE DeadlineFires \/ Disconnect \/ ServerRestarts \/ UNCHANGED vars
      BY <1>2, <1>5, <2>1
      DEF DeadlineFires, Disconnect, ServerRestarts, vars, serverVars, callbackVars, historyVars
    <2>2. ASSUME NEW s \in Socket, Open(s) \/ Break(s) \/ Closed(s) \/ EndSession(s) PROVE OrderInv'
      BY <1>2, <1>5, <2>2
      DEF Open, Break, Closed, EndSession, serverVars, callbackVars, historyVars
    <2>3. ASSUME NEW s \in Socket, Receive(s) PROVE OrderInv'
      <3>1. CASE ReceiveCallback(s)
        BY <1>0, <1>5, <3>1, DeliveryKeepsOrder
      <3>2. CASE ReceiveInfo(s) \/ ReceiveAuth(s) \/ ReceiveSynchronized(s)
        BY <1>3, <1>5, <3>2 DEF ReceiveInfo, ReceiveAuth, ReceiveSynchronized, historyVars
      <3> QED
        BY <2>3, <3>1, <3>2 DEF Receive
    <2>4. CASE Webhook
      BY <1>0, <2>4, WebhookKeepsOrder
    <2>5. CASE Flush
      BY <1>0, <2>5, FlushKeepsOrder
    <2> QED
      BY <1>1, <1>4, <1>5, <2>1, <2>2, <2>3, <2>4, <2>5
      DEF Next, SocketStep, Connect, ReconnectFires
  <1> QED
    BY <1>0, <1>1, <1>5

(* For any number of attempts and callbacks, over reconnects, batches and  *)
(* restarts of the server: the callbacks reach the harness in the order in *)
(* which they were broadcast, and none twice.                              *)
THEOREM DeliveredInOrder == Spec => []InOrderOnce
  <1>1. OrderInv => InOrderOnce
    BY DEF OrderInv, Increasing, InOrderOnce
  <1> QED
    BY <1>1, OrderInit, OrderStep, PTL DEF Spec

----------------------------------------------------------------------------
(* The marker that ends the snapshot.  On the wire of the client's socket  *)
(* it stands before every callback, until the client has seen it; a        *)
(* session that may be sent callbacks has put it there.                    *)
Marker == Plain("synchronized")
HasMarker(q) == \E j \in DOMAIN q : q[j] = Marker
MarkerFirst(q) ==
  \A i \in DOMAIN q : IsCallback(q[i]) => \E j \in DOMAIN q : j < i /\ q[j] = Marker

Alive == client.ws # 0 /\ sock[client.ws] \in {"opening", "open"}

Guarded == client.ws # 0 /\ ~client.synchronized => MarkerFirst(down[client.ws])

Prepared ==
  Alive /\ session[client.ws] = "connected" =>
    client.synchronized \/ HasMarker(down[client.ws])

SessionNeedsSocket ==
  /\ session \in [Socket -> {"none", "connecting", "connected", "error"}]
  /\ \A s \in Socket : sock[s] = "none" => session[s] = "none"

MarkInv ==
  /\ OrderInv
  /\ Guarded
  /\ Prepared
  /\ SessionNeedsSocket
  /\ NothingIgnored

LEMMA MarkerFacts ==
  /\ Marker \in Message /\ ~IsCallback(Marker)
  /\ \A cb \in Callback : Live(cb) # Marker
  BY MessageFacts DEF Marker, Control

LEMMA TailMarks ==
  ASSUME NEW q \in Seq(Message), q # <<>>, Head(q) # Marker
  PROVE  /\ MarkerFirst(q) => MarkerFirst(Tail(q)) /\ ~IsCallback(Head(q))
         /\ HasMarker(q) => HasMarker(Tail(q))
  <1>1. /\ Head(q) = q[1] /\ Len(q) \in Nat /\ Len(q) > 0 /\ Len(Tail(q)) = Len(q) - 1
        /\ DOMAIN q = 1..Len(q) /\ DOMAIN Tail(q) = 1..(Len(q) - 1)
        /\ \A i \in 1..(Len(q) - 1) : Tail(q)[i] = q[i + 1]
    OBVIOUS
  <1>2. ASSUME NEW j \in DOMAIN q, q[j] = Marker
        PROVE  j - 1 \in DOMAIN Tail(q) /\ Tail(q)[j - 1] = Marker
    <2>1. j # 1
      BY <1>1, <1>2
    <2>2. j - 1 \in 1..(Len(q) - 1) /\ (j - 1) + 1 = j
      BY <1>1, <2>1
    <2> QED
      BY <1>1, <1>2, <2>2
  <1>3. ASSUME MarkerFirst(q)
        PROVE  MarkerFirst(Tail(q)) /\ ~IsCallback(Head(q))
    <2>1. ASSUME IsCallback(Head(q)) PROVE FALSE
      <3>1. PICK j \in DOMAIN q : j < 1 /\ q[j] = Marker
        BY <1>1, <1>3, <2>1 DEF MarkerFirst
      <3> QED
        BY <1>1, <3>1
    <2>2. ASSUME NEW i \in DOMAIN Tail(q), IsCallback(Tail(q)[i])
          PROVE  \E j \in DOMAIN Tail(q) : j < i /\ Tail(q)[j] = Marker
      <3>1. i + 1 \in DOMAIN q /\ IsCallback(q[i + 1]) /\ i \in Nat
        BY <1>1, <2>2
      <3>2. PICK j \in DOMAIN q : j < i + 1 /\ q[j] = Marker
        BY <1>3, <3>1 DEF MarkerFirst
      <3>3. j - 1 < i /\ j - 1 \in DOMAIN Tail(q) /\ Tail(q)[j - 1] = Marker
        BY <1>1, <1>2, <3>1, <3>2
      <3> QED
        BY <3>3
    <2> QED
      BY <2>1, <2>2 DEF MarkerFirst
  <1> QED
    BY <1>2, <1>3 DEF HasMarker

LEMMA ConcatFacts ==
  ASSUME NEW q \in Seq(Message), NEW r \in Seq(Message)
  PROVE  /\ DOMAIN q \subseteq DOMAIN (q \o r)
         /\ \A i \in DOMAIN q : (q \o r)[i] = q[i] /\ i \in Nat /\ i <= Len(q)
         /\ \A i \in DOMAIN r : Len(q) + i \in DOMAIN (q \o r) /\ (q \o r)[Len(q) + i] = r[i]
         /\ \A i \in DOMAIN (q \o r) :
              i \in DOMAIN q \/ \E k \in DOMAIN r : i = Len(q) + k /\ (q \o r)[i] = r[k]
  <1>1. /\ Len(q) \in Nat /\ Len(r) \in Nat /\ DOMAIN q = 1..Len(q) /\ DOMAIN r = 1..Len(r)
        /\ q \o r \in Seq(Message) /\ Len(q \o r) = Len(q) + Len(r)
        /\ DOMAIN (q \o r) = 1..(Len(q) + Len(r))
    OBVIOUS
  <1>2. \A i \in 1..(Len(q) + Len(r)) :
          (q \o r)[i] = IF i <= Len(q) THEN q[i] ELSE r[i - Len(q)]
    BY <1>1
  <1>3. ASSUME NEW i \in 1..(Len(q) + Len(r)), i \notin 1..Len(q)
        PROVE  i - Len(q) \in 1..Len(r) /\ i = Len(q) + (i - Len(q)) /\ ~(i <= Len(q))
    BY <1>1, <1>3
  <1>4. \A i \in DOMAIN (q \o r) :
          i \in DOMAIN q \/ \E k \in DOMAIN r : i = Len(q) + k /\ (q \o r)[i] = r[k]
    BY <1>1, <1>2, <1>3
  <1>5. ASSUME NEW i \in DOMAIN r
        PROVE  Len(q) + i \in DOMAIN (q \o r) /\ (q \o r)[Len(q) + i] = r[i]
    <2>1. /\ Len(q) + i \in 1..(Len(q) + Len(r)) /\ ~(Len(q) + i <= Len(q))
          /\ (Len(q) + i) - Len(q) = i
      BY <1>1
    <2> QED
      BY <1>1, <1>2, <2>1
  <1>6. \A i \in DOMAIN q : (q \o r)[i] = q[i] /\ i \in Nat /\ i <= Len(q) /\ i \in DOMAIN (q \o r)
    BY <1>1, <1>2
  <1> QED
    BY <1>4, <1>5, <1>6

LEMMA ConcatMarks ==
  ASSUME NEW q \in Seq(Message), NEW r \in Seq(Message)
  PROVE  /\ MarkerFirst(q) /\ (HasMarker(q) \/ \A k \in DOMAIN r : ~IsCallback(r[k]))
              => MarkerFirst(q \o r)
         /\ HasMarker(q) \/ HasMarker(r) => HasMarker(q \o r)
  <1>1. ASSUME MarkerFirst(q), HasMarker(q) \/ \A k \in DOMAIN r : ~IsCallback(r[k])
        PROVE  MarkerFirst(q \o r)
    <2> SUFFICES ASSUME NEW i \in DOMAIN (q \o r), IsCallback((q \o r)[i])
                 PROVE  \E j \in DOMAIN (q \o r) : j < i /\ (q \o r)[j] = Marker
      BY DEF MarkerFirst
    <2>1. CASE i \in DOMAIN q
      <3>1. PICK j \in DOMAIN q : j < i /\ q[j] = Marker
        BY <1>1, <2>1, ConcatFacts DEF MarkerFirst
      <3> QED
        BY <3>1, ConcatFacts
    <2>2. ASSUME NEW k \in DOMAIN r, i = Len(q) + k, (q \o r)[i] = r[k]
          PROVE  \E j \in DOMAIN (q \o r) : j < i /\ (q \o r)[j] = Marker
      <3>1. PICK j \in DOMAIN q : q[j] = Marker
        BY <1>1, <2>2 DEF HasMarker
      <3>2. Len(q) \in Nat /\ k \in 1..Len(r) /\ Len(r) \in Nat
        OBVIOUS
      <3>3. j < i
        BY <2>2, <3>2, ConcatFacts
      <3> QED
        BY <3>1, <3>3, ConcatFacts
    <2> QED
      BY <2>1, <2>2, ConcatFacts
  <1>2. ASSUME HasMarker(q) PROVE HasMarker(q \o r)
    BY <1>2, ConcatFacts DEF HasMarker
  <1>3. ASSUME HasMarker(r) PROVE HasMarker(q \o r)
    <2>1. PICK k \in DOMAIN r : r[k] = Marker
      BY <1>3 DEF HasMarker
    <2>2. Len(q) + k \in DOMAIN (q \o r) /\ (q \o r)[Len(q) + k] = Marker
      BY <2>1, ConcatFacts
    <2> QED
      BY <2>2 DEF HasMarker
  <1> QED
    BY <1>1, <1>2, <1>3

LEMMA WireType ==
  ASSUME OrderInv, client.ws # 0
  PROVE  client.ws \in Socket /\ down[client.ws] \in Seq(Message)
  BY ClientTypes, ClientAssumption DEF OrderInv, StreamTypes, Socket

LEMMA MarkInit == Init => MarkInv
  <1> SUFFICES ASSUME Init PROVE MarkInv
    OBVIOUS
  <1> QED
    BY OrderInit DEF MarkInv, Guarded, Prepared, Alive, SessionNeedsSocket, NothingIgnored,
                     Init, NewClient

(* A step that leaves the client's socket alone, or loses it.              *)
Untouched ==
  client'.ws # 0 =>
    /\ client'.ws = client.ws
    /\ client'.synchronized = client.synchronized
    /\ down'[client.ws] = down[client.ws]
    /\ Alive' /\ session'[client.ws] = "connected"
         => Alive /\ session[client.ws] = "connected"

LEMMA UntouchedKeepsMarks ==
  ASSUME MarkInv, OrderInv', Untouched, SessionNeedsSocket', ignored' = ignored
  PROVE  MarkInv'
  <1>1. Guarded' /\ Prepared'
    BY DEF MarkInv, Untouched, Guarded, Prepared, Alive
  <1> QED
    BY <1>1 DEF MarkInv, NothingIgnored

LEMMA AttemptKeepsMarks ==
  ASSUME MarkInv, OrderInv', Attempt
  PROVE  MarkInv'
  <1>1. /\ OrderInv /\ ClientInv /\ FreshIsEmpty
        /\ UNCHANGED <<down, session, ignored>>
    BY DEF MarkInv, OrderInv, Attempt, serverVars, historyVars
  <1>2. /\ client'.attempt = client.attempt + 1 /\ client'.attempt \in Socket
        /\ client'.ws \in {0, client'.attempt} /\ client.attempt \in Nat
    BY <1>1, AttemptFrame, ClientTypes
  <1>3. client'.ws # 0 =>
          /\ client'.ws \in Socket /\ down'[client'.ws] = <<>> /\ session'[client'.ws] = "none"
    BY <1>1, <1>2 DEF FreshIsEmpty, MarkInv, SessionNeedsSocket, Socket
  <1>4. Guarded' /\ Prepared'
    <2>1. MarkerFirst(<<>>)
      BY DEF MarkerFirst
    <2>2. Guarded'
      BY <1>3, <2>1 DEF Guarded
    <2>3. Prepared'
      BY <1>3 DEF Prepared, Alive
    <2> QED
      BY <2>2, <2>3
  <1>5. \A s \in Socket : sock'[s] = "none" => sock[s] = "none"
    <2>1. \A s \in Socket : Drop[s] = "none" => sock[s] = "none"
      BY DEF Drop
    <2>2. DOMAIN Drop = Socket
      BY DEF Drop
    <2>3. CASE sock' = [Drop EXCEPT ![client.attempt + 1] = "opening"]
      BY <2>1, <2>2, <2>3
    <2> QED
      BY <2>1, <2>3 DEF Attempt
  <1> QED
    BY <1>1, <1>4, <1>5 DEF MarkInv, SessionNeedsSocket, NothingIgnored

LEMMA TakeKeepsMarks ==
  ASSUME MarkInv, OrderInv', NEW s \in Socket, Take(s), Head(down[s]) # Marker,
         client'.ws \in {0, s}, client'.ws # 0 => client'.synchronized = client.synchronized,
         sock' = sock, ignored' = ignored
  PROVE  MarkInv'
  <1>1. /\ client.ws = s /\ s # 0 /\ down[s] \in Seq(Message) /\ down[s] # <<>>
        /\ down'[s] = Tail(down[s]) /\ session' = session
    BY ClientAssumption DEF Take, MarkInv, OrderInv, StreamTypes, serverVars, Socket
  <1>2. Guarded'
    BY <1>1, TailMarks DEF MarkInv, Guarded
  <1>3. Prepared'
    BY <1>1, TailMarks DEF MarkInv, Prepared, Alive
  <1> QED
    BY <1>1, <1>2, <1>3 DEF MarkInv, SessionNeedsSocket, NothingIgnored

LEMMA SendKeepsMarks ==
  ASSUME MarkInv, OrderInv', NEW s \in Socket, NEW q \in Seq(Message), down' = Send(s, q),
         \A i \in DOMAIN q : ~IsCallback(q[i]),
         client' = client, sock' = sock, ignored' = ignored, SessionNeedsSocket',
         NEW x, session' = [session EXCEPT ![s] = x],
         x = "connected" => HasMarker(q)
  PROVE  MarkInv'
  <1> USE DEF MarkInv, OrderInv, StreamTypes
  <1>1. CASE client.ws # s
    <2>1. client.ws # 0 => down'[client.ws] = down[client.ws] /\ session'[client.ws] = session[client.ws]
      BY <1>1, WireType DEF Send
    <2> QED
      BY <2>1, UntouchedKeepsMarks DEF Untouched, Alive
  <1>2. CASE client.ws = s /\ sock[s] \in {"opening", "open"}
    <2>1. down[s] \in Seq(Message) /\ down'[s] = down[s] \o q
      BY <1>2 DEF Send
    <2>2. Guarded'
      BY <1>2, <2>1, ConcatMarks DEF Guarded
    <2>3. Prepared'
      <3>1. CASE x = "connected"
        BY <1>2, <2>1, <3>1, ConcatMarks DEF Prepared
      <3>2. CASE x # "connected"
        BY <1>2, <2>1, <3>2 DEF Prepared, Alive, SessionNeedsSocket
      <3> QED
        BY <3>1, <3>2
    <2> QED
      BY <2>2, <2>3 DEF NothingIgnored
  <1>3. CASE client.ws = s /\ sock[s] \notin {"opening", "open"}
    <2>1. down' = down
      BY <1>3 DEF Send
    <2> QED
      BY <1>3, <2>1 DEF Guarded, Prepared, Alive, NothingIgnored
  <1> QED
    BY <1>1, <1>2, <1>3

LEMMA FlushKeepsMarks ==
  ASSUME MarkInv, OrderInv', Flush
  PROVE  MarkInv'
  <1> USE DEF MarkInv, OrderInv
  <1>1. UNCHANGED <<client, sock, session, ignored>>
    BY DEF Flush, clientVars, historyVars
  <1>2. SessionNeedsSocket'
    BY <1>1 DEF SessionNeedsSocket
  <1>3. CASE client.ws # 0 /\ Alive /\ session[client.ws] = "connected"
    <2>1. /\ client.ws \in Socket /\ down[client.ws] \in Seq(Message) /\ Batch \in Seq(Message)
          /\ down'[client.ws] = down[client.ws] \o Batch
      BY <1>3, WireType, BatchFacts DEF Flush, Ready, Send, Alive, StreamTypes
    <2>2. client.synchronized \/ HasMarker(down[client.ws])
      BY <1>3 DEF Prepared
    <2>3. Guarded'
      BY <1>1, <2>1, <2>2, ConcatMarks DEF Guarded
    <2>4. Prepared'
      BY <1>1, <2>1, <2>2, ConcatMarks DEF Prepared
    <2> QED
      BY <1>1, <1>2, <2>3, <2>4 DEF NothingIgnored
  <1>4. CASE ~(client.ws # 0 /\ Alive /\ session[client.ws] = "connected")
    <2>1. client.ws # 0 => down'[client.ws] = down[client.ws]
      BY <1>4, WireType DEF Flush, Ready, Send, Alive
    <2> QED
      BY <1>1, <1>2, <2>1, UntouchedKeepsMarks DEF Untouched, Alive
  <1> QED
    BY <1>3, <1>4

LEMMA SessionsKeepSockets ==
  ASSUME MarkInv, [Next]_vars, ~Attempt
  PROVE  SessionNeedsSocket'
  <1> USE DEF MarkInv, OrderInv, ClientInv, OpeningIsPending, SessionNeedsSocket
  <1>1. CASE session' = session /\ \A s \in Socket : sock'[s] = "none" => sock[s] = "none"
    BY <1>1
  <1>2. \A s \in Socket : Drop[s] = "none" => sock[s] = "none"
    BY DEF Drop
  <1>3. CASE DeadlineFires \/ Disconnect \/ Webhook \/ Flush \/ UNCHANGED vars
    BY <1>1, <1>2, <1>3 DEF DeadlineFires, Disconnect, Webhook, Flush, vars, serverVars, clientVars
  <1>4. ASSUME NEW s \in Socket, Open(s) \/ Break(s) \/ Closed(s) PROVE SessionNeedsSocket'
    BY <1>1, <1>4 DEF Open, Break, Closed, serverVars
  <1>5. ASSUME NEW s \in Socket, Receive(s) PROVE SessionNeedsSocket'
    BY <1>1, <1>2, <1>5
    DEF Receive, ReceiveInfo, ReceiveAuth, ReceiveSynchronized, ReceiveCallback, Take,
        clientVars, serverVars
  <1>6. ASSUME NEW s \in Socket, Accept(s) \/ Authenticate(s) \/ EndSession(s)
        PROVE  SessionNeedsSocket'
    BY <1>6 DEF Accept, Authenticate, EndSession, clientVars
  <1>7. CASE ServerRestarts
    BY <1>7 DEF ServerRestarts
  <1> QED
    BY <1>3, <1>4, <1>5, <1>6, <1>7 DEF Next, SocketStep, Connect, ReconnectFires

(* A message that is not the marker, taken from the client's socket.       *)
LEMMA ReceiveKeepsMarks ==
  ASSUME MarkInv, OrderInv', NEW s \in Socket, Receive(s), SessionNeedsSocket'
  PROVE  MarkInv'
  <1>1. /\ Take(s) /\ client.ws = s /\ s # 0 /\ down[s] \in Seq(Message) /\ down[s] # <<>>
        /\ client \in Client /\ Sound(client)
    <2>1. Take(s)
      BY DEF Receive, ReceiveInfo, ReceiveAuth, ReceiveSynchronized, ReceiveCallback
    <2>2. client.ws = s /\ s # 0 /\ down[s] # <<>>
      BY <2>1, ClientAssumption DEF Take, Socket
    <2> QED
      BY <2>1, <2>2 DEF MarkInv, OrderInv, StreamTypes, ClientInv, Sound
  <1>2. CASE ReceiveInfo(s)
    <2>1. Head(down[s]) # Marker
      BY <1>2 DEF ReceiveInfo, Marker, Plain
    <2> QED
      BY <1>1, <1>2, <2>1, TakeKeepsMarks DEF ReceiveInfo, clientVars, historyVars
  <1>3. CASE ReceiveAuth(s)
    <2>1. CASE Head(down[s]) = Plain("accepted") /\ client' = HandleAuth(client, TRUE)
                 /\ UNCHANGED <<sock, stopped>>
      <3>1. Head(down[s]) # Marker
        BY <2>1 DEF Marker, Plain
      <3>2. client'.ws = s
        BY <1>1, <2>1, AuthIsSound
      <3>3. client'.synchronized = client.synchronized
        BY <1>1, <2>1 DEF HandleAuth, Settle, Client
      <3> QED
        BY <1>1, <1>3, <2>1, <3>1, <3>2, <3>3, TakeKeepsMarks DEF ReceiveAuth, historyVars
    <2>2. CASE client' = HandleAuth(client, FALSE)
      <3>1. client'.ws = 0
        BY <1>1, <2>2, DisconnectIsSound
      <3>2. ignored' = ignored
        BY <1>3 DEF ReceiveAuth, historyVars
      <3> QED
        BY <3>1, <3>2, UntouchedKeepsMarks DEF Untouched
    <2> QED
      BY <1>3, <2>1, <2>2 DEF ReceiveAuth
  <1>4. CASE ReceiveSynchronized(s)
    <2>1. client'.synchronized = TRUE /\ client'.ws = s /\ ignored' = ignored
      BY <1>1, <1>4 DEF ReceiveSynchronized, Client, historyVars
    <2> QED
      BY <2>1 DEF MarkInv, Guarded, Prepared, NothingIgnored
  <1>5. CASE ReceiveCallback(s)
    <2>1. IsCallback(Head(down[s]))
      BY <1>5 DEF ReceiveCallback, IsCallback
    <2>2. Head(down[s]) # Marker
      BY <2>1, MarkerFacts
    <2>3. client.synchronized
      <3>1. CASE ~client.synchronized
        BY <1>1, <2>1, <2>2, <3>1, TailMarks DEF MarkInv, Guarded
      <3> QED
        BY <3>1
    <2> QED
      BY <1>1, <1>5, <2>2, <2>3, TakeKeepsMarks DEF ReceiveCallback, clientVars
  <1> QED
    BY <1>2, <1>3, <1>4, <1>5 DEF Receive

LEMMA ServerKeepsMarks ==
  ASSUME MarkInv, OrderInv', NEW s \in Socket, Accept(s) \/ Authenticate(s), SessionNeedsSocket'
  PROVE  MarkInv'
  <1> DEFINE q1 == <<Plain("connected")>>
             q2 == <<Plain("accepted"), Plain("snapshot"), Plain("synchronized")>>
             q3 == <<Plain("rejected")>>
  <1>1. \A q \in {q1, q2, q3} : q \in Seq(Message) /\ \A i \in DOMAIN q : ~IsCallback(q[i])
    <2>1. q1 \in Seq(Message) /\ \A i \in DOMAIN q1 : ~IsCallback(q1[i])
      BY MessageFacts DEF Control
    <2>2. q2 \in Seq(Message) /\ \A i \in DOMAIN q2 : ~IsCallback(q2[i])
      BY MessageFacts DEF Control
    <2>3. q3 \in Seq(Message) /\ \A i \in DOMAIN q3 : ~IsCallback(q3[i])
      BY MessageFacts DEF Control
    <2> QED
      BY <2>1, <2>2, <2>3
  <1>2. HasMarker(q2)
    <2>1. 3 \in DOMAIN q2 /\ q2[3] = Marker
      BY DEF Marker
    <2> HIDE DEF q2
    <2> QED
      BY <2>1 DEF HasMarker
  <1>3. client' = client /\ sock' = sock /\ ignored' = ignored
    BY DEF Accept, Authenticate, clientVars, historyVars
  <1>4. \/ session' = [session EXCEPT ![s] = "connecting"] /\ down' = Send(s, q1)
        \/ session' = [session EXCEPT ![s] = "connected"] /\ down' = Send(s, q2)
        \/ session' = [session EXCEPT ![s] = "error"] /\ down' = Send(s, q3)
    BY DEF Accept, Authenticate
  <1> HIDE DEF q1, q2, q3
  <1>5. CASE session' = [session EXCEPT ![s] = "connecting"] /\ down' = Send(s, q1)
    BY <1>1, <1>3, <1>5, SendKeepsMarks
  <1>6. CASE session' = [session EXCEPT ![s] = "connected"] /\ down' = Send(s, q2)
    BY <1>1, <1>2, <1>3, <1>6, SendKeepsMarks
  <1>7. CASE session' = [session EXCEPT ![s] = "error"] /\ down' = Send(s, q3)
    BY <1>1, <1>3, <1>7, SendKeepsMarks
  <1> QED
    BY <1>4, <1>5, <1>6, <1>7

LEMMA MarkStep == MarkInv /\ [Next]_vars => MarkInv'
  <1> SUFFICES ASSUME MarkInv, [Next]_vars PROVE MarkInv'
    OBVIOUS
  <1>1. OrderInv /\ OrderInv' /\ ClientInv /\ Sound(client) /\ client \in Client
    BY OrderStep DEF MarkInv, OrderInv, ClientInv, Sound
  <1>2. ~Attempt => SessionNeedsSocket'
    BY SessionsKeepSockets
  <1>3. CASE Attempt
    BY <1>1, <1>3, AttemptKeepsMarks
  <1>4. ASSUME ~Attempt, client'.ws = 0, ignored' = ignored
        PROVE  MarkInv'
    BY <1>1, <1>2, <1>4, UntouchedKeepsMarks DEF Untouched
  <1>5. ASSUME ~Attempt, down' = down, client'.ws = client.ws,
               client'.synchronized = client.synchronized, ignored' = ignored,
               Alive' => Alive, \/ session' = session
                                \/ session' = [r \in Socket |-> "none"]
                                \/ \E s \in Socket : sock[s] = "closed" /\ session' = [session EXCEPT ![s] = "none"]
        PROVE  MarkInv'
    <2>1. client.ws # 0 => client.ws \in Socket
      BY <1>1, WireType
    <2>2. Alive' /\ session'[client.ws] = "connected" => Alive /\ session[client.ws] = "connected"
      BY <1>5, <2>1 DEF MarkInv, SessionNeedsSocket, Alive
    <2> QED
      BY <1>1, <1>2, <1>5, <2>2, UntouchedKeepsMarks DEF Untouched
  <1>6. CASE ~Attempt
    <2>1. CASE DeadlineFires \/ Disconnect
      BY <1>1, <1>4, <1>6, <2>1, TimeOutIsSound, DisconnectIsSound
      DEF DeadlineFires, Disconnect, historyVars
    <2>2. ASSUME NEW s \in Socket, Closed(s) PROVE MarkInv'
      <3>1. client.ws # 0
        BY <2>2, ClientAssumption DEF Closed, Socket
      <3> QED
        BY <1>1, <1>4, <1>6, <2>2, <3>1, LossIsSound DEF Closed, historyVars
    <2>3. ASSUME NEW s \in Socket, Open(s) PROVE MarkInv'
      <3>1. client'.ws = client.ws /\ client'.synchronized = client.synchronized
        BY <1>1, <2>3 DEF Open, HandleOpen, Client
      <3>2. Alive' => Alive
        BY <2>3, <3>1 DEF Open, Alive
      <3> QED
        BY <1>5, <1>6, <2>3, <3>1, <3>2 DEF Open, serverVars, historyVars
    <2>4. ASSUME NEW s \in Socket, Break(s) PROVE MarkInv'
      <3>1. Alive' => Alive
        BY <1>1, <2>4, WireType DEF Break, Alive, ClientInv, OpeningIsPending
      <3> QED
        BY <1>5, <1>6, <2>4, <3>1 DEF Break, serverVars, historyVars
    <2>5. ASSUME NEW s \in Socket, Receive(s) PROVE MarkInv'
      BY <1>1, <1>2, <1>6, <2>5, ReceiveKeepsMarks
    <2>6. ASSUME NEW s \in Socket, Accept(s) \/ Authenticate(s) PROVE MarkInv'
      BY <1>1, <1>2, <1>6, <2>6, ServerKeepsMarks
    <2>7. ASSUME NEW s \in Socket, EndSession(s) PROVE MarkInv'
      BY <1>5, <1>6, <2>7 DEF EndSession, clientVars, historyVars, Alive
    <2>8. CASE Webhook \/ UNCHANGED vars
      BY <1>5, <1>6, <2>8 DEF Webhook, vars, clientVars, historyVars, Alive
    <2>9. CASE Flush
      BY <1>1, <2>9, FlushKeepsMarks
    <2>10. CASE ServerRestarts
      <3>1. Alive' => Alive
        BY <1>1, <2>10, WireType DEF ServerRestarts, Alive
      <3> QED
        BY <1>5, <1>6, <2>10, <3>1 DEF ServerRestarts, historyVars
    <2> QED
      BY <1>6, <2>1, <2>2, <2>3, <2>4, <2>5, <2>6, <2>7, <2>8, <2>9, <2>10
      DEF Next, SocketStep, Connect, ReconnectFires
  <1> QED
    BY <1>3, <1>6

(* For any number of attempts and callbacks: no callback reaches the       *)
(* client before the marker that ends the snapshot of its connection, so   *)
(* none is thrown away as a part of that snapshot.                         *)
THEOREM NoneIsIgnored == Spec => []NothingIgnored
  <1>1. MarkInv => NothingIgnored
    BY DEF MarkInv
  <1> QED
    BY <1>1, MarkInit, MarkStep, PTL DEF Spec

----------------------------------------------------------------------------
(* What was broadcast while the client's session was ready is on its way   *)
(* as long as the connection lasts: the session stays ready until the      *)
(* socket breaks, and a callback that waits in the buffer goes to it.      *)
On(q, e) == \E i \in DOMAIN q : q[i] = e

ReadyWhileDue ==
  client.ws # 0 /\ due # {} =>
    /\ sock[client.ws] # "opening"
    /\ sock[client.ws] = "open" => session[client.ws] = "connected"

LossInv == MarkInv /\ due \subseteq Callback /\ ReadyWhileDue /\ NoLossWhileConnected

LEMMA ContainsIsOn ==
  ASSUME NEW S, NEW q \in Seq(S), NEW e
  PROVE  Contains(q, e) <=> On(q, e)
  BY DEF Contains, On

LEMMA InFlightIsOn ==
  ASSUME OrderInv, NEW cb
  PROVE  InFlight(cb) <=> \/ On(buffer, cb)
                          \/ client.ws # 0 /\ On(down[client.ws], Live(cb))
                          \/ On(delivered, cb)
  <1>1. buffer \in Seq(Callback) /\ delivered \in Seq(Callback)
    BY DEF OrderInv, StreamTypes
  <1>2. Contains(buffer, cb) <=> On(buffer, cb)
    BY <1>1, ContainsIsOn
  <1>3. Contains(delivered, cb) <=> On(delivered, cb)
    BY <1>1, ContainsIsOn
  <1>4. client.ws # 0 => (Contains(down[client.ws], Live(cb)) <=> On(down[client.ws], Live(cb)))
    BY WireType, ContainsIsOn
  <1> QED
    BY <1>2, <1>3, <1>4 DEF InFlight

LEMMA TailOn ==
  ASSUME NEW S, NEW q \in Seq(S), q # <<>>, NEW e, On(q, e), e # Head(q)
  PROVE  On(Tail(q), e)
  <1>1. /\ Head(q) = q[1] /\ Len(q) \in Nat /\ DOMAIN q = 1..Len(q)
        /\ DOMAIN Tail(q) = 1..(Len(q) - 1)
        /\ \A i \in 1..(Len(q) - 1) : Tail(q)[i] = q[i + 1]
    OBVIOUS
  <1>2. PICK i \in DOMAIN q : q[i] = e
    BY DEF On
  <1>3. i # 1
    BY <1>1, <1>2
  <1>4. i - 1 \in 1..(Len(q) - 1) /\ (i - 1) + 1 = i
    BY <1>1, <1>3
  <1>5. i - 1 \in DOMAIN Tail(q) /\ Tail(q)[i - 1] = e
    BY <1>1, <1>2, <1>4
  <1> QED
    BY <1>5 DEF On

LEMMA AppendOn ==
  ASSUME NEW S, NEW q \in Seq(S), NEW x \in S, NEW e
  PROVE  /\ On(Append(q, x), x)
         /\ On(q, e) => On(Append(q, x), e)
  <1>1. /\ Len(q) \in Nat /\ DOMAIN q = 1..Len(q) /\ DOMAIN Append(q, x) = 1..(Len(q) + 1)
        /\ Append(q, x)[Len(q) + 1] = x
        /\ \A i \in 1..Len(q) : Append(q, x)[i] = q[i]
    OBVIOUS
  <1>2. Len(q) + 1 \in DOMAIN Append(q, x) /\ DOMAIN q \subseteq DOMAIN Append(q, x)
    BY <1>1
  <1> QED
    BY <1>1, <1>2 DEF On

LEMMA ConcatOn ==
  ASSUME NEW q \in Seq(Message), NEW r \in Seq(Message), NEW e
  PROVE  On(q, e) \/ On(r, e) => On(q \o r, e)
  <1>1. On(q, e) => On(q \o r, e)
    BY ConcatFacts DEF On
  <1>2. ASSUME On(r, e) PROVE On(q \o r, e)
    <2>1. PICK i \in DOMAIN r : r[i] = e
      BY <1>2 DEF On
    <2>2. Len(q) + i \in DOMAIN (q \o r) /\ (q \o r)[Len(q) + i] = e
      BY <2>1, ConcatFacts
    <2> QED
      BY <2>2 DEF On
  <1> QED
    BY <1>1, <1>2

(* A step that neither opens the client's socket nor ends its session, and *)
(* after which whatever was on its way still is.                           *)
LEMMA CarriedIsKept ==
  ASSUME LossInv, MarkInv', due' = due,
         client'.ws \in {0, client.ws},
         client'.ws # 0 /\ due # {} =>
           /\ sock[client.ws] # "opening" => sock'[client.ws] # "opening"
           /\ sock'[client.ws] = "open" =>
                /\ sock[client.ws] = "open"
                /\ session[client.ws] = "connected" => session'[client.ws] = "connected"
                /\ \A cb \in due : InFlight(cb) => InFlight(cb)'
  PROVE  LossInv'
  <1>1. ReadyWhileDue'
    BY DEF LossInv, ReadyWhileDue
  <1>2. NoLossWhileConnected'
    BY DEF LossInv, NoLossWhileConnected
  <1> QED
    BY <1>1, <1>2 DEF LossInv

LEMMA LossInit == Init => LossInv
  <1> SUFFICES ASSUME Init PROVE LossInv
    OBVIOUS
  <1> QED
    BY MarkInit DEF LossInv, ReadyWhileDue, NoLossWhileConnected, Init

LEMMA ReceiveLosesNothing ==
  ASSUME LossInv, MarkInv', NEW s \in Socket, Receive(s)
  PROVE  LossInv'
  <1> OrderInv /\ OrderInv'
    BY DEF LossInv, MarkInv
  <1>1. Take(s)
    BY DEF Receive, ReceiveInfo, ReceiveAuth, ReceiveSynchronized, ReceiveCallback
  <1>2. /\ client.ws = s /\ s # 0 /\ down[s] # <<>> /\ down[s] \in Seq(Message)
        /\ down'[s] = Tail(down[s])
        /\ buffer' = buffer /\ session' = session /\ due' = due
    BY <1>1, ClientAssumption DEF Take, OrderInv, StreamTypes, serverVars, Socket
  <1>3. client'.ws \in {0, s} /\ (client'.ws = s => sock' = sock)
    <2> Sound(client)
      BY DEF OrderInv, ClientInv
    <2>1. CASE ReceiveInfo(s) \/ ReceiveCallback(s)
      BY <1>2, <2>1 DEF ReceiveInfo, ReceiveCallback, clientVars
    <2>2. CASE ReceiveSynchronized(s)
      BY <1>2, <2>2 DEF ReceiveSynchronized, Client, Sound
    <2>3. CASE ReceiveAuth(s)
      BY <1>2, <2>3, AuthIsSound, DisconnectIsSound DEF ReceiveAuth
    <2> QED
      BY <2>1, <2>2, <2>3 DEF Receive
  <1>4. ASSUME NEW cb \in due, InFlight(cb), client'.ws = s
        PROVE  InFlight(cb)'
    <2> cb \in Callback
      BY DEF LossInv
    <2>1. CASE On(buffer, cb)
      BY <1>2, <2>1, InFlightIsOn DEF InFlight, On, Contains
    <2>2. CASE On(delivered, cb)
      <3>1. On(delivered', cb)
        <4>1. CASE delivered' = delivered
          BY <2>2, <4>1
        <4>2. CASE ReceiveCallback(s) /\ delivered' = Append(delivered, Head(down[s]).id)
          <5>1. Head(down[s]).id \in Callback
            BY <1>2, <4>2, MessageFacts DEF ReceiveCallback, IsCallback
          <5> QED
            BY <2>2, <4>2, <5>1, AppendOn DEF OrderInv, StreamTypes
        <4> QED
          BY <4>1, <4>2
          DEF Receive, ReceiveInfo, ReceiveAuth, ReceiveSynchronized, ReceiveCallback, historyVars
      <3>2. Contains(delivered', cb)
        BY <3>1, ContainsIsOn DEF OrderInv, StreamTypes
      <3> QED
        BY <3>2 DEF InFlight
    <2>3. CASE On(down[s], Live(cb)) /\ Live(cb) # Head(down[s])
      <3>1. On(down'[s], Live(cb))
        BY <1>2, <2>3, TailOn
      <3>2. Contains(down'[s], Live(cb))
        BY <3>1, ContainsIsOn DEF OrderInv, StreamTypes
      <3> QED
        BY <1>2, <1>4, <3>2 DEF InFlight
    <2>4. CASE Live(cb) = Head(down[s])
      <3>1. ReceiveCallback(s)
        <4>1. IsCallback(Head(down[s])) /\ Head(down[s]).type = "callback"
          BY <2>4, MessageFacts DEF IsCallback
        <4>2. Head(down[s]) \notin {Plain("accepted"), Plain("rejected"), Plain("synchronized")}
          BY <4>1, MessageFacts DEF Control
        <4> QED
          BY <4>1, <4>2 DEF Receive, ReceiveInfo, ReceiveAuth, ReceiveSynchronized
      <3>2. delivered' = Append(delivered, cb)
        <4>1. ignored = {} /\ ignored' = {}
          BY DEF LossInv, MarkInv, NothingIgnored
        <4>2. Head(down[s]).id = cb
          BY <2>4, MessageFacts
        <4> QED
          BY <3>1, <4>1, <4>2 DEF ReceiveCallback
      <3>3. On(delivered', cb)
        BY <3>2, AppendOn DEF OrderInv, StreamTypes
      <3>4. Contains(delivered', cb)
        BY <3>3, ContainsIsOn DEF OrderInv, StreamTypes
      <3> QED
        BY <3>4 DEF InFlight
    <2> QED
      BY <1>2, <1>4, <2>1, <2>2, <2>3, <2>4, InFlightIsOn
  <1> QED
    BY <1>2, <1>3, <1>4, CarriedIsKept DEF LossInv, NoLossWhileConnected

LEMMA FlushLosesNothing ==
  ASSUME LossInv, MarkInv', Flush
  PROVE  LossInv'
  <1> OrderInv /\ OrderInv'
    BY DEF LossInv, MarkInv
  <1>1. UNCHANGED <<client, sock, session, delivered, due>>
    BY DEF Flush, clientVars, historyVars
  <1>2. ASSUME client.ws # 0, sock[client.ws] = "open", NEW cb \in due, InFlight(cb)
        PROVE  InFlight(cb)'
    <2> DEFINE w == client.ws
    <2>1. w \in Socket /\ down[w] \in Seq(Message) /\ Batch \in Seq(Message) /\ cb \in Callback
      BY <1>2, WireType, BatchFacts DEF OrderInv, LossInv
    <2>2. session[w] = "connected"
      BY <1>2 DEF LossInv, ReadyWhileDue
    <2>3. down'[w] = down[w] \o Batch
      BY <1>2, <2>1, <2>2 DEF Flush, Ready, Send, OrderInv, StreamTypes
    <2>4. CASE On(delivered, cb)
      BY <1>1, <2>4 DEF InFlight, On, Contains, OrderInv, StreamTypes
    <2>5. CASE On(down[w], Live(cb)) \/ On(buffer, cb)
      <3>1. On(buffer, cb) => On(Batch, Live(cb))
        <4> SUFFICES ASSUME On(buffer, cb) PROVE On(Batch, Live(cb))
          OBVIOUS
        <4>1. PICK k \in DOMAIN buffer : buffer[k] = cb
          BY DEF On
        <4>2. k \in 1..Len(buffer) /\ Batch[k] = Live(cb) /\ DOMAIN Batch = 1..Len(buffer)
          BY <4>1, BatchFacts DEF OrderInv
        <4> QED
          BY <4>2 DEF On
      <3>2. On(down'[w], Live(cb))
        BY <2>1, <2>3, <2>5, <3>1, ConcatOn
      <3>3. down'[w] \in Seq(Message)
        BY <2>1 DEF OrderInv, StreamTypes
      <3>4. Contains(down'[w], Live(cb))
        BY <3>2, <3>3, ContainsIsOn
      <3> QED
        BY <1>1, <1>2, <3>4 DEF InFlight
    <2> QED
      BY <1>2, <2>4, <2>5, InFlightIsOn
  <1> QED
    BY <1>1, <1>2, CarriedIsKept

LEMMA SendLosesNothing ==
  ASSUME LossInv, MarkInv', NEW s \in Socket, Accept(s) \/ Authenticate(s)
  PROVE  LossInv'
  <1> OrderInv /\ OrderInv'
    BY DEF LossInv, MarkInv
  <1>1. UNCHANGED <<client, sock, buffer, delivered, due>> /\ session[s] # "connected"
    BY DEF Accept, Authenticate, clientVars, historyVars
  <1>2. ASSUME client.ws # 0, sock[client.ws] = "open", due # {}
        PROVE  client.ws # s /\ session[client.ws] = "connected"
    BY <1>1, <1>2 DEF LossInv, ReadyWhileDue
  <1>3. ASSUME NEW r \in Socket, r # s
        PROVE  down'[r] = down[r] /\ session'[r] = session[r]
    BY <1>3 DEF Accept, Authenticate, Send, OrderInv, StreamTypes, LossInv, MarkInv,
                SessionNeedsSocket
  <1>4. ASSUME client.ws # 0, sock[client.ws] = "open", due # {}
        PROVE  down'[client.ws] = down[client.ws] /\ session'[client.ws] = session[client.ws]
    BY <1>2, <1>3, <1>4, WireType
  <1>5. ASSUME client.ws # 0, sock[client.ws] = "open", NEW cb \in due, InFlight(cb)
        PROVE  InFlight(cb)'
    BY <1>1, <1>4, <1>5 DEF InFlight
  <1> QED
    BY <1>1, <1>4, <1>5, CarriedIsKept

LEMMA WebhookLosesNothing ==
  ASSUME LossInv, MarkInv', Webhook
  PROVE  LossInv'
  <1> OrderInv /\ OrderInv'
    BY DEF LossInv, MarkInv
  <1>1. UNCHANGED <<client, sock, down, session, delivered>>
    BY DEF Webhook, clientVars, historyVars
  <1>2. sent + 1 \in Callback /\ buffer \in Seq(Callback) /\ buffer' = Append(buffer, sent + 1)
    BY StreamAssumption DEF Webhook, OrderInv, StreamTypes, Callback
  <1>3. \/ due' = due
        \/ due' = due \cup {sent + 1} /\ IsConnected /\ Ready(client.ws)
    BY DEF Webhook
  <1>4. due' \subseteq Callback
    BY <1>2, <1>3 DEF LossInv
  <1>5. ReadyWhileDue'
    BY <1>1, <1>3 DEF LossInv, ReadyWhileDue, IsConnected, Ready
  <1>6. ASSUME NEW cb \in due', client.ws # 0, sock[client.ws] = "open"
        PROVE  InFlight(cb)'
    <2>1. On(buffer', sent + 1) /\ (On(buffer, cb) => On(buffer', cb))
      BY <1>2, AppendOn
    <2>2. CASE cb = sent + 1
      <3>1. Contains(buffer', cb)
        BY <2>1, <2>2, ContainsIsOn DEF OrderInv, StreamTypes
      <3> QED
        BY <3>1 DEF InFlight
    <2>3. CASE cb \in due
      <3>1. InFlight(cb)
        BY <1>6, <2>3 DEF LossInv, NoLossWhileConnected
      <3>2. CASE Contains(buffer, cb)
        <4>1. Contains(buffer', cb)
          BY <1>2, <2>1, <3>2, ContainsIsOn DEF OrderInv, StreamTypes
        <4> QED
          BY <4>1 DEF InFlight
      <3>3. CASE ~Contains(buffer, cb)
        BY <1>1, <3>1, <3>3 DEF InFlight
      <3> QED
        BY <3>2, <3>3
    <2> QED
      BY <1>3, <1>6, <2>2, <2>3
  <1>7. NoLossWhileConnected'
    BY <1>1, <1>6 DEF NoLossWhileConnected
  <1> QED
    BY <1>4, <1>5, <1>7 DEF LossInv

LEMMA LossStep == LossInv /\ [Next]_vars => LossInv'
  <1> SUFFICES ASSUME LossInv, [Next]_vars PROVE LossInv'
    OBVIOUS
  <1>1. /\ MarkInv /\ MarkInv' /\ OrderInv /\ ClientInv /\ Sound(client) /\ client \in Client
        /\ FreshIsEmpty
    BY MarkStep DEF LossInv, MarkInv, OrderInv, ClientInv, Sound
  <1>2. Attempt \/ Keeps
    BY <1>1, ClientFrame
  <1>3. CASE Attempt
    BY <1>1, <1>3 DEF Attempt, LossInv, ReadyWhileDue, NoLossWhileConnected
  <1>4. ASSUME due' = due, client'.ws = 0
        PROVE  LossInv'
    BY <1>1, <1>4, CarriedIsKept
  <1>5. ASSUME UNCHANGED <<down, buffer, delivered, due>>, client'.ws = client.ws,
               client.ws # 0 =>
                 /\ sock[client.ws] # "opening" => sock'[client.ws] # "opening"
                 /\ sock'[client.ws] = "open" => sock[client.ws] = "open" \/ due = {}
                 /\ sock'[client.ws] = "open" => session'[client.ws] = session[client.ws]
        PROVE  LossInv'
    <2>1. \A cb \in due : InFlight(cb) => InFlight(cb)'
      BY <1>5 DEF InFlight
    <2> QED
      BY <1>1, <1>5, <2>1, CarriedIsKept
  <1>6. client.ws # 0 => client.ws \in Socket
    BY <1>1, WireType
  <1>7. CASE Keeps
    <2>1. CASE DeadlineFires \/ Disconnect
      BY <1>1, <1>4, <2>1, TimeOutIsSound, DisconnectIsSound DEF DeadlineFires, Disconnect
    <2>2. ASSUME NEW s \in Socket, Closed(s) PROVE LossInv'
      <3>1. client.ws # 0
        BY <2>2, ClientAssumption DEF Closed, Socket
      <3> QED
        BY <1>1, <1>4, <2>2, <3>1, LossIsSound DEF Closed
    <2>3. ASSUME NEW s \in Socket, Open(s) PROVE LossInv'
      <3>1. client'.ws = client.ws /\ client.ws = s /\ client.ws # 0
        BY <1>1, <2>3, ClientAssumption DEF Open, HandleOpen, Client, Socket
      <3>2. due = {}
        BY <2>3, <3>1 DEF Open, LossInv, ReadyWhileDue
      <3>3. sock'[client.ws] = "open"
        BY <1>1, <2>3, <3>1 DEF Open, ClientInv, OpeningIsPending
      <3> QED
        BY <1>5, <2>3, <3>1, <3>2, <3>3 DEF Open, serverVars, historyVars
    <2>4. ASSUME NEW s \in Socket, Break(s) PROVE LossInv'
      BY <1>1, <1>5, <1>6, <2>4
      DEF Break, ClientInv, OpeningIsPending, serverVars, historyVars
    <2>5. ASSUME NEW s \in Socket, Receive(s) PROVE LossInv'
      BY <1>1, <2>5, ReceiveLosesNothing
    <2>6. ASSUME NEW s \in Socket, Accept(s) \/ Authenticate(s) PROVE LossInv'
      BY <1>1, <2>6, SendLosesNothing
    <2>7. ASSUME NEW s \in Socket, EndSession(s) PROVE LossInv'
      <3>1. client.ws # 0 /\ sock[client.ws] = "open" => session'[client.ws] = session[client.ws]
        BY <1>1, <1>6, <2>7 DEF EndSession, MarkInv, SessionNeedsSocket
      <3> QED
        BY <1>5, <2>7, <3>1 DEF EndSession, clientVars, historyVars
    <2>8. CASE Webhook
      BY <1>1, <2>8, WebhookLosesNothing
    <2>9. CASE Flush
      BY <1>1, <2>9, FlushLosesNothing
    <2>10. ASSUME ServerRestarts PROVE LossInv'
      <3>1. client.ws # 0 => sock'[client.ws] \in {"none", "closed"}
        BY <1>6, <2>10 DEF ServerRestarts
      <3> QED
        BY <1>1, <2>10, <3>1, CarriedIsKept DEF ServerRestarts
    <2>11. CASE UNCHANGED vars
      BY <1>5, <2>11 DEF vars
    <2> QED
      BY <1>3, <2>1, <2>2, <2>3, <2>4, <2>5, <2>6, <2>7, <2>8, <2>9, <2>10, <2>11
      DEF Next, SocketStep, Connect, ReconnectFires
  <1> QED
    BY <1>2, <1>3, <1>7

(* For any number of attempts and callbacks, over batches, lost sockets    *)
(* and restarts: what was broadcast while the client's session was ready   *)
(* is buffered, on the wire or delivered until that connection ends.       *)
THEOREM NothingIsLost == Spec => []NoLossWhileConnected
  <1>1. LossInv => NoLossWhileConnected
    BY DEF LossInv
  <1> QED
    BY <1>1, LossInit, LossStep, PTL DEF Spec
=============================================================================
