---------------------------- MODULE RelayStream ----------------------------
(***************************************************************************)
(* The cloud relay: one client (RelayClient), the relay server             *)
(* (packages/relay/src/server.ts) and the webhook that feeds it            *)
(* (scripts/unified-webhook-server.ts).  The press of a button in a chat   *)
(* reaches the webhook as a request, which broadcasts a callback: it is    *)
(* buffered and streamed to the authenticated sessions, or put into a file *)
(* when the server counts no session at all.  A callback is one broadcast, *)
(* numbered in the order of the broadcasts; `origin` tells which press it  *)
(* is of.  Requests overtake one another before they broadcast, and one    *)
(* whose answer fails or is lost is delivered, and broadcast, again.       *)
(* Sockets break, and the server restarts, at any point.                   *)
(***************************************************************************)
EXTENDS RelayClient, Sequences, SequencesExt

CONSTANTS MaxCallbacks, (* bound: the callbacks of one behaviour            *)
          MaxPresses    (* bound: the presses of one behaviour              *)

ASSUME StreamAssumption == MaxCallbacks \in Nat /\ MaxPresses \in Nat

VARIABLES
  client,
  sock,       (* each socket as the client's process sees it                *)
  down,       (* the messages on their way to the client on each socket     *)
  hello,      (* the sockets whose auth message the server has yet to read  *)
  session,    (* the server's session of each socket                        *)
  buffer,     (* eventBuffer.callbacks; its timer is armed iff there are any *)
  sent,       (* how many callbacks the webhook has broadcast               *)
  origin,     (* the press that each of them is of                          *)
  queued,     (* the callbacks in callback-queue.jsonl                      *)
  delivered,  (* what onCallback was called with, in order                  *)
  ignored,    (* the callbacks dropped as earlier than "synchronized"       *)
  due,        (* history: broadcast while the client's session was ready    *)
  stopped     (* history: what last made the client give up, if anything    *)

clientVars == <<client, sock, stopped>>
serverVars == <<session, buffer>>
callbackVars == <<sent, origin, queued>>
historyVars == <<delivered, ignored>>
vars == <<client, sock, down, hello, session, buffer, sent, origin, queued,
          delivered, ignored, due, stopped>>

Callback == 1..MaxCallbacks
Press == 1..MaxPresses   (* in the order in which the buttons are pressed    *)

Control == {"connected", "accepted", "rejected", "snapshot", "synchronized"}

Message == [type: Control, id: {0}] \cup [type: {"callback"}, id: Callback]

Plain(type) == [type |-> type, id |-> 0]
Live(cb) == [type |-> "callback", id |-> cb]

TypeOK ==
  /\ client \in Client
  /\ sock \in [Socket -> {"none", "opening", "open", "closed"}]
  /\ down \in [Socket -> Seq(Message)]
  /\ hello \subseteq Socket
  /\ session \in [Socket -> {"none", "connecting", "connected", "error"}]
  /\ buffer \in Seq(Callback)
  /\ sent \in 0..MaxCallbacks
  /\ origin \in Seq(Press)
  /\ queued \subseteq Callback
  /\ delivered \in Seq(Callback)
  /\ ignored \subseteq Callback
  /\ due \subseteq Callback
  /\ stopped \in {"no", "disconnect", "auth"}

Init ==
  /\ client = NewClient
  /\ sock = [s \in Socket |-> "none"]
  /\ down = [s \in Socket |-> <<>>]
  /\ hello = {}
  /\ session = [s \in Socket |-> "none"]
  /\ buffer = <<>>
  /\ sent = 0
  /\ origin = <<>>
  /\ queued = {}
  /\ delivered = <<>>
  /\ ignored = {}
  /\ due = {}
  /\ stopped = "no"

(* The client's process drops its socket, and opens the one of an attempt. *)
Drop == [s \in Socket |-> IF s = client.ws THEN "closed" ELSE sock[s]]

IsConnected == client.ws # 0 /\ client.state = "connected" /\ sock[client.ws] = "open"

(* Nothing reaches a closed socket.                                        *)
Send(s, messages) ==
  IF sock[s] \in {"opening", "open"} THEN [down EXCEPT ![s] = @ \o messages] ELSE down

----------------------------------------------------------------------------
(* connect() by the extension or by the reconnect timer: nothing to do     *)
(* when connected, the promise of a live attempt is handed out again.      *)
Attempt ==
  /\ client.attempt < MaxAttempts
  /\ ~IsConnected
  /\ client.pending = 0
  /\ \/ /\ client' = StartConnect(client)
        /\ sock' = [Drop EXCEPT ![client.attempt + 1] = "opening"]
     \/ client' = StartThrows(client) /\ sock' = Drop
  /\ due' = {}
  /\ stopped' = "no"
  /\ UNCHANGED <<down, hello, serverVars, callbackVars, historyVars>>

Connect == ~client.timer /\ Attempt

(* The timer's handle is cleared before connect() runs; so does cleanup(). *)
ReconnectFires == client.timer /\ Attempt

DeadlineFires ==
  /\ client.deadline
  /\ client.pending # 0
  /\ client' = TimeOut(client)
  /\ sock' = Drop
  /\ UNCHANGED <<down, hello, serverVars, callbackVars, historyVars, due, stopped>>

Disconnect ==
  /\ client' = DisconnectClient(client)
  /\ sock' = Drop
  /\ stopped' = "disconnect"
  /\ UNCHANGED <<down, hello, serverVars, callbackVars, historyVars, due>>

(* The client's open event: the auth message is sent.                      *)
Open(s) ==
  /\ sock[s] = "opening"
  /\ session[s] # "none"
  /\ client.ws = s
  /\ sock' = [sock EXCEPT ![s] = "open"]
  /\ client' = HandleOpen(client)
  /\ hello' = hello \cup {s}
  /\ UNCHANGED <<down, serverVars, callbackVars, historyVars, due, stopped>>

(* The transport breaks; the client's handlers run later.                  *)
Break(s) ==
  /\ sock[s] \in {"opening", "open"}
  /\ sock' = [sock EXCEPT ![s] = "closed"]
  /\ UNCHANGED <<client, down, hello, serverVars, callbackVars, historyVars, due, stopped>>

(* The close or error event of the active socket; one of a socket that was *)
(* replaced is ignored.                                                    *)
Closed(s) ==
  /\ sock[s] = "closed"
  /\ client.ws = s
  /\ client' = LoseSocket(client)
  /\ UNCHANGED <<sock, down, hello, serverVars, callbackVars, historyVars, due, stopped>>

----------------------------------------------------------------------------
(* handleMessage, for the oldest message of the active socket.             *)
Take(s) ==
  /\ client.ws = s
  /\ sock[s] \in {"open", "closed"}
  /\ down[s] # <<>>
  /\ down' = [down EXCEPT ![s] = Tail(@)]
  /\ UNCHANGED <<hello, serverVars, callbackVars, due>>

(* "connected" and "snapshot" are logged.                                  *)
ReceiveInfo(s) ==
  /\ Take(s)
  /\ Head(down[s]).type \in {"connected", "snapshot"}
  /\ UNCHANGED <<clientVars, historyVars>>

ReceiveAuth(s) ==
  /\ Take(s)
  /\ \/ /\ Head(down[s]) = Plain("accepted")
        /\ client' = HandleAuth(client, TRUE)
        /\ UNCHANGED <<sock, stopped>>
     \/ /\ Head(down[s]) = Plain("rejected")
        /\ client' = HandleAuth(client, FALSE)
        /\ sock' = Drop
        /\ stopped' = "auth"
  /\ UNCHANGED historyVars

ReceiveSynchronized(s) ==
  /\ Take(s)
  /\ Head(down[s]) = Plain("synchronized")
  /\ client' = [client EXCEPT !.synchronized = TRUE]
  /\ UNCHANGED <<sock, stopped, historyVars>>

ReceiveCallback(s) ==
  /\ Take(s)
  /\ Head(down[s]).type = "callback"
  /\ IF client.synchronized
     THEN delivered' = Append(delivered, Head(down[s]).id) /\ ignored' = ignored
     ELSE ignored' = ignored \cup {Head(down[s]).id} /\ delivered' = delivered
  /\ UNCHANGED clientVars

Receive(s) ==
  ReceiveInfo(s) \/ ReceiveAuth(s) \/ ReceiveSynchronized(s) \/ ReceiveCallback(s)

----------------------------------------------------------------------------
(* The server accepts a connection: it is a session from then on.          *)
Accept(s) ==
  /\ sock[s] = "opening"
  /\ session[s] = "none"
  /\ session' = [session EXCEPT ![s] = "connecting"]
  /\ down' = Send(s, <<Plain("connected")>>)
  /\ UNCHANGED <<clientVars, hello, buffer, callbackVars, historyVars, due>>

(* handleAuth of the server: the answer, the snapshot and the marker go    *)
(* out in one go.                                                          *)
Authenticate(s) ==
  /\ s \in hello
  /\ hello' = hello \ {s}
  /\ session[s] = "connecting"
  /\ \/ /\ session' = [session EXCEPT ![s] = "connected"]
        /\ down' = Send(s, <<Plain("accepted"), Plain("snapshot"), Plain("synchronized")>>)
     \/ /\ session' = [session EXCEPT ![s] = "error"]
        /\ down' = Send(s, <<Plain("rejected")>>)
  /\ UNCHANGED <<clientVars, buffer, callbackVars, historyVars, due>>

(* The server's close or error event.                                      *)
EndSession(s) ==
  /\ sock[s] = "closed"
  /\ session[s] # "none"
  /\ session' = [session EXCEPT ![s] = "none"]
  /\ hello' = hello \ {s}
  /\ UNCHANGED <<clientVars, down, buffer, callbackVars, historyVars, due>>

Ready(s) == session[s] = "connected"

Batch == [i \in DOMAIN buffer |-> Live(buffer[i])]

(* handleTelegram and handleLINE: broadcastCallback buffers the callback   *)
(* and returns the number of sessions, authenticated or not; on 0 it is    *)
(* also put into the file. Whatever fails after that, the acknowledgment   *)
(* of the press first of all, ends in a 500 and the same press is          *)
(* delivered again.                                                        *)
Webhook ==
  /\ sent < MaxCallbacks
  /\ \E p \in Press : origin' = Append(origin, p)
  /\ sent' = sent + 1
  /\ buffer' = Append(buffer, sent + 1)
  /\ queued' = IF \A s \in Socket : session[s] = "none" THEN queued \cup {sent + 1} ELSE queued
  /\ due' = IF IsConnected /\ Ready(client.ws) THEN due \cup {sent + 1} ELSE due
  /\ UNCHANGED <<clientVars, down, hello, session, historyVars>>

(* Mutant of Flush: the callbacks stay in the buffer.                      *)
FlushKeeping ==
  /\ buffer # <<>>
  /\ down' = [s \in Socket |-> IF Ready(s) THEN Send(s, Batch)[s] ELSE down[s]]
  /\ UNCHANGED <<clientVars, hello, session, buffer, callbackVars, historyVars, due>>

(* Mutant of Flush: a callback goes to sessions not authenticated as well. *)
FlushToAll ==
  /\ buffer # <<>>
  /\ buffer' = <<>>
  /\ down' = [s \in Socket |-> IF session[s] # "none" THEN Send(s, Batch)[s] ELSE down[s]]
  /\ UNCHANGED <<clientVars, hello, session, callbackVars, historyVars, due>>

(* Mutant of Flush: only the newest callback of a batch is sent.           *)
FlushNewest ==
  /\ buffer # <<>>
  /\ buffer' = <<>>
  /\ down' = [s \in Socket |-> IF Ready(s) THEN Send(s, <<Last(Batch)>>)[s] ELSE down[s]]
  /\ UNCHANGED <<clientVars, hello, session, callbackVars, historyVars, due>>

(* flushEventBuffer                                                        *)
Flush ==
  /\ buffer # <<>>
  /\ buffer' = <<>>
  /\ down' = [s \in Socket |-> IF Ready(s) THEN Send(s, Batch)[s] ELSE down[s]]
  /\ UNCHANGED <<clientVars, hello, session, callbackVars, historyVars, due>>

(* The server's process ends and is started again.                         *)
ServerRestarts ==
  /\ session' = [s \in Socket |-> "none"]
  /\ hello' = {}
  /\ buffer' = <<>>
  /\ sock' = [s \in Socket |-> IF sock[s] = "none" THEN "none" ELSE "closed"]
  /\ UNCHANGED <<client, stopped, down, callbackVars, historyVars, due>>

----------------------------------------------------------------------------
SocketStep(s) ==
  \/ Open(s) \/ Break(s) \/ Closed(s) \/ Receive(s)
  \/ Accept(s) \/ Authenticate(s) \/ EndSession(s)

Next ==
  \/ Connect \/ ReconnectFires \/ DeadlineFires \/ Disconnect
  \/ \E s \in Socket : SocketStep(s)
  \/ Webhook \/ Flush \/ ServerRestarts

Spec == Init /\ [][Next]_vars

(* Timers expire, and events of an open socket are delivered in the end.   *)
FairSpec ==
  /\ Spec
  /\ WF_vars(DeadlineFires) /\ WF_vars(Flush)
  /\ \A s \in Socket : WF_vars(Receive(s)) /\ WF_vars(Closed(s))

----------------------------------------------------------------------------
(* A client that was not told to stop never rests: it is connected, or it  *)
(* waits for an attempt that has a deadline, or a reconnect is scheduled.  *)
(* The deadline, the socket's events and the reconnect timer arm and       *)
(* disarm one another from six handlers.                                   *)
Resting == client.state # "connected" /\ client.pending = 0 /\ ~client.timer

NeverStranded ==
  /\ Retry /\ client.attempt > 0 /\ stopped = "no" => ~Resting
  /\ client.pending # 0 => client.deadline /\ client.ws = client.pending
  /\ client.state = "connected" => client.ws # 0

(* A reconnect is scheduled only by a client that has nothing: the timer   *)
(* of an earlier loss never cuts into a later connection, nor revives a    *)
(* client that was stopped.                                                *)
TimerMeansIdle ==
  client.timer => /\ client.state = "reconnecting" /\ client.ws = 0
                  /\ client.pending = 0 /\ ~client.shuttingDown

(* The callbacks reach the harness in the order in which they were         *)
(* broadcast, and none twice, across batches, reconnects and restarts: the *)
(* relay adds no disorder and no duplicate to those of the webhook.        *)
InOrderOnce ==
  \A i, j \in DOMAIN delivered : i < j => delivered[i] < delivered[j]

(* No callback arrives before the marker that ends the snapshot, where the *)
(* client would throw it away.                                             *)
NothingIgnored == ignored = {}

(* A callback that was broadcast while the client's session was ready is   *)
(* on its way or delivered, as long as this connection lasts.              *)
InFlight(cb) ==
  \/ Contains(buffer, cb)
  \/ client.ws # 0 /\ Contains(down[client.ws], Live(cb))
  \/ Contains(delivered, cb)

NoLossWhileConnected ==
  client.ws # 0 /\ sock[client.ws] = "open" => \A cb \in due : InFlight(cb)

(* A due callback is delivered unless the connection ends before.          *)
DueIsDelivered ==
  \A cb \in Callback, s \in Socket :
    (cb \in due /\ client.ws = s) ~> (Contains(delivered, cb) \/ client.ws # s \/ sock[s] # "open")

----------------------------------------------------------------------------
(* "A rejected auth can be transient ... retry it like any other failed    *)
(* connect": false, the retry is suppressed by the disconnect() before it. *)
RetriesRejectedAuth ==
  Retry /\ client.attempt > 0 /\ stopped # "disconnect" => ~Resting

(* "Number of connected clients that will receive this callback": false, a *)
(* session that has not authenticated yet is counted, receives nothing,    *)
(* and keeps the callback out of the file.                                 *)
CountedIsKept ==
  client.attempt = 1 /\ client.ws = 1 /\ sock[1] = "open"
    => \A cb \in 1..sent : cb \in queued \/ InFlight(cb)

(* Each press reaches the harness once, in the order of the presses:       *)
(* false, a request that fails after its broadcast comes again and         *)
(* broadcasts again, and requests overtake one another.                    *)
PressedInOrderOnce ==
  \A i, j \in DOMAIN delivered : i < j => origin[delivered[i]] < origin[delivered[j]]

(* A callback that went into the file is not streamed as well: false when  *)
(* a client authenticates before the batch is flushed.                     *)
QueuedIsNotStreamed == \A cb \in queued : ~Contains(delivered, cb)
=============================================================================
