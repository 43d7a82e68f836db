---------------------------- MODULE RelayClient ----------------------------
(***************************************************************************)
(* The connection state machine of the cloud relay's client, class         *)
(* RelayClient of packages/relay/src/client.ts: one record holds its       *)
(* fields, and every private method is an operator from a record to the    *)
(* record it leaves behind, composed in the order of the calls.  The       *)
(* sockets, the server and the events are in RelayStream.                  *)
(***************************************************************************)
EXTENDS Integers

CONSTANTS MaxAttempts,   (* bound: the connect attempts of one behaviour    *)
          Retry          (* config.retryOnConnectFailure                    *)

ASSUME ClientAssumption == MaxAttempts \in Nat \ {0} /\ Retry \in BOOLEAN

(* A socket is named by the attempt that opened it; 0 is null.             *)
Socket == 1..MaxAttempts

ConnectionState ==
  {"disconnected", "connecting", "authenticating", "connected", "reconnecting"}

Client ==
  [state: ConnectionState,
   ws: 0..MaxAttempts,         (* the active socket                         *)
   attempt: 0..MaxAttempts,    (* connectAttempt                            *)
   pending: 0..MaxAttempts,    (* the attempt whose promise is not settled  *)
   deadline: BOOLEAN,          (* connectTimeoutTimer is armed              *)
   timer: BOOLEAN,             (* reconnectTimer is armed                   *)
   shuttingDown: BOOLEAN,
   synchronized: BOOLEAN]

NewClient ==
  [state |-> "disconnected", ws |-> 0, attempt |-> 0, pending |-> 0,
   deadline |-> FALSE, timer |-> FALSE, shuttingDown |-> FALSE,
   synchronized |-> FALSE]

(* settleConnect, whether it resolves or rejects.                          *)
Settle(c) == [c EXCEPT !.pending = 0, !.deadline = FALSE]

CloseSocket(c) == [c EXCEPT !.ws = 0]

Cleanup(c) ==
  CloseSocket([c EXCEPT !.timer = FALSE, !.deadline = FALSE, !.synchronized = FALSE])

ScheduleReconnect(c) ==
  IF c.timer THEN c ELSE [c EXCEPT !.timer = TRUE, !.state = "reconnecting"]

(* Mutant of ScheduleReconnectAfterFailure: a failed attempt is the last.  *)
NeverScheduleAfterFailure(c) == c

ScheduleReconnectAfterFailure(c) ==
  IF c.shuttingDown \/ ~Retry THEN c ELSE ScheduleReconnect(c)

HandleDisconnect(c) ==
  LET gone == [c EXCEPT !.state = "disconnected"]
  IN  IF c.shuttingDown \/ c.state # "connected" THEN gone ELSE ScheduleReconnect(gone)

(* startConnect, when the socket can be constructed ...                    *)
StartConnect(c) ==
  [Cleanup(c) EXCEPT !.shuttingDown = FALSE, !.state = "connecting",
                     !.attempt = c.attempt + 1, !.pending = c.attempt + 1,
                     !.deadline = TRUE, !.ws = c.attempt + 1]

(* ... and when its constructor throws.                                    *)
StartThrows(c) ==
  ScheduleReconnectAfterFailure(
    [Settle([StartConnect(c) EXCEPT !.ws = 0]) EXCEPT !.state = "disconnected"])

(* The connect deadline.                                                   *)
TimeOut(c) ==
  ScheduleReconnectAfterFailure([CloseSocket(Settle(c)) EXCEPT !.state = "disconnected"])

DisconnectClient(c) ==
  [Cleanup(Settle(c)) EXCEPT !.shuttingDown = TRUE, !.state = "disconnected"]

(* The close and the error handler of the active socket.                   *)
LoseSocket(c) ==
  LET gone == HandleDisconnect([c EXCEPT !.ws = 0])
  IN  IF c.pending = 0 THEN gone ELSE ScheduleReconnectAfterFailure(Settle(gone))

HandleOpen(c) == [c EXCEPT !.state = "authenticating"]

(* handleAuth: what a rejection leaves is a client that was told to stop,  *)
(* so the retry scheduled after it is none.                                *)
HandleAuth(c, success) ==
  IF success
  THEN Settle([c EXCEPT !.state = "connected"])
  ELSE ScheduleReconnectAfterFailure(DisconnectClient(Settle(c)))
=============================================================================
