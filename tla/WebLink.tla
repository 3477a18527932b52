------------------------------- MODULE WebLink -------------------------------
(***************************************************************************)
(* The page's WebSocket (static/app.js): connecting, the heartbeat, the    *)
(* reconnect timer, the offline indicator and the two status polls that    *)
(* take turns with the connection.  JavaScript runs a handler to its end,  *)
(* so every handler is one step.  "cur" is the socket the variable ws      *)
(* refers to (ready "none" when it is null), "ghost" the one before it,    *)
(* whose events may still arrive.                                          *)
(***************************************************************************)
EXTENDS Naturals

CONSTANTS
  MaxFaults,   \* how often the network or the server fails
  Oddities     \* sets of oddities, of which a behaviour has one: "late", answers may come
               \* after the 15 s and 25 s timeouts; "throws", new WebSocket may throw

ASSUME LinkAssumption == MaxFaults \in Nat /\ Oddities \subseteq SUBSET {"late", "throws"}

VARIABLES
  sk,         \* the two sockets
  connected,  \* state.wsConnected
  outageSeen, \* wsOutageSeen
  reconnect,  \* reconnectTimer is set
  offline,    \* offlineIndicatorTimer is set
  indicator,  \* the offline indicator is shown
  meta, peak, \* metadataPollTimer and peakStatusPollTimer run
  synced,     \* history: no push was missed since the last full read
  up,         \* the server is reachable
  faults,     \* faults so far
  odd         \* what may happen in this behaviour, one of Oddities

page == <<connected, outageSeen, reconnect, offline, indicator, meta, peak>>
env  == <<up, faults, odd>>
vars == <<sk, page, synced, env>>

Timers == {"none", "connect", "heartbeat"}

\* ready: readyState; live: the server still holds its end; timer: watchdogTimer;
\* awaiting: awaitingPong; init: the server's init message is on its way; mine:
\* the serial of the socket is wsConnectSerial.
Sockets == [ready : {"none", "connecting", "open", "closing", "closed"}, live : BOOLEAN,
            timer : Timers, awaiting : BOOLEAN, init : BOOLEAN, mine : BOOLEAN]

Socket(ready, timer, mine) ==
  [ready |-> ready, live |-> FALSE, timer |-> timer, awaiting |-> FALSE, init |-> FALSE, mine |-> mine]

NoSocket == Socket("none", "none", FALSE)

TypeOK ==
  /\ sk \in [{"cur", "ghost"} -> Sockets]
  /\ sk["cur"].ready = "open" => sk["cur"].timer = "heartbeat"
  /\ connected \in BOOLEAN /\ outageSeen \in BOOLEAN /\ reconnect \in BOOLEAN
  /\ offline \in BOOLEAN /\ indicator \in BOOLEAN /\ meta \in BOOLEAN /\ peak \in BOOLEAN
  /\ synced \in BOOLEAN /\ up \in BOOLEAN /\ faults \in 0..MaxFaults /\ odd \in Oddities

Init ==
  /\ sk = [cur |-> Socket("connecting", "connect", TRUE), ghost |-> NoSocket]
  /\ connected = FALSE /\ outageSeen = FALSE /\ reconnect = FALSE /\ offline = FALSE
  /\ indicator = FALSE /\ meta = FALSE /\ peak = FALSE
  /\ synced = FALSE /\ up \in BOOLEAN /\ faults = 0 /\ odd \in Oddities

-----------------------------------------------------------------------------
\* Mutant: the events of a superseded socket count as well.
AnySocket(s) == sk[s].ready # "none"

\* isCurrent.
Current(s) == s = "cur" /\ sk[s].ready # "none" /\ sk[s].mine

\* Mutant: the page waits for the next online or visible event.
NoReconnect == reconnect' = reconnect

ScheduleReconnect == reconnect' = TRUE

StartMetadataPolling == meta' = TRUE

StopMetadataPolling == meta' = FALSE

\* disconnect of the current socket, which is left in readyState ready.
Disconnect(ready) ==
  /\ sk' = [cur |-> NoSocket, ghost |-> [sk["cur"] EXCEPT !.ready = ready, !.timer = "none"]]
  /\ connected' = FALSE /\ outageSeen' = TRUE /\ offline' = TRUE
  /\ peak' = FALSE /\ StartMetadataPolling /\ ScheduleReconnect
  /\ UNCHANGED indicator

\* connectWebSocket: nothing while a socket is connecting or open.  A socket
\* that is closing is replaced without a disconnect.
ConnectWebSocket ==
  IF sk["cur"].ready \in {"connecting", "open"}
  THEN UNCHANGED <<sk, page>>
  ELSE \/ /\ sk' = [cur   |-> Socket("connecting", "connect", TRUE),
                    ghost |-> IF sk["cur"].ready = "none" THEN sk["ghost"]
                              ELSE [sk["cur"] EXCEPT !.mine = FALSE]]
          /\ reconnect' = FALSE
          /\ UNCHANGED <<connected, outageSeen, offline, indicator, meta, peak>>
       \/ /\ "throws" \in odd
          /\ sk' = [sk EXCEPT !["cur"].mine = FALSE]
          /\ offline' = TRUE /\ StartMetadataPolling /\ ScheduleReconnect
          /\ UNCHANGED <<connected, outageSeen, indicator, peak>>

\* The reconnect timer fires.
ReconnectFires ==
  /\ reconnect
  /\ IF sk["cur"].ready \in {"connecting", "open"}
     THEN reconnect' = FALSE /\ UNCHANGED <<sk, connected, outageSeen, offline, indicator, meta, peak>>
     ELSE ConnectWebSocket
  /\ UNCHANGED <<synced, env>>

\* The browser is online again.
Online == ConnectWebSocket /\ UNCHANGED <<synced, env>>

\* Mutant: what was missed is not read again.
NoResync == UNCHANGED synced

\* resyncAfterReconnect: everything is read again over HTTP.
ResyncAfterReconnect == synced' = (synced \/ up)

\* The page becomes visible: a full read if connected, and a connection.
Visible ==
  /\ ConnectWebSocket
  /\ IF connected THEN ResyncAfterReconnect ELSE UNCHANGED synced
  /\ UNCHANGED env

\* The socket after onopen has replaced the connect timeout by the heartbeat.
Opened(k) == [k EXCEPT !.ready = "open", !.live = TRUE, !.init = TRUE, !.timer = "heartbeat"]

HideIndicator == offline' = FALSE /\ indicator' = FALSE

\* onopen.
OnOpen(s) ==
  /\ sk[s].ready = "connecting" /\ up /\ Current(s)
  /\ sk' = [sk EXCEPT ![s] = Opened(@)]
  /\ connected' = TRUE /\ outageSeen' = FALSE
  /\ HideIndicator /\ StopMetadataPolling /\ peak' = TRUE
  /\ UNCHANGED <<reconnect, synced, env>>

\* onclose.
OnClose(s) ==
  /\ sk[s].ready = "closing"
  /\ IF Current(s) THEN Disconnect("closed")
                   ELSE sk' = [sk EXCEPT ![s].ready = "closed"] /\ UNCHANGED page
  /\ UNCHANGED <<synced, env>>

\* onerror: the connection is refused, or the transport breaks.
OnError(s) ==
  /\ \/ sk[s].ready = "connecting" /\ ~up
     \/ sk[s].ready = "open" /\ ~sk[s].live
  /\ IF Current(s) THEN Disconnect("closing")
                   ELSE sk' = [sk EXCEPT ![s].ready = "closing"] /\ UNCHANGED page
  /\ UNCHANGED <<synced, env>>

\* The connection attempt takes too long: closeUnresponsiveSocket.
ConnectTimeout(s) ==
  /\ sk[s].timer = "connect" /\ (sk[s].ready = "connecting" => "late" \in odd \/ ~up)
  /\ IF Current(s) THEN Disconnect("closing")
                   ELSE sk' = [sk EXCEPT ![s].timer = "none"] /\ UNCHANGED page
  /\ UNCHANGED <<synced, env>>

\* Mutant: a missing pong is not noticed.
NeverSilent(s) == FALSE

\* The last ping was not answered.
Silent(s) == sk[s].awaiting

\* heartbeat: the socket is given up, or another ping is sent.
Heartbeat(s) ==
  /\ sk[s].timer = "heartbeat"
  /\ (sk[s].awaiting /\ sk[s].ready = "open" /\ sk[s].live => "late" \in odd)
  /\ CASE Current(s) /\ Silent(s)  -> Disconnect("closing")
       [] Current(s) /\ ~Silent(s) -> sk' = [sk EXCEPT ![s].awaiting = TRUE] /\ UNCHANGED page
       [] ~Current(s)              -> sk' = [sk EXCEPT ![s].timer = "none"] /\ UNCHANGED page
  /\ UNCHANGED <<synced, env>>

\* onmessage: a pong.
OnPong(s) ==
  /\ sk[s].ready = "open" /\ sk[s].live /\ sk[s].awaiting
  /\ sk' = [sk EXCEPT ![s].awaiting = ~Current(s)]
  /\ UNCHANGED <<page, synced, env>>

\* onmessage: init, which ends in resyncAfterReconnect.
OnInit(s) ==
  /\ sk[s].ready = "open" /\ sk[s].live /\ sk[s].init
  /\ sk' = [sk EXCEPT ![s].init = FALSE]
  /\ IF Current(s) THEN ResyncAfterReconnect ELSE UNCHANGED synced
  /\ UNCHANGED <<page, env>>

\* The offline indicator's timer.
OfflineFires ==
  /\ offline /\ offline' = FALSE
  /\ indicator' = (indicator \/ ~connected)
  /\ UNCHANGED <<sk, connected, outageSeen, reconnect, meta, peak, synced, env>>

-----------------------------------------------------------------------------
(* The environment.                                                        *)

\* The server or the network goes away: the open sockets are closed or left half-open.
Lose ==
  /\ up /\ faults < MaxFaults /\ up' = FALSE /\ faults' = faults + 1
  /\ \E closed \in BOOLEAN :
       sk' = [s \in DOMAIN sk |-> IF sk[s].ready = "open"
                                  THEN [sk[s] EXCEPT !.live = FALSE, !.init = FALSE,
                                                     !.ready = IF closed THEN "closing" ELSE @]
                                  ELSE sk[s]]
  /\ UNCHANGED <<page, synced, odd>>

\* It is back.
Restore == ~up /\ up' = TRUE /\ UNCHANGED <<sk, page, synced, faults, odd>>

\* The server closes one connection, or a middlebox drops it silently.
ServerCloses ==
  /\ faults < MaxFaults /\ sk["cur"].ready = "open" /\ sk["cur"].live
  /\ faults' = faults + 1
  /\ \E r \in {"open", "closing"} :
       sk' = [sk EXCEPT !["cur"] = [@ EXCEPT !.live = FALSE, !.init = FALSE, !.ready = r]]
  /\ UNCHANGED <<page, synced, up, odd>>

\* The server changes while no live socket would tell the page.
PushMissed ==
  /\ synced /\ ~(sk["cur"].ready = "open" /\ sk["cur"].live)
  /\ synced' = FALSE
  /\ UNCHANGED <<sk, page, env>>

SocketStep(s) == \/ OnOpen(s) \/ OnClose(s) \/ OnError(s)
                 \/ ConnectTimeout(s) \/ Heartbeat(s) \/ OnPong(s) \/ OnInit(s)

Next == \/ \E s \in {"cur", "ghost"} : SocketStep(s)
        \/ ReconnectFires \/ Online \/ Visible \/ OfflineFires
        \/ Lose \/ Restore \/ ServerCloses \/ PushMissed

\* Timers fire and the browser delivers the events of its sockets.
Fairness ==
  /\ WF_vars(ReconnectFires) /\ WF_vars(OfflineFires)
  /\ WF_vars(OnOpen("cur")) /\ WF_vars(OnClose("cur")) /\ WF_vars(ConnectTimeout("cur"))
  /\ WF_vars(Heartbeat("cur")) /\ WF_vars(OnPong("cur")) /\ WF_vars(OnInit("cur"))

Spec == Init /\ [][Next]_vars /\ Fairness

-----------------------------------------------------------------------------
\* The page never sits without a connection that nothing will replace: a
\* reconnect timer is set, or the current socket is watched by its connect
\* timeout or heartbeat (connectWebSocket, disconnect, heartbeat).
NeverStranded ==
  \/ reconnect
  \/ Current("cur") /\ sk["cur"].timer # "none"

\* The two polls of /api/status take turns: the slow one runs from an outage to
\* the next open socket, the fast one while the page counts as connected, and
\* both together only if creating a socket may throw.
OnePoll ==
  /\ outageSeen => meta
  /\ connected => peak
  /\ (meta /\ peak) => "throws" \in odd

\* The offline indicator is never up beside a connection (onopen, the indicator's timer).
IndicatorHonest == indicator => ~connected

\* A connection whose answers come in time is never given up, whatever late
\* events the sockets before it still deliver (isCurrent).
HealthyKept ==
  [][("late" \notin odd /\ sk["cur"].ready = "open" /\ sk["cur"].live /\ sk'["cur"].ready # "open")
       => faults' # faults]_vars

\* Once the server stays reachable and answers in time, the page stays connected, with
\* every push it missed recovered and the indicator gone; half-open sockets included.
Reconnects == (odd = {} /\ <>[]up) => <>[](connected /\ sk["cur"].live /\ synced /\ ~indicator)

\* When the server stays away the page says so and falls back to its slow poll,
\* also when the old transport never reports the loss.
OutageShown == (odd = {} /\ <>[]~up) => <>[](~connected /\ indicator /\ meta)

\* What holds of the connection at every moment.
LinkSafe == TypeOK /\ NeverStranded /\ OnePoll /\ IndicatorHonest
=============================================================================
