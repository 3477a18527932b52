----------------------------- MODULE WebLinkProof -----------------------------
(***************************************************************************)
(* LinkSafe and HealthyKept of module WebLink, for any number of faults    *)
(* and whatever oddities a behaviour has.                                  *)
(***************************************************************************)
EXTENDS WebLink, TLAPS

\* A socket that may still open or answer is the page's own, under its connect timeout
\* or its heartbeat.
Watched(k) ==
  /\ k.ready = "connecting" => k.mine /\ k.timer = "connect"
  /\ k.ready = "open" => k.mine /\ k.timer = "heartbeat"

SocketInv ==
  /\ sk \in [{"cur", "ghost"} -> Sockets]
  /\ Watched(sk["cur"]) /\ NeverStranded

\* The page's flags, with what they say about each other.
PageInv ==
  /\ connected \in BOOLEAN /\ outageSeen \in BOOLEAN /\ reconnect \in BOOLEAN
  /\ offline \in BOOLEAN /\ indicator \in BOOLEAN /\ meta \in BOOLEAN /\ peak \in BOOLEAN
  /\ OnePoll /\ IndicatorHonest

\* The types of the rest.
EnvOK == synced \in BOOLEAN /\ up \in BOOLEAN /\ faults \in 0..MaxFaults /\ odd \in Oddities

\* The inductive invariant.
LinkInv == SocketInv /\ PageInv /\ EnvOK

-----------------------------------------------------------------------------
\* Sockets.

\* What the proofs need of the constants.
LEMMA FaultsNat == MaxFaults \in Nat
  BY LinkAssumption

\* The two sockets of a handler that replaces both.
LEMMA SocketPair ==
  ASSUME NEW c \in Sockets, NEW g \in Sockets
  PROVE  LET p == [cur |-> c, ghost |-> g]
         IN p \in [{"cur", "ghost"} -> Sockets] /\ p["cur"] = c /\ p["ghost"] = g
  OBVIOUS

\* A new socket.
LEMMA NewSocket ==
  ASSUME NEW r \in {"none", "connecting"}, NEW t \in {"none", "connect"}, NEW m \in BOOLEAN
  PROVE  LET k == Socket(r, t, m) IN k \in Sockets /\ k.ready = r /\ k.timer = t /\ k.mine = m
  BY DEF Socket, Sockets, Timers

\* One socket changes and the page does not: an own socket must stay watched, or a
\* reconnect be due.
LEMMA OneSocket ==
  ASSUME LinkInv, UNCHANGED page, UNCHANGED odd, NEW s \in {"cur", "ghost"}, NEW k \in Sockets,
         sk' = [sk EXCEPT ![s] = k],
         s = "cur" => Watched(k) /\ (reconnect \/ (k.ready # "none" /\ k.mine /\ k.timer # "none"))
  PROVE  SocketInv' /\ PageInv'
<1>1. sk' \in [{"cur", "ghost"} -> Sockets] /\ sk'["cur"] = IF s = "cur" THEN k ELSE sk["cur"]
  BY DEF LinkInv, SocketInv
<1>2. Watched(sk'["cur"]) /\ NeverStranded'
  BY <1>1 DEF LinkInv, SocketInv, NeverStranded, Current, page
<1>3. PageInv'
  BY DEF LinkInv, PageInv, OnePoll, IndicatorHonest, page
<1> QED BY <1>1, <1>2, <1>3 DEF SocketInv

\* The environment's variables.
LEMMA SameEnv == ASSUME LinkInv, UNCHANGED env, synced' \in BOOLEAN PROVE EnvOK'
  BY DEF LinkInv, EnvOK, env

\* disconnect starts the slow poll and the reconnect timer.
LEMMA DisconnectOK ==
  ASSUME LinkInv, NEW r \in {"closing", "closed"}, Disconnect(r), UNCHANGED odd
  PROVE  SocketInv' /\ PageInv'
<1> DEFINE g == [sk["cur"] EXCEPT !.ready = r, !.timer = "none"]
<1>1. sk["cur"] \in Sockets
  BY DEF LinkInv, SocketInv
<1>2. g \in Sockets
  BY <1>1 DEF Sockets, Timers
<1>3. NoSocket \in Sockets /\ NoSocket.ready = "none"
  BY NewSocket DEF NoSocket
<1> HIDE DEF g
<1>4. sk' \in [{"cur", "ghost"} -> Sockets] /\ sk'["cur"] = NoSocket
  BY <1>2, <1>3, SocketPair DEF Disconnect, g
<1>5. SocketInv'
  BY <1>3, <1>4 DEF SocketInv, NeverStranded, Watched, Disconnect, ScheduleReconnect
<1>6. PageInv'
  BY DEF LinkInv, PageInv, OnePoll, IndicatorHonest, Disconnect, ScheduleReconnect, StartMetadataPolling
<1> QED BY <1>5, <1>6

\* connectWebSocket leaves an open socket alone, and otherwise a new one or a timer.
LEMMA ConnectOK ==
  ASSUME LinkInv, ConnectWebSocket, UNCHANGED odd
  PROVE  SocketInv' /\ PageInv'
<1>1. CASE sk["cur"].ready \in {"connecting", "open"}
  BY <1>1 DEF ConnectWebSocket, LinkInv, SocketInv, PageInv, OnePoll, IndicatorHonest,
              NeverStranded, Current, page
<1>2. CASE /\ sk' = [cur   |-> Socket("connecting", "connect", TRUE),
                     ghost |-> IF sk["cur"].ready = "none" THEN sk["ghost"]
                               ELSE [sk["cur"] EXCEPT !.mine = FALSE]]
           /\ reconnect' = FALSE
           /\ UNCHANGED <<connected, outageSeen, offline, indicator, meta, peak>>
  <2> DEFINE c == Socket("connecting", "connect", TRUE)
             g == IF sk["cur"].ready = "none" THEN sk["ghost"] ELSE [sk["cur"] EXCEPT !.mine = FALSE]
  <2>1. c \in Sockets /\ c.ready = "connecting" /\ c.timer = "connect" /\ c.mine
    BY NewSocket
  <2>2. g \in Sockets
    BY DEF LinkInv, SocketInv, Sockets
  <2>3. sk' = [cur |-> c, ghost |-> g]
    BY <1>2
  <2> HIDE DEF c, g
  <2>4. sk' \in [{"cur", "ghost"} -> Sockets] /\ sk'["cur"] = c
    BY <2>1, <2>2, <2>3, SocketPair
  <2>5. SocketInv'
    BY <2>1, <2>4 DEF SocketInv, Watched, NeverStranded, Current
  <2>6. PageInv'
    BY <1>2 DEF LinkInv, PageInv, OnePoll, IndicatorHonest
  <2> QED BY <2>5, <2>6
<1>3. CASE /\ sk["cur"].ready \notin {"connecting", "open"} /\ "throws" \in odd
           /\ sk' = [sk EXCEPT !["cur"].mine = FALSE]
           /\ offline' = TRUE /\ StartMetadataPolling /\ ScheduleReconnect
           /\ UNCHANGED <<connected, outageSeen, indicator, peak>>
  <2> DEFINE k == [sk["cur"] EXCEPT !.mine = FALSE]
  <2>1. k \in Sockets /\ k.ready = sk["cur"].ready
    BY DEF LinkInv, SocketInv, Sockets
  <2>2. sk' = [sk EXCEPT !["cur"] = k]
    BY <1>3
  <2> HIDE DEF k
  <2>3. sk' \in [{"cur", "ghost"} -> Sockets] /\ sk'["cur"] = k
    BY <2>1, <2>2 DEF LinkInv, SocketInv
  <2>4. SocketInv'
    BY <1>3, <2>1, <2>3 DEF SocketInv, Watched, NeverStranded, ScheduleReconnect
  <2>5. PageInv'
    BY <1>3 DEF LinkInv, PageInv, OnePoll, IndicatorHonest, StartMetadataPolling, ScheduleReconnect
  <2> QED BY <2>4, <2>5
<1> QED BY <1>1, <1>2, <1>3 DEF ConnectWebSocket

-----------------------------------------------------------------------------
\* The actions.

\* Nothing closes the window between a timer that has fired and the next socket.
LEMMA ReconnectFiresKeeps == ASSUME LinkInv, ReconnectFires PROVE LinkInv'
<1>1. EnvOK' /\ UNCHANGED odd
  BY SameEnv DEF ReconnectFires, LinkInv, EnvOK, env
<1>2. CASE sk["cur"].ready \in {"connecting", "open"}
  <2>1. UNCHANGED <<sk, connected, outageSeen, offline, indicator, meta, peak>> /\ reconnect' = FALSE
    BY <1>2 DEF ReconnectFires
  <2>2. SocketInv'
    BY <1>2, <2>1 DEF LinkInv, SocketInv, NeverStranded, Watched, Current
  <2>3. PageInv'
    BY <1>1, <2>1 DEF LinkInv, PageInv, OnePoll, IndicatorHonest
  <2> QED BY <1>1, <2>2, <2>3 DEF LinkInv
<1>3. CASE sk["cur"].ready \notin {"connecting", "open"}
  BY <1>1, <1>3, ConnectOK DEF ReconnectFires, LinkInv
<1> QED BY <1>2, <1>3

\* The browser's events.
LEMMA OnlineKeeps == ASSUME LinkInv, Online PROVE LinkInv'
<1>1. EnvOK' /\ UNCHANGED odd
  BY SameEnv DEF Online, LinkInv, EnvOK, env
<1> QED BY <1>1, ConnectOK DEF Online, LinkInv

LEMMA VisibleKeeps == ASSUME LinkInv, Visible PROVE LinkInv'
<1>1. synced' \in BOOLEAN
  BY DEF Visible, ResyncAfterReconnect, LinkInv, EnvOK
<1>2. EnvOK' /\ UNCHANGED odd
  BY <1>1, SameEnv DEF Visible, env
<1> QED BY <1>2, ConnectOK DEF Visible, LinkInv

\* onopen hands over from the slow poll to the fast one.
LEMMA OnOpenKeeps == ASSUME LinkInv, NEW s \in {"cur", "ghost"}, OnOpen(s) PROVE LinkInv'
<1> DEFINE k == Opened(sk[s])
<1>1. s = "cur" /\ sk[s] \in Sockets /\ sk[s].mine
  BY DEF OnOpen, Current, LinkInv, SocketInv
<1>2. k \in Sockets /\ k.ready = "open" /\ k.timer = "heartbeat" /\ k.mine
  BY <1>1 DEF Opened, Sockets, Timers
<1>3. sk' = [sk EXCEPT ![s] = k]
  BY DEF OnOpen
<1> HIDE DEF k
<1>4. sk' \in [{"cur", "ghost"} -> Sockets] /\ sk'["cur"] = k
  BY <1>1, <1>2, <1>3 DEF LinkInv, SocketInv
<1>5. SocketInv'
  BY <1>2, <1>4 DEF SocketInv, Watched, NeverStranded, Current
<1>6. PageInv'
  BY DEF OnOpen, LinkInv, PageInv, OnePoll, IndicatorHonest, HideIndicator, StopMetadataPolling
<1>7. EnvOK'
  BY SameEnv DEF OnOpen, LinkInv, EnvOK
<1> QED BY <1>5, <1>6, <1>7 DEF LinkInv

\* The end of a socket: the current one is disconnected, another one only changes itself.
LEMMA SocketEndKeeps ==
  ASSUME LinkInv, NEW s \in {"cur", "ghost"}, NEW k \in Sockets, UNCHANGED <<synced, env>>,
         NEW r \in {"closing", "closed"},
         IF Current(s) THEN Disconnect(r) ELSE sk' = [sk EXCEPT ![s] = k] /\ UNCHANGED page,
         Watched(sk[s]) => Watched(k)
  PROVE  LinkInv'
<1>1. EnvOK' /\ UNCHANGED odd
  BY SameEnv DEF LinkInv, EnvOK, env
<1>2. CASE Current(s)
  BY <1>1, <1>2, DisconnectOK DEF LinkInv
<1>3. CASE ~Current(s)
  <2>1. s = "cur" => reconnect /\ Watched(k)
    BY <1>3 DEF LinkInv, SocketInv, NeverStranded
  <2> QED BY <1>1, <1>3, <2>1, OneSocket DEF LinkInv
<1> QED BY <1>2, <1>3

LEMMA OnCloseKeeps == ASSUME LinkInv, NEW s \in {"cur", "ghost"}, OnClose(s) PROVE LinkInv'
<1> DEFINE k == [sk[s] EXCEPT !.ready = "closed"]
<1>1. k \in Sockets /\ k.ready = "closed"
  BY DEF LinkInv, SocketInv, Sockets
<1>2. IF Current(s) THEN Disconnect("closed") ELSE sk' = [sk EXCEPT ![s] = k] /\ UNCHANGED page
  BY DEF OnClose
<1>3. UNCHANGED <<synced, env>>
  BY DEF OnClose
<1> HIDE DEF k
<1>4. Watched(k)
  BY <1>1 DEF Watched
<1> QED BY <1>1, <1>2, <1>3, <1>4, SocketEndKeeps

LEMMA OnErrorKeeps == ASSUME LinkInv, NEW s \in {"cur", "ghost"}, OnError(s) PROVE LinkInv'
<1> DEFINE k == [sk[s] EXCEPT !.ready = "closing"]
<1>1. k \in Sockets /\ k.ready = "closing"
  BY DEF LinkInv, SocketInv, Sockets
<1>2. IF Current(s) THEN Disconnect("closing") ELSE sk' = [sk EXCEPT ![s] = k] /\ UNCHANGED page
  BY DEF OnError
<1>3. UNCHANGED <<synced, env>>
  BY DEF OnError
<1> HIDE DEF k
<1>4. Watched(k)
  BY <1>1 DEF Watched
<1> QED BY <1>1, <1>2, <1>3, <1>4, SocketEndKeeps

\* A timer of a socket that is not the page's dies with its next turn.
LEMMA TimerDies ==
  ASSUME LinkInv, NEW s \in {"cur", "ghost"}, ~Current(s), UNCHANGED <<synced, env>>,
         sk' = [sk EXCEPT ![s].timer = "none"], UNCHANGED page
  PROVE  LinkInv'
<1> DEFINE k == [sk[s] EXCEPT !.timer = "none"]
<1>1. k \in Sockets /\ k.ready = sk[s].ready /\ k.mine = sk[s].mine
  BY DEF LinkInv, SocketInv, Sockets, Timers
<1>2. sk' = [sk EXCEPT ![s] = k]
  OBVIOUS
<1> HIDE DEF k
<1>3. s = "cur" => reconnect /\ sk[s].ready \notin {"connecting", "open"}
  BY DEF LinkInv, SocketInv, NeverStranded, Watched, Current
<1>4. s = "cur" => Watched(k)
  BY <1>1, <1>3 DEF Watched
<1>5. SocketInv' /\ PageInv'
  BY <1>1, <1>2, <1>3, <1>4, OneSocket DEF env
<1> QED BY <1>5, SameEnv DEF LinkInv, EnvOK

LEMMA ConnectTimeoutKeeps == ASSUME LinkInv, NEW s \in {"cur", "ghost"}, ConnectTimeout(s) PROVE LinkInv'
<1>1. UNCHANGED <<synced, env>> /\ UNCHANGED odd
  BY DEF ConnectTimeout, env
<1>2. CASE Current(s)
  BY <1>1, <1>2, DisconnectOK, SameEnv DEF ConnectTimeout, LinkInv, EnvOK
<1>3. CASE ~Current(s)
  BY <1>1, <1>3, TimerDies DEF ConnectTimeout
<1> QED BY <1>2, <1>3

LEMMA HeartbeatKeeps == ASSUME LinkInv, NEW s \in {"cur", "ghost"}, Heartbeat(s) PROVE LinkInv'
<1>1. UNCHANGED <<synced, env>> /\ UNCHANGED odd
  BY DEF Heartbeat, env
<1>2. CASE Current(s) /\ Silent(s)
  BY <1>1, <1>2, DisconnectOK, SameEnv DEF Heartbeat, LinkInv, EnvOK
<1>3. CASE Current(s) /\ ~Silent(s)
  <2> DEFINE k == [sk[s] EXCEPT !.awaiting = TRUE]
  <2>1. sk' = [sk EXCEPT ![s] = k] /\ UNCHANGED page
    BY <1>3 DEF Heartbeat
  <2>2. k \in Sockets /\ k.ready = sk[s].ready /\ k.mine = sk[s].mine /\ k.timer = sk[s].timer
    BY DEF LinkInv, SocketInv, Sockets
  <2> HIDE DEF k
  <2>3. Watched(k) /\ k.ready # "none" /\ k.mine /\ k.timer # "none"
    BY <1>3, <2>2 DEF Current, LinkInv, SocketInv, Watched, Heartbeat
  <2> QED BY <1>1, <2>1, <2>2, <2>3, OneSocket, SameEnv DEF LinkInv, EnvOK
<1>4. CASE ~Current(s)
  BY <1>1, <1>4, TimerDies DEF Heartbeat
<1> QED BY <1>2, <1>3, <1>4

\* A message changes neither the readyState nor the timers.
LEMMA MessageKeeps ==
  ASSUME LinkInv, NEW s \in {"cur", "ghost"}, OnPong(s) \/ OnInit(s)
  PROVE  LinkInv'
<1>1. UNCHANGED <<page, env>> /\ UNCHANGED odd /\ synced' \in BOOLEAN
  BY DEF env, OnPong, OnInit, ResyncAfterReconnect, LinkInv, EnvOK
<1>2. sk[s] \in Sockets
  BY DEF LinkInv, SocketInv
<1>3. \E k \in Sockets : /\ sk' = [sk EXCEPT ![s] = k] /\ k.ready = sk[s].ready
                         /\ k.mine = sk[s].mine /\ k.timer = sk[s].timer
  <2>1. CASE OnPong(s)
    <3> DEFINE b == ~Current(s)
               k == [sk[s] EXCEPT !.awaiting = b]
    <3>1. b \in BOOLEAN
      BY Zenon
    <3>2. sk' = [sk EXCEPT ![s] = k]
      BY <2>1 DEF OnPong
    <3> HIDE DEF b
    <3>3. k \in Sockets /\ k.ready = sk[s].ready /\ k.mine = sk[s].mine /\ k.timer = sk[s].timer
      BY <1>2, <3>1 DEF Sockets
    <3> HIDE DEF k
    <3> QED BY <3>2, <3>3
  <2>2. CASE OnInit(s)
    <3> DEFINE k == [sk[s] EXCEPT !.init = FALSE]
    <3>1. sk' = [sk EXCEPT ![s] = k]
      BY <2>2 DEF OnInit
    <3>2. k \in Sockets /\ k.ready = sk[s].ready /\ k.mine = sk[s].mine /\ k.timer = sk[s].timer
      BY <1>2 DEF Sockets
    <3> HIDE DEF k
    <3> QED BY <3>1, <3>2
  <2> QED BY <2>1, <2>2
<1>4. SocketInv' /\ PageInv'
  <2> PICK k \in Sockets : /\ sk' = [sk EXCEPT ![s] = k] /\ k.ready = sk[s].ready
                           /\ k.mine = sk[s].mine /\ k.timer = sk[s].timer
    BY <1>3
  <2>1. s = "cur" => Watched(k) /\ (reconnect \/ (k.ready # "none" /\ k.mine /\ k.timer # "none"))
    BY DEF LinkInv, SocketInv, Watched, NeverStranded, Current
  <2> QED BY <1>1, <2>1, OneSocket
<1> QED BY <1>1, <1>4, SameEnv DEF LinkInv

LEMMA OfflineFiresKeeps == ASSUME LinkInv, OfflineFires PROVE LinkInv'
<1>1. SocketInv'
  BY DEF OfflineFires, LinkInv, SocketInv, NeverStranded, Current
<1>2. PageInv'
  BY DEF OfflineFires, LinkInv, PageInv, OnePoll, IndicatorHonest, env
<1>3. EnvOK'
  BY SameEnv DEF OfflineFires, LinkInv, EnvOK
<1> QED BY <1>1, <1>2, <1>3 DEF LinkInv

\* A lost connection leaves the timers of its socket.
LEMMA LoseKeeps == ASSUME LinkInv, Lose PROVE LinkInv'
<1>1. PICK closed \in BOOLEAN :
        sk' = [s \in DOMAIN sk |-> IF sk[s].ready = "open"
                                   THEN [sk[s] EXCEPT !.live = FALSE, !.init = FALSE,
                                                      !.ready = IF closed THEN "closing" ELSE @]
                                   ELSE sk[s]]
  BY DEF Lose
<1> DEFINE k(s) == IF sk[s].ready = "open"
                   THEN [sk[s] EXCEPT !.live = FALSE, !.init = FALSE,
                                      !.ready = IF closed THEN "closing" ELSE @]
                   ELSE sk[s]
<1>2. ASSUME NEW s \in {"cur", "ghost"}
      PROVE  /\ k(s) \in Sockets /\ k(s).mine = sk[s].mine /\ k(s).timer = sk[s].timer
             /\ k(s).ready = sk[s].ready \/ (k(s).ready = "closing" /\ sk[s].ready = "open")
  <2>1. sk[s] \in Sockets
    BY DEF LinkInv, SocketInv
  <2> QED BY <2>1 DEF Sockets
<1>3. sk' = [s \in {"cur", "ghost"} |-> k(s)]
  BY <1>1 DEF LinkInv, SocketInv
<1> HIDE DEF k
<1>4. sk' \in [{"cur", "ghost"} -> Sockets] /\ sk'["cur"] = k("cur")
  BY <1>2, <1>3
<1>5. SocketInv'
  BY <1>2, <1>4 DEF LinkInv, SocketInv, Watched, NeverStranded, Current, Lose, page
<1>6. PageInv'
  BY DEF Lose, LinkInv, PageInv, OnePoll, IndicatorHonest, page
<1>7. EnvOK'
  <2>1. faults < MaxFaults /\ faults' = faults + 1 /\ up' = FALSE /\ UNCHANGED <<synced, odd>>
    BY DEF Lose
  <2>2. faults' \in 0..MaxFaults
    BY <2>1, FaultsNat DEF LinkInv, EnvOK
  <2> QED BY <2>1, <2>2 DEF LinkInv, EnvOK
<1> QED BY <1>5, <1>6, <1>7 DEF LinkInv

LEMMA ServerClosesKeeps == ASSUME LinkInv, ServerCloses PROVE LinkInv'
<1>1. PICK r \in {"open", "closing"} :
        sk' = [sk EXCEPT !["cur"] = [@ EXCEPT !.live = FALSE, !.init = FALSE, !.ready = r]]
  BY DEF ServerCloses
<1> DEFINE k == [sk["cur"] EXCEPT !.live = FALSE, !.init = FALSE, !.ready = r]
<1>2. k \in Sockets /\ k.ready = r /\ k.mine = sk["cur"].mine /\ k.timer = sk["cur"].timer
  BY DEF LinkInv, SocketInv, Sockets
<1>3. sk' = [sk EXCEPT !["cur"] = k] /\ UNCHANGED page /\ sk["cur"].ready = "open"
  BY <1>1 DEF ServerCloses
<1> HIDE DEF k
<1>4. Watched(k) /\ k.ready # "none" /\ k.mine /\ k.timer # "none"
  BY <1>2, <1>3 DEF LinkInv, SocketInv, Watched
<1>5. EnvOK'
  BY FaultsNat DEF ServerCloses, LinkInv, EnvOK
<1>6. UNCHANGED odd
  BY DEF ServerCloses
<1> QED BY <1>2, <1>3, <1>4, <1>5, <1>6, OneSocket DEF LinkInv

LEMMA QuietKeeps == ASSUME LinkInv, Restore \/ PushMissed \/ UNCHANGED vars PROVE LinkInv'
<1>1. UNCHANGED <<sk, page, faults, odd>> /\ synced' \in BOOLEAN /\ up' \in BOOLEAN
  BY DEF Restore, PushMissed, vars, env, LinkInv, EnvOK
<1>2. SocketInv'
  BY <1>1 DEF LinkInv, SocketInv, NeverStranded, Current, page
<1>3. PageInv'
  BY <1>1 DEF LinkInv, PageInv, OnePoll, IndicatorHonest, page
<1> QED BY <1>1, <1>2, <1>3 DEF LinkInv, EnvOK

-----------------------------------------------------------------------------
\* The page starts with a socket that is connecting.
LEMMA InitLink == Init => LinkInv
<1> SUFFICES ASSUME Init PROVE LinkInv
  OBVIOUS
<1> DEFINE c == Socket("connecting", "connect", TRUE)
<1>1. c \in Sockets /\ c.ready = "connecting" /\ c.timer = "connect" /\ c.mine
  BY NewSocket
<1>2. NoSocket \in Sockets
  BY NewSocket DEF NoSocket
<1>3. sk = [cur |-> c, ghost |-> NoSocket]
  BY DEF Init
<1> HIDE DEF c
<1>4. sk \in [{"cur", "ghost"} -> Sockets] /\ sk["cur"] = c
  BY <1>1, <1>2, <1>3, SocketPair
<1>5. SocketInv
  BY <1>1, <1>4 DEF SocketInv, Watched, NeverStranded, Current
<1>6. PageInv
  BY DEF Init, PageInv, OnePoll, IndicatorHonest
<1>7. EnvOK
  <2>1. synced = FALSE /\ up \in BOOLEAN /\ faults = 0 /\ odd \in Oddities
    BY DEF Init
  <2>2. faults \in 0..MaxFaults
    BY <2>1, FaultsNat
  <2>3. synced \in BOOLEAN
    BY <2>1, Zenon
  <2> QED BY <2>1, <2>2, <2>3, Zenon DEF EnvOK
<1> QED BY <1>5, <1>6, <1>7 DEF LinkInv

LEMMA NextLink == LinkInv /\ [Next]_vars => LinkInv'
<1> SUFFICES ASSUME LinkInv, [Next]_vars PROVE LinkInv'
  OBVIOUS
<1>1. CASE \E s \in {"cur", "ghost"} : SocketStep(s)
  BY <1>1, OnOpenKeeps, OnCloseKeeps, OnErrorKeeps, ConnectTimeoutKeeps, HeartbeatKeeps, MessageKeeps
     DEF SocketStep
<1>2. CASE ReconnectFires \/ Online \/ Visible \/ OfflineFires
  BY <1>2, ReconnectFiresKeeps, OnlineKeeps, VisibleKeeps, OfflineFiresKeeps
<1>3. CASE Lose \/ ServerCloses
  BY <1>3, LoseKeeps, ServerClosesKeeps
<1>4. CASE Restore \/ PushMissed \/ UNCHANGED vars
  BY <1>4, QuietKeeps
<1> QED BY <1>1, <1>2, <1>3, <1>4 DEF Next

LEMMA LinkInductive == Spec => []LinkInv
  BY InitLink, NextLink, PTL DEF Spec

\* The page is never left without a way back, its two polls take turns, and it never
\* shows itself offline beside a connection.
THEOREM LinkAlwaysSafe == Spec => []LinkSafe
<1>1. LinkInv => LinkSafe
  BY DEF LinkInv, SocketInv, PageInv, EnvOK, Watched, LinkSafe, TypeOK
<1> QED BY <1>1, LinkInductive, PTL

-----------------------------------------------------------------------------
\* A socket that is open and live changes its readyState only in a fault, if answers
\* come in time.
LEMMA HealthyStep ==
  ASSUME LinkInv, [Next]_vars, "late" \notin odd, sk["cur"].ready = "open", sk["cur"].live,
         faults' = faults
  PROVE  sk'["cur"].ready = "open"
<1>1. sk["cur"] \in Sockets /\ sk \in [{"cur", "ghost"} -> Sockets] /\ sk["cur"].timer = "heartbeat"
      /\ Current("cur") /\ ~Current("ghost")
  BY DEF LinkInv, SocketInv, Watched, Current
<1>2. faults \in Nat
  BY FaultsNat DEF LinkInv, EnvOK
<1>3. ~Lose /\ ~ServerCloses
  <2>1. faults' # faults + 1
    BY <1>2
  <2> QED BY <2>1 DEF Lose, ServerCloses
<1>4. CASE SocketStep("ghost")
  <2>1. sk'["cur"] = sk["cur"]
    BY <1>1, <1>4 DEF SocketStep, OnOpen, OnClose, OnError, ConnectTimeout, Heartbeat, OnPong, OnInit
  <2> QED BY <2>1
<1>5. CASE SocketStep("cur")
  <2>1. CASE Heartbeat("cur")
    <3>1. ~Silent("cur")
      BY <2>1 DEF Heartbeat, Silent
    <3>2. sk' = [sk EXCEPT !["cur"].awaiting = TRUE]
      BY <1>1, <2>1, <3>1 DEF Heartbeat
    <3> QED BY <1>1, <3>2 DEF Sockets
  <2>2. CASE OnPong("cur") \/ OnInit("cur")
    BY <1>1, <2>2 DEF OnPong, OnInit, Sockets
  <2> QED BY <1>1, <1>5, <2>1, <2>2 DEF SocketStep, OnOpen, OnClose, OnError, ConnectTimeout
<1>6. CASE ReconnectFires \/ Online \/ Visible \/ OfflineFires
  BY <1>6 DEF ReconnectFires, Online, Visible, OfflineFires, ConnectWebSocket
<1>7. CASE Restore \/ PushMissed \/ UNCHANGED vars
  BY <1>7 DEF Restore, PushMissed, vars
<1> QED BY <1>3, <1>4, <1>5, <1>6, <1>7 DEF Next

\* A connection whose answers come in time is given up only when it fails, whatever the
\* sockets before it still deliver.
THEOREM HealthyAlwaysKept == Spec => HealthyKept
<1>1. LinkInv /\ [Next]_vars =>
        [("late" \notin odd /\ sk["cur"].ready = "open" /\ sk["cur"].live /\ sk'["cur"].ready # "open")
           => faults' # faults]_vars
  BY HealthyStep
<1> QED BY <1>1, LinkInductive, PTL DEF Spec, HealthyKept
==============================================================================
