------------------------------ MODULE Freshness ------------------------------
(***************************************************************************)
(* A page that reloads itself once the server lists other assets than the  *)
(* ones it booted with (static/frontend_freshness.js).  A version stands   *)
(* for a signature, None for the empty one.  Times are abstracted to the   *)
(* two questions the code asks of them: was the last check a minute ago,   *)
(* and the last input?                                                     *)
(***************************************************************************)
EXTENDS Naturals

CONSTANTS
  Versions,    \* the signatures deploys choose from
  None,        \* no signature
  MaxDeploys,
  Oddities     \* sets of oddities, of which a behaviour has one: "rollback", a deploy may
               \* bring a version back; "cached", a reload may be served the old shell again

ASSUME FreshnessAssumption ==
  /\ None \notin Versions /\ MaxDeploys \in Nat /\ Oddities \subseteq SUBSET {"rollback", "cached"}
  /\ (Versions \cup {None}) \cap {"no", "asked"} = {}

VARIABLES
  boot,        \* bootSignature
  stale,       \* staleSignature
  reloadedFor, \* RELOADED_FOR_KEY in sessionStorage, which survives a reload
  timer,       \* reloadTimer is set
  checking,    \* "no", "asked", or the shell that is on its way
  recent,      \* less than MIN_CHECK_GAP_MS since lastCheckAt
  inUse,       \* input less than IDLE_BEFORE_RELOAD_MS ago, or isBusy()
  served,      \* the signature the server lists now
  odd,         \* what may happen in this behaviour, one of Oddities
  deploys, reloads, used  \* history: deploys, automatic reloads, versions served so far

vars == <<boot, stale, reloadedFor, timer, checking, recent, inUse, served, odd, deploys, reloads, used>>
server == <<served, odd, deploys, used>>

Signatures == Versions \cup {None}

TypeOK ==
  /\ boot \in Signatures /\ stale \in Signatures /\ reloadedFor \in Signatures
  /\ timer \in BOOLEAN /\ (timer => stale \in Versions) /\ recent \in BOOLEAN /\ inUse \in BOOLEAN
  /\ checking \in {"no", "asked"} \cup Signatures
  /\ served \in Versions /\ deploys \in 0..MaxDeploys /\ reloads \in Nat /\ used \subseteq Versions
  /\ odd \in Oddities

Init ==
  /\ served \in Versions /\ boot = served /\ used = {served}
  /\ stale = None /\ reloadedFor = None /\ timer = FALSE
  /\ checking = "no" /\ recent = FALSE /\ inUse = TRUE
  /\ deploys = 0 /\ reloads = 0 /\ odd \in Oddities

-----------------------------------------------------------------------------
\* check: an interval and a visible page keep a minute's gap, a reconnect does not.
Check(reconnected) ==
  /\ checking = "no" /\ (reconnected \/ ~recent)
  /\ checking' = "asked" /\ recent' = TRUE
  /\ UNCHANGED <<boot, stale, reloadedFor, timer, inUse, server, reloads>>

\* The server answers with its shell; one that cannot be read has no signature.
Answer ==
  /\ checking = "asked" /\ checking' \in {served, None}
  /\ UNCHANGED <<boot, stale, reloadedFor, timer, recent, inUse, server, reloads>>

\* The request fails, or its status is not ok.
CheckFails ==
  /\ checking = "asked" /\ checking' = "no"
  /\ UNCHANGED <<boot, stale, reloadedFor, timer, recent, inUse, server, reloads>>

\* Mutant: a version is reloaded for again and again.
NeverReloadedFor(v) == v = None

\* Mutant: a page reloads itself only once.
ReloadedOnce(v) == v = None \/ reloadedFor # None

\* A page that has already reloaded for this version does not do so again.
DoneFor(v) == v = None \/ v = reloadedFor

\* The page boots again, with what the server lists by then or what a cache kept.
Reload(v) ==
  /\ reloadedFor' = v /\ reloads' = reloads + 1
  /\ boot' \in {served} \cup (IF "cached" \in odd THEN {boot} ELSE {})
  /\ stale' = None /\ timer' = FALSE /\ checking' = "no" /\ recent' = FALSE /\ inUse' = TRUE

\* reloadWhenIdle for version v.
ReloadWhenIdle(v) ==
  \/ DoneFor(v) /\ stale' = v /\ timer' = FALSE /\ checking' = "no"
     /\ UNCHANGED <<boot, reloadedFor, recent, inUse, reloads>>
  \/ ~DoneFor(v) /\ inUse /\ stale' = v /\ timer' = TRUE /\ checking' = "no"
     /\ UNCHANGED <<boot, reloadedFor, recent, inUse, reloads>>
  \/ ~DoneFor(v) /\ ~inUse /\ Reload(v)

CancelReload == timer' = FALSE

\* The shell says nothing new.
UpToDate(v) == v = None \/ boot = None \/ v = boot

\* The shell arrives.
Checked ==
  /\ checking \in Signatures
  /\ IF UpToDate(checking)
     THEN /\ stale' = None /\ CancelReload /\ checking' = "no"
          /\ UNCHANGED <<boot, reloadedFor, recent, inUse, reloads>>
     ELSE ReloadWhenIdle(checking)
  /\ UNCHANGED server

\* The reload timer fires.
TimerFires ==
  /\ timer
  /\ \/ /\ ~DoneFor(stale) /\ ~inUse /\ Reload(stale)
     \/ /\ ~DoneFor(stale) /\ inUse
        /\ UNCHANGED <<boot, stale, reloadedFor, timer, checking, recent, inUse, reloads>>
     \/ /\ DoneFor(stale) /\ timer' = FALSE
        /\ UNCHANGED <<boot, stale, reloadedFor, checking, recent, inUse, reloads>>
  /\ UNCHANGED server

-----------------------------------------------------------------------------
(* The environment.                                                        *)
Deploy ==
  /\ deploys < MaxDeploys /\ deploys' = deploys + 1
  /\ served' \in IF "rollback" \in odd THEN Versions \ {served} ELSE Versions \ used
  /\ used' = used \cup {served'}
  /\ UNCHANGED <<boot, stale, reloadedFor, timer, checking, recent, inUse, odd, reloads>>

MinutePasses == recent /\ recent' = FALSE
  /\ UNCHANGED <<boot, stale, reloadedFor, timer, checking, inUse, server, reloads>>

\* Input, or an activity that blocks a reload; and its end.
Use  == ~inUse /\ inUse' = TRUE
  /\ UNCHANGED <<boot, stale, reloadedFor, timer, checking, recent, server, reloads>>

Idle == inUse /\ inUse' = FALSE
  /\ UNCHANGED <<boot, stale, reloadedFor, timer, checking, recent, server, reloads>>

Next == \/ \E r \in BOOLEAN : Check(r)
        \/ Answer \/ CheckFails \/ Checked \/ TimerFires
        \/ Deploy \/ MinutePasses \/ Use \/ Idle

\* The interval timer and the reload timer fire, the server answers again and again,
\* and a user who stays away leaves the page idle.
Fairness ==
  /\ WF_vars(Check(FALSE)) /\ WF_vars(MinutePasses) /\ WF_vars(Checked) /\ WF_vars(TimerFires)
  /\ SF_vars(Answer /\ checking' # None) /\ WF_vars(Answer \/ CheckFails)

Spec == Init /\ [][Next]_vars /\ Fairness

-----------------------------------------------------------------------------
\* The page reloads itself at most once for every deploy, also when a reload
\* keeps bringing the old assets back (reloadWhenIdle, rememberReloadedFor).
NoReloadLoop == reloads <= deploys

\* A shell that cannot be read, or that lists the assets the page runs, never
\* leaves a reload pending (check).
PendingIsStale == timer => stale \notin {None, boot}

\* Once deploys have ended and nobody uses the page, it comes to run what the
\* server lists, if no version comes back and no cache keeps one.
BecomesCurrent == (odd = {} /\ <>[](~inUse \/ boot = served)) => <>[](boot = served)

\* The page does not reload without need, and not again and again.
ReloadSafe == TypeOK /\ PendingIsStale /\ NoReloadLoop
=============================================================================
