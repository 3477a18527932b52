---------------------------- MODULE FreshnessProof ----------------------------
(***************************************************************************)
(* ReloadSafe of module Freshness, for any number of versions and deploys, *)
(* with deploys that are taken back and caches that keep the old shell.    *)
(* The argument is one of credit: every reload that may still come has a   *)
(* deploy that no earlier reload was for.                                  *)
(***************************************************************************)
EXTENDS Freshness, TLAPS

\* The page would reload for version v.
Wanted(v) == v \notin {None, boot, reloadedFor}

\* A version the page has heard of: a reload for it needs a deploy of its own, and one more
\* if the server has moved on, since the page may then reload again for what it lists now.
Funded(v) ==
  Wanted(v) => reloads < deploys /\ (v # served => reloads + 1 < deploys)

CreditInv ==
  /\ reloads <= deploys
  /\ Funded(served)
  /\ checking \in Versions => Funded(checking)
  /\ timer => Funded(stale)

\* The page always knows what it booted with, so only news makes a reload pending.
BootInv == boot \in Versions /\ PendingIsStale

ReloadInv == TypeOK /\ BootInv /\ CreditInv

-----------------------------------------------------------------------------
\* What the proofs need of the constants.
LEMMA ConstOK == None \notin Versions /\ "no" \notin Signatures /\ "asked" \notin Signatures
  BY FreshnessAssumption DEF Signatures

LEMMA Counters == ASSUME TypeOK PROVE deploys \in Nat /\ reloads \in Nat
  BY FreshnessAssumption DEF TypeOK

\* A step that leaves the page's versions and the counts alone, apart from a pending
\* reload or a check that ends.
LEMMA SameVersions ==
  ASSUME ReloadInv, UNCHANGED <<boot, reloadedFor, server, reloads>>,
         checking' = checking \/ checking' \notin Versions \/ checking' = served,
         \/ stale' = stale /\ timer' = timer
         \/ ~timer'
         \/ stale' \in Versions /\ stale' # boot /\ Funded(stale')
  PROVE  BootInv' /\ CreditInv'
<1>1. UNCHANGED <<served, deploys>>
  BY DEF server
<1> QED BY <1>1, ConstOK DEF ReloadInv, BootInv, PendingIsStale, CreditInv, Funded, Wanted

LEMMA CheckKeeps ==
  ASSUME ReloadInv, (\E r \in BOOLEAN : Check(r)) \/ Answer \/ CheckFails \/ MinutePasses \/ Use \/ Idle
  PROVE  ReloadInv'
<1>1. /\ UNCHANGED <<boot, stale, reloadedFor, timer, server, reloads>>
      /\ checking' = checking \/ checking' \in {"asked", "no", None} \/ checking' = served
  BY DEF Check, Answer, CheckFails, MinutePasses, Use, Idle
<1>2. recent' \in BOOLEAN /\ inUse' \in BOOLEAN
  BY DEF Check, Answer, CheckFails, MinutePasses, Use, Idle, ReloadInv, TypeOK
<1>3. TypeOK'
  BY <1>1, <1>2 DEF ReloadInv, TypeOK, Signatures, server
<1>4. BootInv' /\ CreditInv'
  BY <1>1, ConstOK, SameVersions DEF Signatures
<1> QED BY <1>3, <1>4 DEF ReloadInv

\* A reload spends the credit of its version; what the server lists by then keeps its own.
LEMMA ReloadKeeps ==
  ASSUME ReloadInv, NEW v \in Versions, Wanted(v), Funded(v), Reload(v), UNCHANGED server
  PROVE  ReloadInv'
<1>1. deploys \in Nat /\ reloads \in Nat
  BY Counters DEF ReloadInv
<1>2. /\ boot' = served \/ boot' = boot
      /\ reloadedFor' = v /\ reloads' = reloads + 1 /\ ~timer' /\ checking' \notin Versions
      /\ UNCHANGED <<served, deploys>>
  BY ConstOK DEF Reload, server, Signatures
<1>3. boot' \in Versions
  BY <1>2 DEF ReloadInv, BootInv, TypeOK
<1>4. BootInv'
  BY <1>2, <1>3 DEF BootInv, PendingIsStale
<1>5. reloads' <= deploys'
  BY <1>1, <1>2 DEF Funded
<1>6. Funded(served)'
  <2>1. CASE boot' = served \/ v = served
    BY <1>2, <2>1 DEF Funded, Wanted
  <2>2. CASE boot' = boot /\ v # served
    BY <1>1, <1>2, <2>2 DEF Funded, Wanted
  <2> QED BY <1>2, <2>1, <2>2
<1>7. TypeOK'
  <2>1. reloads' \in Nat
    BY <1>1, <1>2
  <2> QED BY <1>3, <2>1 DEF Reload, ReloadInv, TypeOK, Signatures, server
<1> QED BY <1>2, <1>4, <1>5, <1>6, <1>7 DEF ReloadInv, CreditInv

LEMMA CheckedKeeps == ASSUME ReloadInv, Checked PROVE ReloadInv'
<1>1. checking \in Signatures /\ UNCHANGED server
  BY DEF Checked
<1>2. CASE UpToDate(checking)
  <2>1. /\ stale' = None /\ timer' = FALSE /\ checking' = "no"
        /\ UNCHANGED <<boot, reloadedFor, recent, inUse, reloads>>
    BY <1>2 DEF Checked, CancelReload
  <2>2. TypeOK'
    BY <1>1, <2>1 DEF ReloadInv, TypeOK, Signatures, server
  <2> QED BY <1>1, <2>1, <2>2, ConstOK, SameVersions DEF ReloadInv, Signatures
<1>3. CASE ~UpToDate(checking)
  <2>1. checking \in Versions /\ checking # boot /\ Funded(checking) /\ ReloadWhenIdle(checking)
    BY <1>1, <1>3 DEF Checked, UpToDate, Signatures, ReloadInv, CreditInv
  <2>2. CASE ~DoneFor(checking) /\ ~inUse /\ Reload(checking)
    BY <1>1, <2>1, <2>2, ReloadKeeps DEF DoneFor, Wanted
  <2>3. CASE /\ stale' = checking /\ timer' \in BOOLEAN /\ checking' = "no"
             /\ UNCHANGED <<boot, reloadedFor, recent, inUse, reloads>>
    <3>1. TypeOK'
      BY <1>1, <2>1, <2>3 DEF ReloadInv, TypeOK, Signatures, server
    <3>2. stale' \in Versions /\ stale' # boot /\ Funded(stale')
      BY <2>1, <2>3 DEF Funded, Wanted
    <3>3. BootInv' /\ CreditInv'
      BY <1>1, <2>3, <3>2, ConstOK, SameVersions DEF Signatures
    <3> QED BY <3>1, <3>3 DEF ReloadInv
  <2> QED BY <2>1, <2>2, <2>3 DEF ReloadWhenIdle
<1> QED BY <1>2, <1>3

LEMMA TimerKeeps == ASSUME ReloadInv, TimerFires PROVE ReloadInv'
<1>1. timer /\ stale \in Versions /\ stale # boot /\ Funded(stale) /\ UNCHANGED server
  BY DEF TimerFires, ReloadInv, TypeOK, BootInv, PendingIsStale, CreditInv
<1>2. CASE ~DoneFor(stale) /\ Reload(stale)
  BY <1>1, <1>2, ConstOK, ReloadKeeps DEF DoneFor, Wanted
<1>3. CASE /\ UNCHANGED <<boot, stale, reloadedFor, checking, recent, inUse, reloads>>
           /\ timer' = timer \/ timer' = FALSE
  <2>1. TypeOK'
    BY <1>1, <1>3 DEF ReloadInv, TypeOK, server
  <2>2. BootInv' /\ CreditInv'
    BY <1>1, <1>3, SameVersions
  <2> QED BY <2>1, <2>2 DEF ReloadInv
<1> QED BY <1>2, <1>3 DEF TimerFires

\* A deploy pays for one reload more.
LEMMA DeployKeeps == ASSUME ReloadInv, Deploy PROVE ReloadInv'
<1>1. deploys \in Nat /\ reloads \in Nat
  BY Counters DEF ReloadInv
<1>2. /\ deploys < MaxDeploys /\ deploys' = deploys + 1 /\ served' \in Versions
      /\ used' = used \cup {served'}
      /\ UNCHANGED <<boot, stale, reloadedFor, timer, checking, recent, inUse, odd, reloads>>
  BY DEF Deploy
<1>3. TypeOK'
  <2>1. deploys' \in 0..MaxDeploys
    BY <1>1, <1>2, FreshnessAssumption
  <2> QED BY <1>2, <2>1 DEF ReloadInv, TypeOK
<1>4. BootInv'
  BY <1>2 DEF ReloadInv, BootInv, PendingIsStale
<1>5. ASSUME NEW v, Funded(v) PROVE Wanted(v) => reloads + 1 < deploys'
  BY <1>1, <1>2, <1>5 DEF Funded
<1>6. reloads' <= deploys' /\ reloads < deploys'
  BY <1>1, <1>2 DEF ReloadInv, CreditInv
<1>7. Funded(served)'
  BY <1>2, <1>6 DEF Funded, Wanted
<1>8. checking \in Versions => Funded(checking)'
  BY <1>2, <1>5, <1>6 DEF ReloadInv, CreditInv, Funded, Wanted
<1>9. timer => Funded(stale)'
  BY <1>2, <1>5, <1>6 DEF ReloadInv, CreditInv, Funded, Wanted
<1> QED BY <1>2, <1>3, <1>4, <1>6, <1>7, <1>8, <1>9 DEF ReloadInv, CreditInv

LEMMA InitReload == Init => ReloadInv
<1> SUFFICES ASSUME Init PROVE ReloadInv
  OBVIOUS
<1>1. 0 \in 0..MaxDeploys /\ deploys = 0 /\ reloads = 0
  BY FreshnessAssumption DEF Init
<1>2. TypeOK
  <2>1. timer \in BOOLEAN /\ recent \in BOOLEAN /\ inUse \in BOOLEAN /\ ~timer
    BY Zenon DEF Init
  <2>2. /\ served \in Versions /\ boot = served /\ used = {served} /\ stale = None
        /\ reloadedFor = None /\ checking = "no" /\ odd \in Oddities
    BY DEF Init
  <2> QED BY <1>1, <2>1, <2>2 DEF TypeOK, Signatures
<1>3. BootInv /\ CreditInv
  BY <1>1, ConstOK DEF Init, BootInv, PendingIsStale, CreditInv, Funded, Wanted, Signatures
<1> QED BY <1>2, <1>3 DEF ReloadInv

LEMMA NextReload == ReloadInv /\ [Next]_vars => ReloadInv'
<1> SUFFICES ASSUME ReloadInv, [Next]_vars PROVE ReloadInv'
  OBVIOUS
<1>1. CASE UNCHANGED vars
  BY <1>1 DEF vars, ReloadInv, TypeOK, BootInv, PendingIsStale, CreditInv, Funded, Wanted
<1> QED BY <1>1, CheckKeeps, CheckedKeeps, TimerKeeps, DeployKeeps DEF Next

\* The page never has a reload pending without news, and never reloads itself more often
\* than the server was deployed, even when rollbacks and a cache bring old versions back.
THEOREM ReloadAlwaysSafe == Spec => []ReloadSafe
<1>1. ReloadInv => ReloadSafe
  BY DEF ReloadInv, BootInv, CreditInv, ReloadSafe, NoReloadLoop
<1> QED BY <1>1, InitReload, NextReload, PTL DEF Spec
==============================================================================
