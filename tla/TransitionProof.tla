---------------------------- MODULE TransitionProof ----------------------------
(***************************************************************************)
(* Module Transition for any number of operations and crashes: its types,  *)
(* and that what it opens, reports and commits is confirmed, in every      *)
(* environment; that a hold which began outside of a restore keeps the     *)
(* output muted; and that the user's mute is kept in an ordinary           *)
(* environment, unless a latch over an open gate loses it.                 *)
(* Each has an inductive invariant, with one lemma for every action that   *)
(* could break it; a proof about types shows the next step and the status  *)
(* fields first, then the flags, then the gate with its marker.            *)
(***************************************************************************)
EXTENDS Transition, TLAPS

\* The types of the coordinator's status fields.
ResultsOK == /\ err \in [tid : 0..MaxTxn, latched : BOOLEAN]
             /\ lastOk \in BOOLEAN /\ commit \in 0..MaxTxn

\* The types of the flags.
FlagsOK == /\ gated \in BOOLEAN /\ tier \in BOOLEAN /\ stale \in BOOLEAN
           /\ snd \in BOOLEAN /\ rm \in BOOLEAN /\ reconciled \in BOOLEAN
           /\ hw \in BOOLEAN /\ dsp \in BOOLEAN
           /\ hold \in BOOLEAN /\ wasMuted \in BOOLEAN /\ intent \in BOOLEAN

\* The types of the gate and its marker.
GateOK == /\ gate \in [closed : BOOLEAN, orig : Origs, tid : 0..MaxTxn, latched : BOOLEAN]
          /\ disk \in Origs \cup {"absent"}

\* The lock is released and the status fields keep their types.
LEMMA EndType == ASSUME TypeOK, NEW o, End(o) PROVE pc' = "idle" /\ pc' \in Steps /\ ResultsOK'
<1>1. [tid |-> 0, latched |-> FALSE] \in [tid : 0..MaxTxn, latched : BOOLEAN]
  BY GateAssumption
<1>2. [tid |-> txn, latched |-> o = "latched"] \in [tid : 0..MaxTxn, latched : BOOLEAN]
  BY DEF TypeOK
<1>3. err' \in [tid : 0..MaxTxn, latched : BOOLEAN]
  <2>1. CASE o \in {"commit", "discard"}
    BY <2>1, <1>1 DEF End, NoError
  <2>2. CASE o \in {"latched", "unlatched"}
    BY <2>2, <1>2, Zenon DEF End
  <2>3. CASE o \notin {"commit", "discard", "latched", "unlatched"}
    BY <2>3 DEF End, TypeOK
  <2> QED BY <2>1, <2>2, <2>3
<1>4. lastOk' \in BOOLEAN /\ commit' \in 0..MaxTxn /\ pc' = "idle"
  BY DEF End, TypeOK
<1> QED BY <1>3, <1>4 DEF ResultsOK, Steps

\* The exception handlers lead to a step.
LEMMA FailType == ASSUME TypeOK, Fail PROVE pc' \in Steps /\ ResultsOK'
  BY EndType DEF Fail, Goto, results, TypeOK, ResultsOK, Steps

\* So do the exceptions of the startup reconciliation.
LEMMA StartupRaisesType == ASSUME TypeOK, StartupRaises PROVE pc' \in Steps /\ ResultsOK'
  BY EndType, FailType DEF StartupRaises

\* So do those of a restore.
LEMMA RestoreFailsType == ASSUME TypeOK, RestoreFails PROVE pc' \in Steps /\ ResultsOK'
  BY EndType, FailType DEF RestoreFails, Goto, results, TypeOK, ResultsOK, Steps

\* A restore that is done ends the operation.
LEMMA RestoreDoneType == ASSUME TypeOK, RestoreDone PROVE pc' = "idle" /\ pc' \in Steps /\ ResultsOK'
  BY EndType DEF RestoreDone

\* A cleanup that gives up latches or ends.
LEMMA GiveUpType == ASSUME TypeOK, GiveUp PROVE pc' \in Steps /\ ResultsOK'
  BY EndType DEF GiveUp, Goto, results, TypeOK, ResultsOK, Steps

\* The groups of variables and the plain step are expanded everywhere.
USE GateAssumption DEF Goto, lockvars, opvars, gatevars, sinkvars, holdvars, results, hist

-----------------------------------------------------------------------------
(* Types, action by action *)

LEMMA BeginTypes == ASSUME TypeOK, NEW r \in Requests, Begin(r) PROVE TypeOK'
<1>1. pc' \in Steps /\ ResultsOK'
  BY DEF TypeOK, ResultsOK, Begin, Steps
<1>2. FlagsOK'
  BY DEF TypeOK, FlagsOK, Begin
<1>3. GateOK'
  BY DEF TypeOK, GateOK, Begin
<1>4. lost' \in BOOLEAN /\ raced' \in BOOLEAN /\ overtaken' \in BOOLEAN
  BY DEF TypeOK, Begin
<1> QED BY <1>1, <1>2, <1>3, <1>4 DEF TypeOK, FlagsOK, Begin

LEMMA StartupUnownedTypes == ASSUME TypeOK, StartupUnowned PROVE TypeOK'
<1>1. pc' \in Steps /\ ResultsOK'
  BY EndType, StartupRaisesType DEF TypeOK, ResultsOK, StartupUnowned, AfterStartup, Steps, Stages
<1>2. FlagsOK'
  <2>1. dsp' \in BOOLEAN /\ hw' \in BOOLEAN /\ reconciled' \in BOOLEAN
    BY DEF TypeOK, StartupUnowned
  <2>2. UNCHANGED <<gated, tier, stale, snd, rm, hold, wasMuted, intent>>
    BY DEF StartupUnowned
  <2> QED BY <2>1, <2>2, Zenon DEF TypeOK, FlagsOK
<1>3. GateOK'
  BY DEF TypeOK, GateOK, StartupUnowned
<1> QED BY <1>1, <1>2, <1>3 DEF TypeOK, ResultsOK, FlagsOK, StartupUnowned

LEMMA StartupOwnedTypes == ASSUME TypeOK, StartupOwned PROVE TypeOK'
<1>1. pc' \in Steps /\ ResultsOK'
  BY DEF TypeOK, ResultsOK, StartupOwned, Steps
<1>2. FlagsOK'
  BY DEF TypeOK, FlagsOK, StartupOwned
<1>3. GateOK'
  BY DEF TypeOK, GateOK, StartupOwned
<1> QED BY <1>1, <1>2, <1>3 DEF TypeOK, FlagsOK, StartupOwned

LEMMA StartupConfirmTypes == ASSUME TypeOK, StartupConfirm PROVE TypeOK'
<1>1. pc' \in Steps /\ ResultsOK'
  BY EndType, StartupRaisesType DEF TypeOK, ResultsOK, StartupConfirm, AfterStartup, Steps, Stages
<1>2. FlagsOK'
  <2>1. reconciled' \in BOOLEAN
    BY DEF TypeOK, StartupConfirm
  <2>2. UNCHANGED <<gated, tier, stale, snd, rm, hw, dsp, hold, wasMuted, intent>>
    BY DEF StartupConfirm
  <2> QED BY <2>1, <2>2, Zenon DEF TypeOK, FlagsOK
<1>3. GateOK'
  <2>1. gate' \in {gate, OpenGate} /\ disk' \in {disk, "absent"}
    BY DEF StartupConfirm, Clear
  <2>2. OpenGate \in [closed : BOOLEAN, orig : Origs, tid : 0..MaxTxn, latched : BOOLEAN]
    BY DEF OpenGate, Origs
  <2> QED BY <2>1, <2>2 DEF TypeOK, GateOK
<1> QED BY <1>1, <1>2, <1>3 DEF TypeOK, ResultsOK, FlagsOK, GateOK, StartupConfirm

LEMMA StartupLatchTypes == ASSUME TypeOK, StartupLatch PROVE TypeOK'
<1>1. pc' \in Steps /\ ResultsOK'
  BY EndType, StartupRaisesType DEF StartupLatch
<1>2. FlagsOK'
  <2>1. hw' \in BOOLEAN
    BY DEF TypeOK, StartupLatch
  <2>2. UNCHANGED <<gated, tier, stale, snd, rm, reconciled, dsp, hold, wasMuted, intent>>
    BY DEF StartupLatch
  <2> QED BY <2>1, <2>2, Zenon DEF TypeOK, FlagsOK
<1>3. GateOK'
  BY DEF TypeOK, GateOK, StartupLatch, Persist
<1> QED BY <1>1, <1>2, <1>3 DEF TypeOK, ResultsOK, FlagsOK, GateOK, StartupLatch

LEMMA StartupDoneTypes == ASSUME TypeOK, StartupDone PROVE TypeOK'
  BY DEF TypeOK, StartupDone, AfterStartup, Steps, Stages

LEMMA CloseGateTypes == ASSUME TypeOK, CloseGate PROVE TypeOK'
<1>1. pc' \in Steps /\ ResultsOK'
  BY EndType, FailType DEF TypeOK, ResultsOK, CloseGate, Steps
<1>2. FlagsOK'
  <2>1. intent' \in BOOLEAN
    BY DEF TypeOK, CloseGate
  <2>2. UNCHANGED <<gated, tier, stale, snd, rm, reconciled, hw, dsp, hold, wasMuted>>
    BY DEF CloseGate
  <2> QED BY <2>1, <2>2, Zenon DEF TypeOK, FlagsOK
<1>3. GateOK'
  <2>1. Captured \in Origs
    BY DEF Captured, AsOrig, Origs, TypeOK
  <2>2. txn \in 0..MaxTxn /\ (gate.latched /\ (req.audible \/ ~Unlatched)) \in BOOLEAN
    BY DEF TypeOK
  <2>3. \/ UNCHANGED <<gate, disk>>
        \/ /\ gate' = [closed |-> TRUE, orig |-> Captured, tid |-> txn,
                       latched |-> gate.latched /\ (req.audible \/ ~Unlatched)]
           /\ disk' \in {disk, Captured}
    BY DEF CloseGate
  <2>4. [closed |-> TRUE, orig |-> Captured, tid |-> txn,
         latched |-> gate.latched /\ (req.audible \/ ~Unlatched)]
           \in [closed : BOOLEAN, orig : Origs, tid : 0..MaxTxn, latched : BOOLEAN]
    BY <2>1, <2>2, Zenon
  <2> QED BY <2>1, <2>3, <2>4 DEF TypeOK, GateOK
<1> QED BY <1>1, <1>2, <1>3 DEF TypeOK, ResultsOK, FlagsOK, GateOK, CloseGate

LEMMA CloseMuteTypes == ASSUME TypeOK, CloseMute PROVE TypeOK'
<1>1. pc' \in Steps /\ ResultsOK'
  BY EndType, FailType DEF TypeOK, ResultsOK, CloseMute, Steps
<1>2. FlagsOK'
  <2>1. hw' \in BOOLEAN
    BY DEF TypeOK, CloseMute
  <2>2. UNCHANGED <<gated, tier, stale, snd, rm, reconciled, dsp, hold, wasMuted, intent>>
    BY DEF CloseMute
  <2> QED BY <2>1, <2>2, Zenon DEF TypeOK, FlagsOK
<1>3. GateOK'
  BY DEF TypeOK, GateOK, CloseMute
<1> QED BY <1>1, <1>2, <1>3 DEF TypeOK, ResultsOK, FlagsOK, CloseMute

LEMMA CloseConfirmTypes == ASSUME TypeOK, CloseConfirm PROVE TypeOK'
<1>1. pc' \in Steps /\ ResultsOK'
  BY EndType, FailType DEF TypeOK, ResultsOK, CloseConfirm, AfterClose, Steps, Stages
<1>2. FlagsOK'
  <2>1. dsp' \in BOOLEAN
    BY DEF TypeOK, CloseConfirm
  <2>2. UNCHANGED <<gated, tier, stale, snd, rm, reconciled, hw, hold, wasMuted, intent>>
    BY DEF CloseConfirm
  <2> QED BY <2>1, <2>2, Zenon DEF TypeOK, FlagsOK
<1>3. GateOK'
  BY DEF TypeOK, GateOK, CloseConfirm
<1> QED BY <1>1, <1>2, <1>3 DEF TypeOK, ResultsOK, FlagsOK, CloseConfirm

LEMMA RestoreCheckTypes == ASSUME TypeOK, RestoreCheck PROVE TypeOK'
<1>1. pc' \in Steps /\ ResultsOK'
  BY EndType, RestoreFailsType DEF TypeOK, ResultsOK, RestoreCheck, Steps
<1>2. FlagsOK'
  <2>1. rm' \in BOOLEAN /\ dsp' \in BOOLEAN
    BY DEF TypeOK, RestoreCheck
  <2>2. UNCHANGED <<gated, tier, stale, snd, reconciled, hw, hold, wasMuted, intent>>
    BY DEF RestoreCheck
  <2> QED BY <2>1, <2>2, Zenon DEF TypeOK, FlagsOK
<1>3. GateOK'
  BY DEF TypeOK, GateOK, RestoreCheck
<1> QED BY <1>1, <1>2, <1>3 DEF TypeOK, ResultsOK, FlagsOK, RestoreCheck

LEMMA RestoreWriteTypes == ASSUME TypeOK, RestoreWrite PROVE TypeOK'
  BY EndType, RestoreFailsType DEF TypeOK, ResultsOK, RestoreWrite, Steps

LEMMA RestoreOpenTypes == ASSUME TypeOK, RestoreOpen PROVE TypeOK'
<1>1. pc' \in Steps /\ ResultsOK'
  BY EndType, RestoreFailsType, RestoreDoneType DEF TypeOK, ResultsOK, RestoreOpen, Steps
<1>2. FlagsOK'
  BY DEF TypeOK, FlagsOK, RestoreOpen
<1>3. GateOK'
  <2>1. gate' \in {gate, OpenGate} /\ disk' \in {disk, "absent"}
    BY DEF RestoreOpen, Clear
  <2>2. OpenGate \in [closed : BOOLEAN, orig : Origs, tid : 0..MaxTxn, latched : BOOLEAN]
    BY DEF OpenGate, Origs
  <2> QED BY <2>1, <2>2 DEF TypeOK, GateOK
<1> QED BY <1>1, <1>2, <1>3 DEF TypeOK, ResultsOK, GateOK, RestoreOpen

LEMMA RestoreVerifyTypes == ASSUME TypeOK, RestoreVerify PROVE TypeOK'
  BY EndType, RestoreFailsType, RestoreDoneType DEF TypeOK, ResultsOK, RestoreVerify

LEMMA LatchTypes == ASSUME TypeOK, Latch PROVE TypeOK'
  BY DEF TypeOK, Latch, Persist, Tid, Steps

LEMMA LatchMuteTypes == ASSUME TypeOK, LatchMute PROVE TypeOK'
<1>1. pc' \in Steps /\ ResultsOK'
  BY EndType DEF LatchMute
<1>2. FlagsOK'
  <2>1. hw' \in BOOLEAN
    BY DEF TypeOK, LatchMute
  <2>2. UNCHANGED <<gated, tier, stale, snd, rm, reconciled, dsp, hold, wasMuted, intent>>
    BY DEF LatchMute
  <2> QED BY <2>1, <2>2, Zenon DEF TypeOK, FlagsOK
<1>3. GateOK'
  BY DEF TypeOK, GateOK, LatchMute
<1> QED BY <1>1, <1>2, <1>3 DEF TypeOK, ResultsOK, FlagsOK, LatchMute

LEMMA LeaseBeginTypes == ASSUME TypeOK, LeaseBegin PROVE TypeOK'
  BY DEF TypeOK, LeaseBegin, Steps

LEMMA LeaseEditTypes == ASSUME TypeOK, LeaseEdit PROVE TypeOK'
<1>1. pc' \in Steps /\ ResultsOK'
  BY EndType, FailType DEF TypeOK, ResultsOK, LeaseEdit, Steps
<1>2. FlagsOK'
  <2>1. hw' \in BOOLEAN /\ snd' \in BOOLEAN
    BY DEF TypeOK, LeaseEdit, EnsureClosed
  <2>2. UNCHANGED <<gated, tier, stale, rm, reconciled, dsp, hold, wasMuted, intent>>
    BY DEF LeaseEdit
  <2> QED BY <2>1, <2>2, Zenon DEF TypeOK, FlagsOK
<1>3. GateOK'
  BY DEF TypeOK, GateOK, LeaseEdit
<1> QED BY <1>1, <1>2, <1>3 DEF TypeOK, ResultsOK, FlagsOK, LeaseEdit

LEMMA LeaseRollbackTypes == ASSUME TypeOK, LeaseRollback PROVE TypeOK'
<1>1. pc' \in Steps /\ ResultsOK'
  BY DEF TypeOK, ResultsOK, LeaseRollback, Steps
<1>2. FlagsOK'
  <2>1. hw' \in BOOLEAN /\ snd' \in BOOLEAN
    BY DEF TypeOK, LeaseRollback, EnsureClosed
  <2>2. UNCHANGED <<gated, tier, stale, rm, reconciled, dsp, hold, wasMuted, intent>>
    BY DEF LeaseRollback
  <2> QED BY <2>1, <2>2, Zenon DEF TypeOK, FlagsOK
<1>3. GateOK'
  BY DEF TypeOK, GateOK, LeaseRollback
<1> QED BY <1>1, <1>2, <1>3 DEF TypeOK, FlagsOK, LeaseRollback

LEMMA AdmitTypes == ASSUME TypeOK, Admit PROVE TypeOK'
  BY EndType DEF TypeOK, ResultsOK, Admit, Steps

LEMMA RevalidateTypes == ASSUME TypeOK, Revalidate PROVE TypeOK'
  BY EndType DEF TypeOK, ResultsOK, Revalidate, Steps, Stages

LEMMA SnapshotTypes == ASSUME TypeOK, Snapshot PROVE TypeOK'
<1>1. pc' \in Steps /\ ResultsOK'
  BY EndType DEF TypeOK, ResultsOK, Snapshot, SkipRestore, Steps, Stages
<1>2. FlagsOK'
  <2>1. gated' \in BOOLEAN /\ snd' \in BOOLEAN
    BY DEF TypeOK, Snapshot, SkipRestore
  <2>2. UNCHANGED <<tier, stale, rm, reconciled, hw, dsp, hold, wasMuted, intent>>
    BY DEF Snapshot
  <2> QED BY <2>1, <2>2, Zenon DEF TypeOK, FlagsOK
<1>3. GateOK'
  BY DEF TypeOK, GateOK, Snapshot
<1> QED BY <1>1, <1>2, <1>3 DEF TypeOK, ResultsOK, FlagsOK, Snapshot, SkipRestore

LEMMA MutateTypes == ASSUME TypeOK, Mutate PROVE TypeOK'
<1>1. pc' \in Steps /\ ResultsOK'
  BY DEF TypeOK, ResultsOK, Mutate, NextStages, Steps, Stages
<1>2. FlagsOK'
  <2>1. hw' \in BOOLEAN /\ tier' \in BOOLEAN
    BY DEF TypeOK, Mutate, EnsureClosed
  <2>2. UNCHANGED <<gated, stale, snd, rm, reconciled, dsp, hold, wasMuted, intent>>
    BY DEF Mutate
  <2> QED BY <2>1, <2>2, Zenon DEF TypeOK, FlagsOK
<1>3. GateOK'
  BY DEF TypeOK, GateOK, Mutate
<1> QED BY <1>1, <1>2, <1>3 DEF TypeOK, FlagsOK, Mutate

LEMMA BeforeTargetStartTypes == ASSUME TypeOK, BeforeTargetStart PROVE TypeOK'
<1>1. pc' \in Steps /\ ResultsOK'
  BY EndType DEF TypeOK, ResultsOK, BeforeTargetStart, SkipRestore, Steps, Stages
<1>2. FlagsOK'
  <2>1. snd' \in BOOLEAN
    BY DEF TypeOK, BeforeTargetStart, SkipRestore
  <2>2. UNCHANGED <<gated, tier, stale, rm, reconciled, hw, dsp, hold, wasMuted, intent>>
    BY DEF BeforeTargetStart
  <2> QED BY <2>1, <2>2, Zenon DEF TypeOK, FlagsOK
<1>3. GateOK'
  BY DEF TypeOK, GateOK, BeforeTargetStart
<1> QED BY <1>1, <1>2, <1>3 DEF TypeOK, ResultsOK, FlagsOK, BeforeTargetStart, SkipRestore

LEMMA StagedReadbackTypes == ASSUME TypeOK, StagedReadback PROVE TypeOK'
  BY DEF TypeOK, StagedReadback, Steps, Stages

LEMMA BeforeCommitReadbackTypes == ASSUME TypeOK, BeforeCommitReadback PROVE TypeOK'
  BY DEF TypeOK, BeforeCommitReadback, Steps, Stages

LEMMA CommitReadbackTypes == ASSUME TypeOK, CommitReadback PROVE TypeOK'
  BY EndType DEF TypeOK, ResultsOK, CommitReadback, Steps, Stages

LEMMA GraphCommitTypes == ASSUME TypeOK, GraphCommit PROVE TypeOK'
  BY DEF TypeOK, GraphCommit, EnsureClosed, Steps, Stages

LEMMA RestoreOutputGateTypes == ASSUME TypeOK, RestoreOutputGate PROVE TypeOK'
<1>1. pc' \in Steps /\ ResultsOK'
  BY DEF TypeOK, ResultsOK, RestoreOutputGate, Steps
<1>2. FlagsOK'
  <2>1. req.audible \in BOOLEAN
    BY DEF TypeOK, Requests
  <2> QED BY <2>1 DEF TypeOK, FlagsOK, RestoreOutputGate, EnsureClosed
<1>3. GateOK'
  BY DEF TypeOK, GateOK, RestoreOutputGate
<1> QED BY <1>1, <1>2, <1>3 DEF TypeOK, RestoreOutputGate, EnsureClosed, Requests

LEMMA FastStartTypes == ASSUME TypeOK, FastStart PROVE TypeOK'
  BY DEF TypeOK, FastStart, Steps, Stages

LEMMA FastReadbackTypes == ASSUME TypeOK, FastReadback PROVE TypeOK'
  BY EndType DEF TypeOK, ResultsOK, FastReadback, Steps

LEMMA StageFailsTypes == ASSUME TypeOK, StageFails PROVE TypeOK'
  BY EndType, FailType DEF TypeOK, ResultsOK, StageFails

LEMMA AbortTypes == ASSUME TypeOK, Abort PROVE TypeOK'
<1>1. pc' \in Steps /\ ResultsOK'
  BY EndType DEF TypeOK, ResultsOK, Abort, Steps
<1>2. FlagsOK'
  <2>1. snd' \in BOOLEAN
    BY DEF TypeOK, Abort
  <2>2. UNCHANGED <<gated, tier, stale, rm, reconciled, hw, dsp, hold, wasMuted, intent>>
    BY DEF Abort
  <2> QED BY <2>1, <2>2, Zenon DEF TypeOK, FlagsOK
<1>3. GateOK'
  BY DEF TypeOK, GateOK, Abort
<1> QED BY <1>1, <1>2, <1>3 DEF TypeOK, ResultsOK, FlagsOK, Abort

LEMMA LinksBeginTypes == ASSUME TypeOK, LinksBegin PROVE TypeOK'
  BY EndType DEF TypeOK, ResultsOK, LinksBegin, Steps

LEMMA LinksRepairTypes == ASSUME TypeOK, LinksRepair PROVE TypeOK'
<1>1. pc' \in Steps /\ ResultsOK'
  BY EndType, FailType DEF TypeOK, ResultsOK, LinksRepair, Steps
<1>2. FlagsOK'
  <2>1. hw' \in BOOLEAN /\ snd' \in BOOLEAN
    BY DEF TypeOK, LinksRepair, EnsureClosed
  <2>2. UNCHANGED <<gated, tier, stale, rm, reconciled, dsp, hold, wasMuted, intent>>
    BY DEF LinksRepair
  <2> QED BY <2>1, <2>2, Zenon DEF TypeOK, FlagsOK
<1>3. GateOK'
  BY DEF TypeOK, GateOK, LinksRepair
<1> QED BY <1>1, <1>2, <1>3 DEF TypeOK, ResultsOK, FlagsOK, LinksRepair

LEMMA CancelUnprotectedTypes == ASSUME TypeOK, CancelUnprotected PROVE TypeOK'
  BY EndType DEF TypeOK, ResultsOK, CancelUnprotected

LEMMA CleanupTypes == ASSUME TypeOK, Cleanup PROVE TypeOK'
  BY EndType, GiveUpType DEF TypeOK, ResultsOK, Cleanup, Steps

LEMMA TierRollbackTypes == ASSUME TypeOK, TierRollback PROVE TypeOK'
<1>1. pc' \in Steps /\ ResultsOK'
  BY EndType DEF TypeOK, ResultsOK, TierRollback, Steps
<1>2. FlagsOK'
  <2>1. req.audible \in BOOLEAN
    BY DEF TypeOK, Requests
  <2>2. hw' \in {hw, TRUE} /\ snd' \in BOOLEAN
    BY <2>1 DEF TypeOK, TierRollback, EnsureClosed
  <2> QED BY <2>2 DEF TypeOK, FlagsOK, TierRollback
<1>3. GateOK'
  BY DEF TypeOK, GateOK, TierRollback
<1> QED BY <1>1, <1>2, <1>3 DEF TypeOK, ResultsOK, FlagsOK, TierRollback

LEMMA AbortHookTypes == ASSUME TypeOK, AbortHook PROVE TypeOK'
  BY EndType, GiveUpType DEF TypeOK, ResultsOK, AbortHook, Steps

LEMMA RestoreRateTypes == ASSUME TypeOK, RestoreRate PROVE TypeOK'
<1>1. pc' \in Steps /\ ResultsOK'
  BY EndType, GiveUpType DEF TypeOK, ResultsOK, RestoreRate, Steps
<1>2. FlagsOK'
  <2>1. hw' \in BOOLEAN
    BY DEF TypeOK, RestoreRate, EnsureClosed
  <2>2. UNCHANGED <<gated, tier, stale, snd, rm, reconciled, dsp, hold, wasMuted, intent>>
    BY DEF RestoreRate
  <2> QED BY <2>1, <2>2, Zenon DEF TypeOK, FlagsOK
<1>3. GateOK'
  BY DEF TypeOK, GateOK, RestoreRate
<1> QED BY <1>1, <1>2, <1>3 DEF TypeOK, ResultsOK, FlagsOK, RestoreRate

LEMMA RestoreReadbackTypes == ASSUME TypeOK, RestoreReadback PROVE TypeOK'
<1>1. pc' \in Steps /\ ResultsOK'
  BY EndType, GiveUpType DEF TypeOK, ResultsOK, RestoreReadback, Steps
<1>2. FlagsOK'
  <2>1. hw' \in BOOLEAN
    BY DEF TypeOK, RestoreReadback, EnsureClosed
  <2>2. UNCHANGED <<gated, tier, stale, snd, rm, reconciled, dsp, hold, wasMuted, intent>>
    BY DEF RestoreReadback
  <2> QED BY <2>1, <2>2, Zenon DEF TypeOK, FlagsOK
<1>3. GateOK'
  BY DEF TypeOK, GateOK, RestoreReadback
<1> QED BY <1>1, <1>2, <1>3 DEF TypeOK, ResultsOK, FlagsOK, RestoreReadback

LEMMA UserSetsMuteTypes == ASSUME TypeOK, UserSetsMute PROVE TypeOK'
<1>1. hw' \in BOOLEAN /\ intent' \in BOOLEAN /\ lost' \in BOOLEAN
  BY DEF TypeOK, UserSetsMute
<1>2. UNCHANGED <<lockvars, gatevars, dsp, holdvars, results, raced, overtaken, crashes>>
  BY DEF UserSetsMute
<1> QED BY <1>1, <1>2 DEF TypeOK

LEMMA DisturbTypes == ASSUME TypeOK, Disturb PROVE TypeOK'
  BY DEF TypeOK, Disturb

LEMMA DspMutedTypes == ASSUME TypeOK, DspMuted PROVE TypeOK'
  BY DEF TypeOK, DspMuted

LEMMA SourceSwitchedTypes == ASSUME TypeOK, SourceSwitched PROVE TypeOK'
  BY DEF TypeOK, SourceSwitched

LEMMA CrashTypes == ASSUME TypeOK, Crash PROVE TypeOK'
<1>1. pc' \in Steps /\ ResultsOK'
  <2>1. err' \in [tid : 0..MaxTxn, latched : BOOLEAN]
    BY DEF Crash, NoError
  <2>2. commit' \in 0..MaxTxn
    <3>1. commit' = 0
      BY DEF Crash
    <3> QED BY <3>1
  <2>3. lastOk' \in BOOLEAN
    BY DEF Crash
  <2>4. pc' \in Steps
    BY DEF Crash, Steps
  <2> QED BY <2>1, <2>2, <2>3, <2>4 DEF ResultsOK
<1>2. FlagsOK'
  BY DEF TypeOK, FlagsOK, Crash
<1>3. GateOK'
  BY DEF TypeOK, GateOK, Crash, OpenGate, Origs
<1>4. lost' \in BOOLEAN /\ raced' \in BOOLEAN /\ overtaken' \in BOOLEAN
  BY DEF TypeOK, Crash
<1> QED BY <1>1, <1>2, <1>3, <1>4 DEF TypeOK, ResultsOK, FlagsOK, GateOK, Crash, BootRequest, Requests

LEMMA HoldTypes == ASSUME TypeOK, HoldMute \/ HoldSet \/ HoldLift \/ HoldClear PROVE TypeOK'
<1>1. hw' \in BOOLEAN /\ hold' \in BOOLEAN /\ wasMuted' \in BOOLEAN
      /\ spl' \in {"off", "muting", "on", "lifting"} /\ raced' \in BOOLEAN
  BY DEF TypeOK, HoldMute, HoldSet, HoldLift, HoldClear
<1>2. UNCHANGED <<lockvars, gatevars, dsp, results, intent, lost, overtaken, crashes>>
  BY DEF HoldMute, HoldSet, HoldLift, HoldClear
<1> QED BY <1>1, <1>2 DEF TypeOK

LEMMA StutterTypes == ASSUME TypeOK, UNCHANGED vars PROVE TypeOK'
  BY DEF TypeOK, vars

LEMMA InitTypes == ASSUME Init PROVE TypeOK
<1> USE DEF Init
<1>1. pc \in Steps /\ req \in Requests /\ 0 \in 0..MaxTxn /\ 0 \in 0..MaxCrashes
  BY DEF Steps, Requests, BootRequest
<1>2. gate \in [closed : BOOLEAN, orig : Origs, tid : 0..MaxTxn, latched : BOOLEAN]
  BY <1>1 DEF OpenGate, Origs
<1>3. err \in [tid : 0..MaxTxn, latched : BOOLEAN]
  BY <1>1 DEF NoError
<1> QED BY <1>1, <1>2, <1>3 DEF TypeOK

LEMMA NextTypes == ASSUME TypeOK, [Next]_vars PROVE TypeOK'
<1>1. CASE \E r \in Requests : Begin(r)
  BY <1>1, BeginTypes
<1>2. CASE GateNext
  BY <1>2, StartupUnownedTypes, StartupOwnedTypes, StartupConfirmTypes, StartupLatchTypes,
     StartupDoneTypes, CloseGateTypes, CloseMuteTypes, CloseConfirmTypes, RestoreCheckTypes,
     RestoreWriteTypes, RestoreOpenTypes, RestoreVerifyTypes, LatchTypes, LatchMuteTypes,
     LeaseBeginTypes, LeaseEditTypes, LeaseRollbackTypes DEF GateNext
<1>3. CASE CoordinatorNext
  BY <1>3, AdmitTypes, RevalidateTypes, SnapshotTypes, MutateTypes, BeforeTargetStartTypes,
     StagedReadbackTypes, BeforeCommitReadbackTypes, CommitReadbackTypes, GraphCommitTypes,
     RestoreOutputGateTypes, FastStartTypes, FastReadbackTypes, StageFailsTypes, AbortTypes,
     LinksBeginTypes, LinksRepairTypes, CancelUnprotectedTypes, CleanupTypes, TierRollbackTypes,
     AbortHookTypes, RestoreRateTypes, RestoreReadbackTypes DEF CoordinatorNext
<1>4. CASE Environment
  BY <1>4, UserSetsMuteTypes, DisturbTypes, DspMutedTypes, SourceSwitchedTypes, HoldTypes, CrashTypes
     DEF Environment
<1>5. CASE UNCHANGED vars
  BY <1>5, StutterTypes
<1> QED BY <1>1, <1>2, <1>3, <1>4, <1>5 DEF Next, Coordinator

\* The coordinator's state, the gate and its marker keep their types, in any environment.
THEOREM TransitionTypes == Spec => []TypeOK
<1>1. Init => TypeOK
  BY InitTypes
<1>2. TypeOK /\ [Next]_vars => TypeOK'
  BY NextTypes
<1> QED BY <1>1, <1>2, PTL DEF Spec

-----------------------------------------------------------------------------
(* What is opened, reported and committed, in any environment *)

\* The steps of a restore; those before an operation has touched the graph; those of a
\* transition that has closed its gate.
Restoring == {"gate-check", "gate-write", "gate-confirm", "gate-opened"}
Untouched == Unread \cup {"admit", "snapshot", "lease", "links", "output-gate-close", "gate-mute",
                          "gate-muted"}
UnderGate == {"quiet-old-source", "before-target-start", "target-rate", "effects-helper-links",
              "graph-commit", "target-source-prepare", "target-source-start",
              "staged-graph-readback", "before-commit-readback", "source-volume-restore",
              "commit-readback", "before-output-gate-restore", "restore-readback"}

\* An open gate has no unread graph behind it, unless the operation was discarded; a
\* restore begins over a graph that was read back.
GraphInv ==
  /\ (gated /\ graph = "dirty" /\ ~gate.closed)
       => pc \in {"idle", "gate-opened"} /\ why \in {"abort", "skip"}
  /\ pc \in Restoring => graph = "confirmed" \/ why \in {"abort", "skip"}
  /\ (pc = "before-output-gate-restore" \/ (gated /\ pc = "before-commit-readback"))
       => graph = "confirmed"
  /\ pc \in Untouched => graph = "untouched"

\* Where the gate is closed, and where it is open.
GateInv ==
  /\ pc \in {"gate-mute", "gate-muted", "gate-check", "gate-write", "gate-confirm", "lease-edit",
             "lease-rollback", "links-repair"} => gate.closed
  /\ (gated /\ pc \in UnderGate) => gate.closed
  /\ pc \in {"fast-quiet", "fast-start", "fast-readback"} => ~gated
  /\ pc = "gate-opened" => snd /\ ~gate.closed /\ ~gate.latched

\* Whether the caller of a restore asks for sound.
CallerInv ==
  pc \in Restoring => /\ why \in {"skip", "lease", "lease-back"} => ~snd
                      /\ why = "commit" => snd = req.audible
                      /\ why = "links" => snd

\* What last_error says of the latch; it is of an earlier operation until this one ends.
ReportInv ==
  /\ GatedReport /\ err.tid <= txn
  /\ pc # "idle" => err = NoError \/ err.tid # txn
  /\ pc = "latch-mute" => gate.latched
  /\ pc = "tier-rollback" => tier

SoundInv == GraphInv /\ GateInv /\ CallerInv /\ ReportInv

\* What a step of the lock holder does to last_error: nothing, clear it, or end the operation
\* with its own error.
Told == \/ err' = err \/ err' = NoError
        \/ pc' = "idle" /\ err'.tid = txn /\ (tier' \/ ~gated' \/ err'.latched = gate'.latched)

LEMMA Reports ==
  ASSUME TypeOK, ReportInv, pc # "idle", UNCHANGED txn, Told,
         pc' = "latch-mute" => gate'.latched, pc' = "tier-rollback" => tier'
  PROVE  ReportInv'
<1>1. txn \in Nat /\ NoError.tid = 0
  BY DEF TypeOK, NoError
<1> QED BY <1>1 DEF ReportInv, GatedReport, Told

LEMMA EndTold ==
  ASSUME NEW o, End(o), tier' \/ ~gated' \/ o \notin {"latched", "unlatched"} \/ gate'.latched = (o = "latched")
  PROVE  Told /\ pc' = "idle"
<1>1. CASE o \in {"commit", "discard"}
  BY <1>1 DEF End, Told
<1>2. CASE o = "latched"
  BY <1>2 DEF End, Told
<1>3. CASE o = "unlatched"
  BY <1>3 DEF End, Told
<1>4. CASE o \notin {"commit", "discard", "latched", "unlatched"}
  BY <1>4 DEF End, Told
<1> QED BY <1>1, <1>2, <1>3, <1>4

LEMMA FailTold ==
  ASSUME Fail, UNCHANGED tier
  PROVE  Told /\ pc' \notin {"latch-mute", "tier-rollback"}
  BY EndTold DEF Fail, Told

LEMMA RaisesTold ==
  ASSUME StartupRaises \/ RestoreFails, UNCHANGED tier
  PROVE  Told /\ pc' \notin {"latch-mute", "tier-rollback"}
  BY EndTold, FailTold DEF StartupRaises, RestoreFails, Told

LEMMA DoneTold ==
  ASSUME RestoreDone, ~gate'.latched
  PROVE  Told /\ pc' = "idle"
<1>1. gate'.latched = FALSE => gate'.latched = ("unlatched" = "latched")
  OBVIOUS
<1> QED BY EndTold, <1>1 DEF RestoreDone

LEMMA GiveUpTold ==
  ASSUME GiveUp, UNCHANGED gated
  PROVE  Told /\ pc' \notin {"latch-mute", "tier-rollback"}
  BY EndTold DEF GiveUp, Told

LEMMA BeginSound == ASSUME TypeOK, SoundInv, NEW r \in Requests, Begin(r) PROVE SoundInv'
<1> USE DEF TypeOK, SoundInv
<1>1. GraphInv' /\ GateInv' /\ CallerInv'
  BY DEF GraphInv, GateInv, CallerInv, Begin, Transitions, Restoring, Untouched, UnderGate, Unread
<1>2. ReportInv'
  BY DEF ReportInv, GatedReport, GateInv, Begin, Transitions, NoError
<1> QED BY <1>1, <1>2

LEMMA StartupUnownedSound == ASSUME TypeOK, SoundInv, StartupUnowned PROVE SoundInv'
<1> USE DEF TypeOK, SoundInv
<1>1. GraphInv' /\ GateInv' /\ CallerInv'
  BY DEF GraphInv, GateInv, CallerInv, StartupUnowned, StartupRaises, AfterStartup, Fail, End,
         Unread, Transitions, Restoring, Untouched, UnderGate
<1>2. /\ pc # "idle" /\ UNCHANGED txn /\ Told
      /\ (pc' = "latch-mute" => gate'.latched) /\ (pc' = "tier-rollback" => tier')
  BY RaisesTold DEF StartupUnowned, Told, GateInv, ReportInv, AfterStartup
<1> QED BY <1>1, <1>2, Reports

LEMMA StartupOwnedSound == ASSUME TypeOK, SoundInv, StartupOwned PROVE SoundInv'
<1> USE DEF TypeOK, SoundInv
<1>1. GraphInv' /\ GateInv' /\ CallerInv'
  BY DEF GraphInv, GateInv, CallerInv, StartupOwned, Restoring, Untouched, UnderGate, Unread
<1>2. /\ pc # "idle" /\ UNCHANGED txn /\ Told
      /\ (pc' = "latch-mute" => gate'.latched) /\ (pc' = "tier-rollback" => tier')
  BY DEF StartupOwned, Told, GateInv, ReportInv
<1> QED BY <1>1, <1>2, Reports

LEMMA StartupConfirmSound == ASSUME TypeOK, SoundInv, StartupConfirm PROVE SoundInv'
<1> USE DEF TypeOK, SoundInv
<1>1. GraphInv' /\ GateInv' /\ CallerInv'
  BY DEF GraphInv, GateInv, CallerInv, StartupConfirm, StartupRaises, AfterStartup, OpenGate,
         Fail, End, Unread, Transitions, Restoring, Untouched, UnderGate
<1>2. /\ pc # "idle" /\ UNCHANGED txn /\ Told
      /\ (pc' = "latch-mute" => gate'.latched) /\ (pc' = "tier-rollback" => tier')
  BY RaisesTold DEF StartupConfirm, Told, GateInv, ReportInv, AfterStartup, OpenGate
<1> QED BY <1>1, <1>2, Reports

LEMMA StartupLatchSound == ASSUME TypeOK, SoundInv, StartupLatch PROVE SoundInv'
<1> USE DEF TypeOK, SoundInv
<1>1. GraphInv' /\ GateInv' /\ CallerInv'
  BY DEF GraphInv, GateInv, CallerInv, StartupLatch, StartupRaises, Fail, End, Unread,
         Transitions, Restoring, Untouched, UnderGate
<1>2. /\ pc # "idle" /\ UNCHANGED txn /\ Told
      /\ (pc' = "latch-mute" => gate'.latched) /\ (pc' = "tier-rollback" => tier')
  BY RaisesTold DEF StartupLatch, Told, GateInv, ReportInv
<1> QED BY <1>1, <1>2, Reports

LEMMA StartupDoneSound == ASSUME TypeOK, SoundInv, StartupDone PROVE SoundInv'
<1> USE DEF TypeOK, SoundInv
<1>1. GraphInv' /\ GateInv' /\ CallerInv'
  BY DEF GraphInv, GateInv, CallerInv, StartupDone, AfterStartup, Restoring, Untouched, UnderGate,
         Unread
<1>2. /\ pc # "idle" /\ UNCHANGED txn /\ Told
      /\ (pc' = "latch-mute" => gate'.latched) /\ (pc' = "tier-rollback" => tier')
  BY DEF StartupDone, Told, GateInv, ReportInv, AfterStartup
<1> QED BY <1>1, <1>2, Reports

LEMMA CloseGateSound == ASSUME TypeOK, SoundInv, CloseGate PROVE SoundInv'
<1> USE DEF TypeOK, SoundInv
<1>1. GraphInv' /\ GateInv' /\ CallerInv'
  BY DEF GraphInv, GateInv, CallerInv, CloseGate, Fail, End, Unread, Transitions, Restoring,
         Untouched, UnderGate
<1>2. /\ pc # "idle" /\ UNCHANGED txn /\ Told
      /\ (pc' = "latch-mute" => gate'.latched) /\ (pc' = "tier-rollback" => tier')
  BY FailTold DEF CloseGate, Told, GateInv, ReportInv
<1> QED BY <1>1, <1>2, Reports

LEMMA CloseMuteSound == ASSUME TypeOK, SoundInv, CloseMute PROVE SoundInv'
<1> USE DEF TypeOK, SoundInv
<1>1. GraphInv' /\ GateInv' /\ CallerInv'
  BY DEF GraphInv, GateInv, CallerInv, CloseMute, Fail, End, Unread, Transitions, Restoring,
         Untouched, UnderGate
<1>2. /\ pc # "idle" /\ UNCHANGED txn /\ Told
      /\ (pc' = "latch-mute" => gate'.latched) /\ (pc' = "tier-rollback" => tier')
  BY FailTold DEF CloseMute, Told, GateInv, ReportInv
<1> QED BY <1>1, <1>2, Reports

LEMMA CloseConfirmSound == ASSUME TypeOK, SoundInv, CloseConfirm PROVE SoundInv'
<1> USE DEF TypeOK, SoundInv
<1>1. GraphInv' /\ GateInv' /\ CallerInv'
  BY DEF GraphInv, GateInv, CallerInv, CloseConfirm, Fail, AfterClose, End, Unread, Transitions,
         Restoring, Untouched, UnderGate
<1>2. /\ pc # "idle" /\ UNCHANGED txn /\ Told
      /\ (pc' = "latch-mute" => gate'.latched) /\ (pc' = "tier-rollback" => tier')
  BY FailTold DEF CloseConfirm, Told, GateInv, ReportInv, AfterClose
<1> QED BY <1>1, <1>2, Reports

LEMMA RestoreCheckSound == ASSUME TypeOK, SoundInv, RestoreCheck PROVE SoundInv'
<1> USE DEF TypeOK, SoundInv
<1>1. GraphInv' /\ GateInv' /\ CallerInv'
  BY DEF GraphInv, GateInv, CallerInv, RestoreCheck, RestoreFails, Fail, End, Unread, Transitions,
         Restoring, Untouched, UnderGate
<1>2. /\ pc # "idle" /\ UNCHANGED txn /\ Told
      /\ (pc' = "latch-mute" => gate'.latched) /\ (pc' = "tier-rollback" => tier')
  BY RaisesTold DEF RestoreCheck, Told, GateInv, ReportInv
<1> QED BY <1>1, <1>2, Reports

LEMMA RestoreWriteSound == ASSUME TypeOK, SoundInv, RestoreWrite PROVE SoundInv'
<1> USE DEF TypeOK, SoundInv
<1>1. GraphInv' /\ GateInv' /\ CallerInv'
  BY DEF GraphInv, GateInv, CallerInv, RestoreWrite, RestoreFails, Fail, End, Unread, Transitions,
         Restoring, Untouched, UnderGate
<1>2. /\ pc # "idle" /\ UNCHANGED txn /\ Told
      /\ (pc' = "latch-mute" => gate'.latched) /\ (pc' = "tier-rollback" => tier')
  BY RaisesTold DEF RestoreWrite, Told, GateInv, ReportInv
<1> QED BY <1>1, <1>2, Reports

LEMMA RestoreOpenSound == ASSUME TypeOK, SoundInv, RestoreOpen PROVE SoundInv'
<1> USE DEF TypeOK, SoundInv
<1>1. GraphInv' /\ GateInv' /\ CallerInv'
  <2>1. CASE gate' = OpenGate /\ snd /\ pc' = "gate-opened"
    BY <2>1 DEF GraphInv, GateInv, CallerInv, RestoreOpen, OpenGate, Restoring, Untouched, UnderGate,
           Unread
  <2>2. CASE gate' = OpenGate /\ RestoreDone
    <3>1. pc' = "idle"
      BY <2>2 DEF RestoreDone, End
    <3> QED BY <3>1 DEF GraphInv, GateInv, CallerInv, RestoreOpen, Restoring, Untouched, UnderGate,
           Unread
  <2>3. CASE RestoreFails /\ UNCHANGED gate
    <3>1. pc' \in {"idle", "lease-rollback", "latch", "cleanup"}
      BY <2>3 DEF RestoreFails, Fail, End
    <3> QED BY <2>3, <3>1 DEF GraphInv, GateInv, CallerInv, RestoreOpen, Restoring, Untouched,
           UnderGate, Unread
  <2> QED BY <2>1, <2>2, <2>3 DEF RestoreOpen
<1>2. /\ pc # "idle" /\ UNCHANGED txn /\ Told
      /\ (pc' = "latch-mute" => gate'.latched) /\ (pc' = "tier-rollback" => tier')
  BY RaisesTold, DoneTold DEF RestoreOpen, Told, GateInv, ReportInv, OpenGate
<1> QED BY <1>1, <1>2, Reports

LEMMA RestoreVerifySound == ASSUME TypeOK, SoundInv, RestoreVerify PROVE SoundInv'
<1> USE DEF TypeOK, SoundInv
<1>1. GraphInv' /\ GateInv' /\ CallerInv'
  BY DEF GraphInv, GateInv, CallerInv, RestoreVerify, RestoreFails, RestoreDone, Fail, End,
         Unread, Transitions, Restoring, Untouched, UnderGate
<1>2. /\ pc # "idle" /\ UNCHANGED txn /\ Told
      /\ (pc' = "latch-mute" => gate'.latched) /\ (pc' = "tier-rollback" => tier')
  BY RaisesTold, DoneTold DEF RestoreVerify, Told, GateInv, ReportInv
<1> QED BY <1>1, <1>2, Reports

LEMMA LatchSound == ASSUME TypeOK, SoundInv, Latch PROVE SoundInv'
<1> USE DEF TypeOK, SoundInv
<1>1. GraphInv' /\ GateInv' /\ CallerInv'
  BY DEF GraphInv, GateInv, CallerInv, Latch, Restoring, Untouched, UnderGate, Unread
<1>2. /\ pc # "idle" /\ UNCHANGED txn /\ Told
      /\ (pc' = "latch-mute" => gate'.latched) /\ (pc' = "tier-rollback" => tier')
  BY DEF Latch, Told, GateInv, ReportInv
<1> QED BY <1>1, <1>2, Reports

LEMMA LatchMuteSound == ASSUME TypeOK, SoundInv, LatchMute PROVE SoundInv'
<1> USE DEF TypeOK, SoundInv
<1>1. GraphInv' /\ GateInv' /\ CallerInv'
  BY DEF GraphInv, GateInv, CallerInv, LatchMute, End, Restoring, Untouched, UnderGate, Unread
<1>2. /\ pc # "idle" /\ UNCHANGED txn /\ Told
      /\ (pc' = "latch-mute" => gate'.latched) /\ (pc' = "tier-rollback" => tier')
  BY EndTold DEF LatchMute, Told, GateInv, ReportInv
<1> QED BY <1>1, <1>2, Reports

LEMMA LeaseBeginSound == ASSUME TypeOK, SoundInv, LeaseBegin PROVE SoundInv'
<1> USE DEF TypeOK, SoundInv
<1>1. GraphInv' /\ GateInv' /\ CallerInv'
  BY DEF GraphInv, GateInv, CallerInv, LeaseBegin, Restoring, Untouched, UnderGate, Unread
<1>2. /\ pc # "idle" /\ UNCHANGED txn /\ Told
      /\ (pc' = "latch-mute" => gate'.latched) /\ (pc' = "tier-rollback" => tier')
  BY DEF LeaseBegin, Told, GateInv, ReportInv
<1> QED BY <1>1, <1>2, Reports

LEMMA LeaseEditSound == ASSUME TypeOK, SoundInv, LeaseEdit PROVE SoundInv'
<1> USE DEF TypeOK, SoundInv
<1>1. GraphInv' /\ GateInv' /\ CallerInv'
  BY DEF GraphInv, GateInv, CallerInv, LeaseEdit, Fail, EnsureClosed, End, Unread, Transitions,
         Restoring, Untouched, UnderGate
<1>2. /\ pc # "idle" /\ UNCHANGED txn /\ Told
      /\ (pc' = "latch-mute" => gate'.latched) /\ (pc' = "tier-rollback" => tier')
  BY EndTold, FailTold DEF LeaseEdit, Told, GateInv, ReportInv
<1> QED BY <1>1, <1>2, Reports

LEMMA LeaseRollbackSound == ASSUME TypeOK, SoundInv, LeaseRollback PROVE SoundInv'
<1> USE DEF TypeOK, SoundInv
<1>1. GraphInv' /\ GateInv' /\ CallerInv'
  BY DEF GraphInv, GateInv, CallerInv, LeaseRollback, EnsureClosed, Restoring, Untouched,
         UnderGate, Unread
<1>2. /\ pc # "idle" /\ UNCHANGED txn /\ Told
      /\ (pc' = "latch-mute" => gate'.latched) /\ (pc' = "tier-rollback" => tier')
  BY DEF LeaseRollback, Told, GateInv, ReportInv
<1> QED BY <1>1, <1>2, Reports

LEMMA AdmitSound == ASSUME TypeOK, SoundInv, Admit PROVE SoundInv'
<1> USE DEF TypeOK, SoundInv
<1>1. GraphInv' /\ GateInv' /\ CallerInv'
  BY DEF GraphInv, GateInv, CallerInv, Admit, End, Restoring, Untouched, UnderGate, Unread
<1>2. /\ pc # "idle" /\ UNCHANGED txn /\ Told
      /\ (pc' = "latch-mute" => gate'.latched) /\ (pc' = "tier-rollback" => tier')
  BY EndTold DEF Admit, Told, GateInv, ReportInv
<1> QED BY <1>1, <1>2, Reports

LEMMA RevalidateSound == ASSUME TypeOK, SoundInv, Revalidate PROVE SoundInv'
<1> USE DEF TypeOK, SoundInv
<1>1. GraphInv' /\ GateInv' /\ CallerInv'
  BY DEF GraphInv, GateInv, CallerInv, Revalidate, End, IsStale, Restoring, Untouched, UnderGate,
         Unread
<1>2. /\ pc # "idle" /\ UNCHANGED txn /\ Told
      /\ (pc' = "latch-mute" => gate'.latched) /\ (pc' = "tier-rollback" => tier')
  BY EndTold DEF Revalidate, Told, GateInv, ReportInv
<1> QED BY <1>1, <1>2, Reports

LEMMA SnapshotSound == ASSUME TypeOK, SoundInv, Snapshot PROVE SoundInv'
<1> USE DEF TypeOK, SoundInv
<1>1. GraphInv' /\ GateInv' /\ CallerInv'
  <2>1. graph = "untouched" /\ UNCHANGED <<graph, gate, req>>
    BY DEF GraphInv, Snapshot, Untouched
  <2>2. \/ pc' = "output-gate-close" \/ pc' = "idle"
        \/ pc' \in {"quiet-old-source", "fast-quiet"} /\ ~gated'
        \/ pc' = "gate-check" /\ gate.closed /\ why' = "skip" /\ ~snd'
    BY DEF Snapshot, SkipRestore, End
  <2> QED BY <2>1, <2>2 DEF GraphInv, GateInv, CallerInv, Restoring, Untouched, UnderGate, Unread
<1>2. /\ pc # "idle" /\ UNCHANGED txn /\ Told
      /\ (pc' = "latch-mute" => gate'.latched) /\ (pc' = "tier-rollback" => tier')
  BY EndTold DEF Snapshot, Told, GateInv, ReportInv, SkipRestore
<1> QED BY <1>1, <1>2, Reports

LEMMA MutateSound == ASSUME TypeOK, SoundInv, Mutate PROVE SoundInv'
<1> USE DEF TypeOK, SoundInv
<1>1. GraphInv' /\ GateInv' /\ CallerInv'
  BY DEF GraphInv, GateInv, CallerInv, Mutate, EnsureClosed, NextStages, Restoring, Untouched,
         UnderGate, Unread
<1>2. /\ pc # "idle" /\ UNCHANGED txn /\ Told
      /\ (pc' = "latch-mute" => gate'.latched) /\ (pc' = "tier-rollback" => tier')
  BY DEF Mutate, Told, GateInv, ReportInv, NextStages, Stages
<1> QED BY <1>1, <1>2, Reports

LEMMA BeforeTargetStartSound == ASSUME TypeOK, SoundInv, BeforeTargetStart PROVE SoundInv'
<1> USE DEF TypeOK, SoundInv
<1>1. GraphInv' /\ GateInv' /\ CallerInv'
  BY DEF GraphInv, GateInv, CallerInv, BeforeTargetStart, SkipRestore, IsStale, End, Restoring,
         Untouched, UnderGate, Unread
<1>2. /\ pc # "idle" /\ UNCHANGED txn /\ Told
      /\ (pc' = "latch-mute" => gate'.latched) /\ (pc' = "tier-rollback" => tier')
  BY EndTold DEF BeforeTargetStart, Told, GateInv, ReportInv, SkipRestore
<1> QED BY <1>1, <1>2, Reports

LEMMA StagedReadbackSound == ASSUME TypeOK, SoundInv, StagedReadback PROVE SoundInv'
<1> USE DEF TypeOK, SoundInv
<1>1. GraphInv' /\ GateInv' /\ CallerInv'
  BY DEF GraphInv, GateInv, CallerInv, StagedReadback, Restoring, Untouched, UnderGate, Unread
<1>2. /\ pc # "idle" /\ UNCHANGED txn /\ Told
      /\ (pc' = "latch-mute" => gate'.latched) /\ (pc' = "tier-rollback" => tier')
  BY DEF StagedReadback, Told, GateInv, ReportInv
<1> QED BY <1>1, <1>2, Reports

LEMMA BeforeCommitReadbackSound == ASSUME TypeOK, SoundInv, BeforeCommitReadback PROVE SoundInv'
<1> USE DEF TypeOK, SoundInv
<1>1. GraphInv' /\ GateInv' /\ CallerInv'
  BY DEF GraphInv, GateInv, CallerInv, BeforeCommitReadback, IsStale, Restoring, Untouched,
         UnderGate, Unread
<1>2. /\ pc # "idle" /\ UNCHANGED txn /\ Told
      /\ (pc' = "latch-mute" => gate'.latched) /\ (pc' = "tier-rollback" => tier')
  BY DEF BeforeCommitReadback, Told, GateInv, ReportInv
<1> QED BY <1>1, <1>2, Reports

LEMMA CommitReadbackSound == ASSUME TypeOK, SoundInv, CommitReadback PROVE SoundInv'
<1> USE DEF TypeOK, SoundInv
<1>1. GraphInv' /\ GateInv' /\ CallerInv'
  BY DEF GraphInv, GateInv, CallerInv, CommitReadback, End, Restoring, Untouched, UnderGate,
         Unread
<1>2. /\ pc # "idle" /\ UNCHANGED txn /\ Told
      /\ (pc' = "latch-mute" => gate'.latched) /\ (pc' = "tier-rollback" => tier')
  BY EndTold DEF CommitReadback, Told, GateInv, ReportInv
<1> QED BY <1>1, <1>2, Reports

LEMMA GraphCommitSound == ASSUME TypeOK, SoundInv, GraphCommit PROVE SoundInv'
<1> USE DEF TypeOK, SoundInv
<1>1. GraphInv' /\ GateInv' /\ CallerInv'
  BY DEF GraphInv, GateInv, CallerInv, GraphCommit, EnsureClosed, Restoring, Untouched, UnderGate,
         Unread
<1>2. /\ pc # "idle" /\ UNCHANGED txn /\ Told
      /\ (pc' = "latch-mute" => gate'.latched) /\ (pc' = "tier-rollback" => tier')
  BY DEF GraphCommit, Told, GateInv, ReportInv
<1> QED BY <1>1, <1>2, Reports

LEMMA RestoreOutputGateSound == ASSUME TypeOK, SoundInv, RestoreOutputGate PROVE SoundInv'
<1> USE DEF TypeOK, SoundInv
<1>1. GraphInv' /\ GateInv' /\ CallerInv'
  BY DEF GraphInv, GateInv, CallerInv, RestoreOutputGate, EnsureClosed, Restoring, Untouched,
         UnderGate, Unread
<1>2. /\ pc # "idle" /\ UNCHANGED txn /\ Told
      /\ (pc' = "latch-mute" => gate'.latched) /\ (pc' = "tier-rollback" => tier')
  BY DEF RestoreOutputGate, Told, GateInv, ReportInv
<1> QED BY <1>1, <1>2, Reports

LEMMA FastStartSound == ASSUME TypeOK, SoundInv, FastStart PROVE SoundInv'
<1> USE DEF TypeOK, SoundInv
<1>1. GraphInv' /\ GateInv' /\ CallerInv'
  BY DEF GraphInv, GateInv, CallerInv, FastStart, IsStale, Restoring, Untouched, UnderGate, Unread
<1>2. /\ pc # "idle" /\ UNCHANGED txn /\ Told
      /\ (pc' = "latch-mute" => gate'.latched) /\ (pc' = "tier-rollback" => tier')
  BY DEF FastStart, Told, GateInv, ReportInv
<1> QED BY <1>1, <1>2, Reports

LEMMA FastReadbackSound == ASSUME TypeOK, SoundInv, FastReadback PROVE SoundInv'
<1> USE DEF TypeOK, SoundInv
<1>1. GraphInv' /\ GateInv' /\ CallerInv'
  BY DEF GraphInv, GateInv, CallerInv, FastReadback, End, IsStale, Restoring, Untouched,
         UnderGate, Unread
<1>2. /\ pc # "idle" /\ UNCHANGED txn /\ Told
      /\ (pc' = "latch-mute" => gate'.latched) /\ (pc' = "tier-rollback" => tier')
  BY EndTold DEF FastReadback, Told, GateInv, ReportInv
<1> QED BY <1>1, <1>2, Reports

LEMMA StageFailsSound == ASSUME TypeOK, SoundInv, StageFails PROVE SoundInv'
<1> USE DEF TypeOK, SoundInv
<1>1. GraphInv' /\ GateInv' /\ CallerInv'
  BY DEF GraphInv, GateInv, CallerInv, StageFails, Fail, Stages, End, Unread, Transitions,
         Restoring, Untouched, UnderGate
<1>2. /\ pc # "idle" /\ UNCHANGED txn /\ Told
      /\ (pc' = "latch-mute" => gate'.latched) /\ (pc' = "tier-rollback" => tier')
  BY FailTold DEF StageFails, Told, GateInv, ReportInv, Stages
<1> QED BY <1>1, <1>2, Reports

LEMMA AbortSound == ASSUME TypeOK, SoundInv, Abort PROVE SoundInv'
<1> USE DEF TypeOK, SoundInv
<1>1. GraphInv' /\ GateInv' /\ CallerInv'
  BY DEF GraphInv, GateInv, CallerInv, Abort, End, Restoring, Untouched, UnderGate, Unread
<1>2. /\ pc # "idle" /\ UNCHANGED txn /\ Told
      /\ (pc' = "latch-mute" => gate'.latched) /\ (pc' = "tier-rollback" => tier')
  BY EndTold DEF Abort, Told, GateInv, ReportInv
<1> QED BY <1>1, <1>2, Reports

LEMMA LinksBeginSound == ASSUME TypeOK, SoundInv, LinksBegin PROVE SoundInv'
<1> USE DEF TypeOK, SoundInv
<1>1. GraphInv' /\ GateInv' /\ CallerInv'
  BY DEF GraphInv, GateInv, CallerInv, LinksBegin, End, Restoring, Untouched, UnderGate, Unread
<1>2. /\ pc # "idle" /\ UNCHANGED txn /\ Told
      /\ (pc' = "latch-mute" => gate'.latched) /\ (pc' = "tier-rollback" => tier')
  BY EndTold DEF LinksBegin, Told, GateInv, ReportInv
<1> QED BY <1>1, <1>2, Reports

LEMMA LinksRepairSound == ASSUME TypeOK, SoundInv, LinksRepair PROVE SoundInv'
<1> USE DEF TypeOK, SoundInv
<1>1. GraphInv' /\ GateInv' /\ CallerInv'
  BY DEF GraphInv, GateInv, CallerInv, LinksRepair, Fail, EnsureClosed, End, Unread, Transitions,
         Restoring, Untouched, UnderGate
<1>2. /\ pc # "idle" /\ UNCHANGED txn /\ Told
      /\ (pc' = "latch-mute" => gate'.latched) /\ (pc' = "tier-rollback" => tier')
  BY FailTold DEF LinksRepair, Told, GateInv, ReportInv
<1> QED BY <1>1, <1>2, Reports

LEMMA CancelUnprotectedSound == ASSUME TypeOK, SoundInv, CancelUnprotected PROVE SoundInv'
<1> USE DEF TypeOK, SoundInv
<1>1. GraphInv' /\ GateInv' /\ CallerInv'
  BY DEF GraphInv, GateInv, CallerInv, CancelUnprotected, End, Restoring, Untouched, UnderGate,
         Unread
<1>2. /\ pc # "idle" /\ UNCHANGED txn /\ Told
      /\ (pc' = "latch-mute" => gate'.latched) /\ (pc' = "tier-rollback" => tier')
  BY EndTold DEF CancelUnprotected, Told, GateInv, ReportInv
<1> QED BY <1>1, <1>2, Reports

LEMMA CleanupSound == ASSUME TypeOK, SoundInv, Cleanup PROVE SoundInv'
<1> USE DEF TypeOK, SoundInv
<1>1. GraphInv' /\ GateInv' /\ CallerInv'
  BY DEF GraphInv, GateInv, CallerInv, Cleanup, GiveUp, End, Restoring, Untouched, UnderGate,
         Unread
<1>2. /\ pc # "idle" /\ UNCHANGED txn /\ Told
      /\ (pc' = "latch-mute" => gate'.latched) /\ (pc' = "tier-rollback" => tier')
  BY GiveUpTold DEF Cleanup, Told, GateInv, ReportInv
<1> QED BY <1>1, <1>2, Reports

LEMMA TierRollbackSound == ASSUME TypeOK, SoundInv, TierRollback PROVE SoundInv'
<1> USE DEF TypeOK, SoundInv
<1>1. GraphInv' /\ GateInv' /\ CallerInv'
  BY DEF GraphInv, GateInv, CallerInv, TierRollback, EnsureClosed, End, Restoring, Untouched,
         UnderGate, Unread
<1>2. /\ pc # "idle" /\ UNCHANGED txn /\ Told
      /\ (pc' = "latch-mute" => gate'.latched) /\ (pc' = "tier-rollback" => tier')
  BY EndTold DEF TierRollback, Told, GateInv, ReportInv
<1> QED BY <1>1, <1>2, Reports

LEMMA AbortHookSound == ASSUME TypeOK, SoundInv, AbortHook PROVE SoundInv'
<1> USE DEF TypeOK, SoundInv
<1>1. GraphInv' /\ GateInv' /\ CallerInv'
  BY DEF GraphInv, GateInv, CallerInv, AbortHook, GiveUp, End, Restoring, Untouched, UnderGate,
         Unread
<1>2. /\ pc # "idle" /\ UNCHANGED txn /\ Told
      /\ (pc' = "latch-mute" => gate'.latched) /\ (pc' = "tier-rollback" => tier')
  BY GiveUpTold DEF AbortHook, Told, GateInv, ReportInv
<1> QED BY <1>1, <1>2, Reports

LEMMA RestoreRateSound == ASSUME TypeOK, SoundInv, RestoreRate PROVE SoundInv'
<1> USE DEF TypeOK, SoundInv
<1>1. GraphInv' /\ GateInv' /\ CallerInv'
  BY DEF GraphInv, GateInv, CallerInv, RestoreRate, GiveUp, EnsureClosed, End, Restoring,
         Untouched, UnderGate, Unread
<1>2. /\ pc # "idle" /\ UNCHANGED txn /\ Told
      /\ (pc' = "latch-mute" => gate'.latched) /\ (pc' = "tier-rollback" => tier')
  BY GiveUpTold DEF RestoreRate, Told, GateInv, ReportInv
<1> QED BY <1>1, <1>2, Reports

LEMMA RestoreReadbackSound == ASSUME TypeOK, SoundInv, RestoreReadback PROVE SoundInv'
<1> USE DEF TypeOK, SoundInv
<1>1. GraphInv' /\ GateInv' /\ CallerInv'
  BY DEF GraphInv, GateInv, CallerInv, RestoreReadback, GiveUp, EnsureClosed, End, Restoring,
         Untouched, UnderGate, Unread
<1>2. /\ pc # "idle" /\ UNCHANGED txn /\ Told
      /\ (pc' = "latch-mute" => gate'.latched) /\ (pc' = "tier-rollback" => tier')
  BY EndTold, GiveUpTold DEF RestoreReadback, Told, GateInv, ReportInv
<1> QED BY <1>1, <1>2, Reports

LEMMA UserSetsMuteSound == ASSUME TypeOK, SoundInv, UserSetsMute PROVE SoundInv'
<1> USE DEF TypeOK, SoundInv
<1>1. GraphInv' /\ GateInv' /\ CallerInv'
  BY DEF GraphInv, GateInv, CallerInv, UserSetsMute, Restoring, Untouched, UnderGate, Unread
<1>2. ReportInv'
  BY DEF ReportInv, GatedReport, GateInv, UserSetsMute, NoError
<1> QED BY <1>1, <1>2

LEMMA DisturbSound == ASSUME TypeOK, SoundInv, Disturb PROVE SoundInv'
<1> USE DEF TypeOK, SoundInv
<1>1. GraphInv' /\ GateInv' /\ CallerInv'
  BY DEF GraphInv, GateInv, CallerInv, Disturb, Restoring, Untouched, UnderGate, Unread
<1>2. ReportInv'
  BY DEF ReportInv, GatedReport, GateInv, Disturb, NoError
<1> QED BY <1>1, <1>2

LEMMA DspMutedSound == ASSUME TypeOK, SoundInv, DspMuted PROVE SoundInv'
<1> USE DEF TypeOK, SoundInv
<1>1. GraphInv' /\ GateInv' /\ CallerInv'
  BY DEF GraphInv, GateInv, CallerInv, DspMuted, Restoring, Untouched, UnderGate, Unread
<1>2. ReportInv'
  BY DEF ReportInv, GatedReport, GateInv, DspMuted, NoError
<1> QED BY <1>1, <1>2

LEMMA SourceSwitchedSound == ASSUME TypeOK, SoundInv, SourceSwitched PROVE SoundInv'
<1> USE DEF TypeOK, SoundInv
<1>1. GraphInv' /\ GateInv' /\ CallerInv'
  BY DEF GraphInv, GateInv, CallerInv, SourceSwitched, Restoring, Untouched, UnderGate, Unread
<1>2. ReportInv'
  BY DEF ReportInv, GatedReport, GateInv, SourceSwitched, NoError
<1> QED BY <1>1, <1>2

LEMMA CrashSound == ASSUME TypeOK, SoundInv, Crash PROVE SoundInv'
<1> USE DEF TypeOK, SoundInv
<1>1. GraphInv' /\ GateInv' /\ CallerInv'
  BY DEF GraphInv, GateInv, CallerInv, Crash, OpenGate, BootRequest, Restoring, Untouched,
         UnderGate, Unread
<1>2. ReportInv'
  BY DEF ReportInv, GatedReport, GateInv, Crash, OpenGate, BootRequest, NoError
<1> QED BY <1>1, <1>2

LEMMA QuietSound == ASSUME TypeOK, SoundInv, UNCHANGED vars PROVE SoundInv'
  BY DEF vars, SoundInv, GraphInv, GateInv, CallerInv, ReportInv, GatedReport

\* The holds touch neither the gate nor the graph.
LEMMA HoldSound ==
  ASSUME TypeOK, SoundInv, HoldMute \/ HoldSet \/ HoldLift \/ HoldClear PROVE SoundInv'
<1>1. UNCHANGED <<pc, txn, req, gated, tier, why, snd, graph, gate, err>>
  BY DEF HoldMute, HoldSet, HoldLift, HoldClear
<1> QED BY <1>1 DEF SoundInv, GraphInv, GateInv, CallerInv, ReportInv, GatedReport

LEMMA InitSound == ASSUME Init PROVE SoundInv
<1> USE DEF Init
<1>1. GraphInv /\ GateInv /\ CallerInv
  BY DEF GraphInv, GateInv, CallerInv, Restoring, Untouched, UnderGate
<1>2. ReportInv
  BY DEF ReportInv, GatedReport, NoError
<1> QED BY <1>1, <1>2 DEF SoundInv

LEMMA NextSound == ASSUME TypeOK, SoundInv, [Next]_vars PROVE SoundInv'
<1>1. CASE \E r \in Requests : Begin(r)
  BY <1>1, BeginSound
<1>2. CASE GateNext
  BY <1>2, StartupUnownedSound, StartupOwnedSound, StartupConfirmSound, StartupLatchSound,
     StartupDoneSound, CloseGateSound, CloseMuteSound, CloseConfirmSound, RestoreCheckSound,
     RestoreWriteSound, RestoreOpenSound, RestoreVerifySound, LatchSound, LatchMuteSound,
     LeaseBeginSound, LeaseEditSound, LeaseRollbackSound DEF GateNext
<1>3. CASE CoordinatorNext
  BY <1>3, AdmitSound, RevalidateSound, SnapshotSound, MutateSound, BeforeTargetStartSound,
     StagedReadbackSound, BeforeCommitReadbackSound, CommitReadbackSound, GraphCommitSound,
     RestoreOutputGateSound, FastStartSound, FastReadbackSound, StageFailsSound, AbortSound,
     LinksBeginSound, LinksRepairSound, CancelUnprotectedSound, CleanupSound,
     TierRollbackSound, AbortHookSound, RestoreRateSound, RestoreReadbackSound
     DEF CoordinatorNext
<1>4. CASE Environment
  BY <1>4, UserSetsMuteSound, DisturbSound, DspMutedSound, SourceSwitchedSound, HoldSound, CrashSound
     DEF Environment
<1>5. CASE UNCHANGED vars
  BY <1>5, QuietSound
<1> QED BY <1>1, <1>2, <1>3, <1>4, <1>5 DEF Next, Coordinator

LEMMA SoundInductive == Spec => []SoundInv
<1>1. Init => SoundInv
  BY InitSound
<1>2. TypeOK /\ SoundInv /\ [Next]_vars => SoundInv'
  BY NextSound
<1> QED BY <1>1, <1>2, TransitionTypes, PTL DEF Spec

\* In any environment, no operation that closed the gate leaves it open over a graph that
\* it changed and did not read back, unless it was discarded; and a failure that ran its
\* cleanup reports the latch as the gate has it.
THEOREM GateAlwaysHonest == Spec => []GateHonest
<1>1. SoundInv => GateHonest
  BY DEF SoundInv, GraphInv, ReportInv, GateHonest, OpenIsConfirmed
<1> QED BY <1>1, SoundInductive, PTL

\* The half of it that concerns the open gate.
THEOREM OpenAlwaysConfirmed == Spec => []OpenIsConfirmed
<1>1. SoundInv => OpenIsConfirmed
  BY DEF SoundInv, GraphInv, OpenIsConfirmed
<1> QED BY <1>1, SoundInductive, PTL

\* Only a commit moves the last successful commit.
LEMMA EndCommit == ASSUME NEW o, o # "commit", End(o) PROVE commit' = commit
  BY DEF End

LEMMA FailCommit ==
  ASSUME Fail \/ StartupRaises \/ GiveUp \/ SkipRestore
  PROVE  commit' = commit
  BY EndCommit DEF Fail, StartupRaises, GiveUp, SkipRestore

LEMMA RestoreFailsCommit == ASSUME RestoreFails PROVE commit' = commit
  BY EndCommit, FailCommit DEF RestoreFails

LEMMA GateCommit ==
  ASSUME GateNext, ~RestoreOpen, ~RestoreVerify
  PROVE  commit' = commit
<1>1. CASE StartupUnowned \/ StartupOwned \/ StartupConfirm \/ StartupLatch \/ StartupDone
  BY <1>1, FailCommit DEF StartupUnowned, StartupOwned, StartupConfirm, StartupLatch, StartupDone
<1>2. CASE CloseGate \/ CloseMute \/ CloseConfirm
  BY <1>2, FailCommit DEF CloseGate, CloseMute, CloseConfirm
<1>3. CASE RestoreCheck \/ RestoreWrite
  BY <1>3, RestoreFailsCommit DEF RestoreCheck, RestoreWrite
<1>4. CASE Latch \/ LatchMute
  BY <1>4, EndCommit DEF Latch, LatchMute
<1>5. CASE LeaseBegin \/ LeaseEdit \/ LeaseRollback
  BY <1>5, EndCommit, FailCommit DEF LeaseBegin, LeaseEdit, LeaseRollback
<1> QED BY <1>1, <1>2, <1>3, <1>4, <1>5 DEF GateNext

LEMMA CoordinatorCommit ==
  ASSUME CoordinatorNext, ~CommitReadback, ~FastReadback
  PROVE  commit' = commit
<1>1. CASE Admit \/ Revalidate \/ Snapshot
  BY <1>1, EndCommit, FailCommit DEF Admit, Revalidate, Snapshot
<1>2. CASE Mutate \/ BeforeTargetStart \/ StagedReadback \/ BeforeCommitReadback
  BY <1>2, FailCommit DEF Mutate, BeforeTargetStart, StagedReadback, BeforeCommitReadback
<1>3. CASE GraphCommit \/ RestoreOutputGate \/ FastStart
  BY <1>3 DEF GraphCommit, RestoreOutputGate, FastStart
<1>4. CASE StageFails \/ Abort \/ LinksBegin \/ LinksRepair \/ CancelUnprotected
  BY <1>4, EndCommit, FailCommit DEF StageFails, Abort, LinksBegin, LinksRepair, CancelUnprotected
<1>5. CASE Cleanup \/ TierRollback \/ AbortHook \/ RestoreRate \/ RestoreReadback
  BY <1>5, EndCommit, FailCommit DEF Cleanup, TierRollback, AbortHook, RestoreRate, RestoreReadback
<1> QED BY <1>1, <1>2, <1>3, <1>4, <1>5 DEF CoordinatorNext

\* A commit that a restore ends.
LEMMA DoneCommit ==
  ASSUME RestoreDone, commit' # commit
  PROVE  commit' = txn /\ why \in {"commit", "links"}
  BY EndCommit DEF RestoreDone, End

\* A transition whose source was replaced before its last checkpoint does not get past it:
\* it is not at a step behind the checkpoint, and no gate is opened to commit it.
Behind == {"source-volume-restore", "commit-readback", "before-output-gate-restore"}

OvertakenInv ==
  /\ overtaken => /\ stale /\ req.kind \in {"play", "claim"} /\ pc \notin Behind
                  /\ pc \in Restoring => why \notin {"commit", "links"}
  /\ pc = "links-repair" => req.kind = "links"
  /\ pc = "graph-commit" => req.kind = "switch"

\* A step that does not get past a checkpoint.
Short ==
  /\ overtaken' = overtaken /\ stale' = stale /\ req' = req
  /\ \/ pc' \notin Behind \cup Restoring \cup {"links-repair", "graph-commit"}
     \/ pc' \in Restoring /\ why' \notin {"commit", "links"}
     \/ pc' \in Restoring /\ pc \in Restoring /\ why' = why

LEMMA ShortOvertaken == ASSUME OvertakenInv, Short PROVE OvertakenInv'
  BY DEF OvertakenInv, Short, Restoring, Behind

LEMMA EndsShort ==
  ASSUME Fail \/ StartupRaises \/ RestoreFails \/ RestoreDone \/ GiveUp
  PROVE  pc' \notin Behind \cup Restoring \cup {"links-repair", "graph-commit"}
  BY DEF Fail, StartupRaises, RestoreFails, RestoreDone, GiveUp, End, Behind, Restoring

LEMMA GateOvertaken == ASSUME OvertakenInv, GateNext PROVE OvertakenInv'
<1>1. CASE StartupUnowned \/ StartupOwned \/ StartupConfirm \/ StartupLatch \/ StartupDone
  <2>1. AfterStartup \notin Behind \cup Restoring \cup {"links-repair", "graph-commit"}
    BY DEF AfterStartup, Behind, Restoring
  <2>2. Short
    BY <1>1, <2>1, EndsShort DEF Short, StartupUnowned, StartupOwned, StartupConfirm, StartupLatch,
           StartupDone, Behind, Restoring
  <2> QED BY <2>2, ShortOvertaken
<1>2. CASE CloseGate \/ CloseMute
  <2>1. Short
    BY <1>2, EndsShort DEF Short, CloseGate, CloseMute, Behind, Restoring
  <2> QED BY <2>1, ShortOvertaken
<1>3. CASE CloseConfirm
  <2>1. CASE pc' = AfterClose
    BY <1>3, <2>1 DEF OvertakenInv, CloseConfirm, AfterClose, Behind, Restoring
  <2>2. CASE Fail
    <3>1. Short
      BY <1>3, <2>2, EndsShort DEF Short, CloseConfirm
    <3> QED BY <3>1, ShortOvertaken
  <2> QED BY <1>3, <2>1, <2>2 DEF CloseConfirm
<1>4. CASE RestoreCheck \/ RestoreWrite
  <2>1. Short
    BY <1>4, EndsShort DEF Short, RestoreCheck, RestoreWrite, Restoring
  <2> QED BY <2>1, ShortOvertaken
<1>5. CASE RestoreOpen \/ RestoreVerify
  <2>1. Short
    BY <1>5, EndsShort DEF Short, RestoreOpen, RestoreVerify, Restoring
  <2> QED BY <2>1, ShortOvertaken
<1>6. CASE Latch \/ LatchMute \/ LeaseBegin
  <2>1. Short
    BY <1>6 DEF Short, Latch, LatchMute, LeaseBegin, End, Behind, Restoring
  <2> QED BY <2>1, ShortOvertaken
<1>7. CASE LeaseEdit \/ LeaseRollback
  <2>1. Short
    BY <1>7, EndsShort DEF Short, LeaseEdit, LeaseRollback, End, Behind, Restoring
  <2> QED BY <2>1, ShortOvertaken
<1> QED BY <1>1, <1>2, <1>3, <1>4, <1>5, <1>6, <1>7 DEF GateNext

LEMMA CoordinatorOvertaken == ASSUME OvertakenInv, CoordinatorNext PROVE OvertakenInv'
<1>1. CASE Admit \/ Revalidate \/ Snapshot \/ BeforeTargetStart
  <2>1. Short
    BY <1>1 DEF Short, Admit, Revalidate, Snapshot, BeforeTargetStart, SkipRestore, End, Behind,
           Restoring
  <2> QED BY <2>1, ShortOvertaken
<1>2. CASE Mutate
  BY <1>2 DEF OvertakenInv, Mutate, NextStages, Behind, Restoring
<1>3. CASE StagedReadback \/ FastStart \/ FastReadback
  <2>1. Short
    BY <1>3 DEF Short, StagedReadback, FastStart, FastReadback, End, Behind, Restoring
  <2> QED BY <2>1, ShortOvertaken
<1>4. CASE BeforeCommitReadback
  BY <1>4 DEF OvertakenInv, BeforeCommitReadback, IsStale, Behind, Restoring
<1>5. CASE CommitReadback \/ GraphCommit \/ RestoreOutputGate
  <2>1. ~overtaken /\ overtaken' = overtaken
    BY <1>5 DEF OvertakenInv, CommitReadback, GraphCommit, RestoreOutputGate, Behind
  <2>2. pc' \notin {"links-repair", "graph-commit"}
    BY <1>5 DEF CommitReadback, GraphCommit, RestoreOutputGate, End
  <2> QED BY <2>1, <2>2 DEF OvertakenInv
<1>6. CASE StageFails \/ Abort \/ LinksBegin \/ CancelUnprotected
  <2>1. Short
    BY <1>6, EndsShort DEF Short, StageFails, Abort, LinksBegin, CancelUnprotected, End, Behind,
           Restoring
  <2> QED BY <2>1, ShortOvertaken
<1>7. CASE LinksRepair
  <2>1. ~overtaken /\ overtaken' = overtaken /\ pc' \notin {"links-repair", "graph-commit"}
    BY <1>7, EndsShort DEF OvertakenInv, LinksRepair
  <2> QED BY <2>1 DEF OvertakenInv
<1>8. CASE Cleanup \/ TierRollback \/ AbortHook
  <2>1. Short
    BY <1>8, EndsShort DEF Short, Cleanup, TierRollback, AbortHook, End, Behind, Restoring
  <2> QED BY <2>1, ShortOvertaken
<1>9. CASE RestoreRate \/ RestoreReadback
  <2>1. Short
    BY <1>9, EndsShort DEF Short, RestoreRate, RestoreReadback, End, Behind, Restoring
  <2> QED BY <2>1, ShortOvertaken
<1> QED BY <1>1, <1>2, <1>3, <1>4, <1>5, <1>6, <1>7, <1>8, <1>9 DEF CoordinatorNext

LEMMA NextOvertaken == ASSUME OvertakenInv, [Next]_vars PROVE OvertakenInv'
<1>1. CASE \E r \in Requests : Begin(r)
  BY <1>1 DEF OvertakenInv, Begin
<1>2. CASE SourceSwitched
  BY <1>2 DEF OvertakenInv, SourceSwitched, Checkpointed, Behind, Restoring
<1>3. CASE Crash
  BY <1>3 DEF OvertakenInv, Crash
<1>4. CASE UserSetsMute \/ Disturb \/ DspMuted \/ HoldMute \/ HoldSet \/ HoldLift \/ HoldClear
  BY <1>4 DEF OvertakenInv, UserSetsMute, Disturb, DspMuted, HoldMute, HoldSet, HoldLift, HoldClear
<1>5. CASE UNCHANGED vars
  BY <1>5 DEF OvertakenInv, vars
<1> QED BY <1>1, <1>2, <1>3, <1>4, <1>5, GateOvertaken, CoordinatorOvertaken
        DEF Next, Coordinator, Environment

LEMMA OvertakenInductive == Spec => []OvertakenInv
<1>1. Init => OvertakenInv
  BY DEF Init, OvertakenInv
<1> QED BY <1>1, NextOvertaken, PTL DEF Spec

LEMMA CommitStep ==
  ASSUME TypeOK, SoundInv, OvertakenInv, [Next]_vars, commit' # commit, commit' # 0
  PROVE  /\ commit' = txn /\ graph' = "confirmed" /\ ~overtaken /\ (gated => ~gate'.closed)
         /\ (gated /\ req.audible) => ~hw /\ ~dsp
<1>1. CASE RestoreOpen
  <2>1. gate' = OpenGate /\ ~snd /\ RestoreDone /\ pc = "gate-confirm" /\ UNCHANGED graph
    BY <1>1, RestoreFailsCommit DEF RestoreOpen
  <2>2. commit' = txn /\ why \in {"commit", "links"}
    BY <2>1, DoneCommit
  <2> QED BY <2>1, <2>2 DEF SoundInv, GraphInv, CallerInv, OvertakenInv, Restoring, OpenGate
<1>2. CASE RestoreVerify
  <2>1. ~hw /\ ~dsp /\ RestoreDone /\ pc = "gate-opened" /\ UNCHANGED <<gate, graph>>
    BY <1>2, RestoreFailsCommit DEF RestoreVerify
  <2>2. commit' = txn /\ why \in {"commit", "links"}
    BY <2>1, DoneCommit
  <2> QED BY <2>1, <2>2 DEF SoundInv, GraphInv, GateInv, OvertakenInv, Restoring
<1>3. CASE CommitReadback
  BY <1>3 DEF CommitReadback, End, OvertakenInv, Behind
<1>4. CASE FastReadback
  BY <1>4 DEF FastReadback, End, IsStale, SoundInv, GateInv, OvertakenInv
<1>5. CASE Environment \/ (\E r \in Requests : Begin(r)) \/ UNCHANGED vars
  BY <1>5 DEF Environment, UserSetsMute, Disturb, DspMuted, SourceSwitched, HoldMute, HoldSet,
         HoldLift, HoldClear, Crash, Begin, vars
<1> QED BY <1>1, <1>2, <1>3, <1>4, <1>5, GateCommit, CoordinatorCommit DEF Next, Coordinator

\* In any environment, the coordinator unmutes the output only over a graph that was read
\* back or for an operation that it discards, and commits only what it has read back, with
\* the gate it closed open again and, if sound was asked for, both sinks unmuted, and never
\* over a source that was selected before the last checkpoint.
THEOREM StepsAlwaysSound == Spec => StepsSound
<1>1. SoundInv => [(pc = "gate-write" /\ pc' = "gate-confirm" /\ ~hw') =>
                     graph = "confirmed" \/ why \in {"abort", "skip"}]_vars
  BY DEF SoundInv, GraphInv, Restoring
<1>2. TypeOK /\ SoundInv /\ OvertakenInv /\ [Next]_vars =>
        [(commit' # commit /\ commit' # 0) =>
            /\ commit' = txn /\ graph' = "confirmed" /\ ~overtaken
            /\ gated => ~gate'.closed
            /\ (gated /\ req.audible) => ~hw /\ ~dsp]_vars
  BY CommitStep
<1> QED BY <1>1, <1>2, SoundInductive, OvertakenInductive, TransitionTypes, PTL
        DEF Spec, StepsSound, UnmuteConfirmed, CommitSound

-----------------------------------------------------------------------------
(* Holds *)

\* A hold has muted the output, and a restore that writes the mute knows of it, unless
\* the hold began in the window of the restore.
HoldInv ==
  /\ spl \in {"on", "off", "muting", "lifting"}
  /\ spl = "on" => hold /\ ((reconciled /\ ~raced) => hw)
  /\ spl \in {"off", "muting"} => ~hold
  /\ (pc \in {"gate-write", "gate-confirm", "startup-confirm"} /\ spl = "on" /\ ~raced) => rm

\* A step that leaves the hold alone, at most mutes the output and does not lead to a write.
Harmless ==
  /\ hold' = hold /\ spl' = spl /\ (hw' = hw \/ hw') /\ reconciled' = reconciled /\ raced' = raced
  /\ pc' \notin {"gate-write", "gate-confirm", "startup-confirm"} \/ (pc' = pc /\ rm' = rm)

LEMMA HarmlessHeld == ASSUME HoldInv, Harmless PROVE HoldInv'
  BY DEF HoldInv, Harmless

LEMMA FailSteps ==
  ASSUME Fail \/ StartupRaises \/ RestoreFails \/ RestoreDone \/ GiveUp \/ SkipRestore
  PROVE  pc' \notin {"gate-write", "gate-confirm", "startup-confirm"}
  BY DEF Fail, StartupRaises, RestoreFails, RestoreDone, GiveUp, SkipRestore, End

LEMMA StartupHeld ==
  ASSUME HoldInv, StartupUnowned \/ StartupOwned \/ StartupConfirm \/ StartupLatch \/ StartupDone
  PROVE  HoldInv'
<1>1. AfterStartup \notin {"gate-write", "gate-confirm", "startup-confirm"}
  BY DEF AfterStartup
<1>2. CASE StartupUnowned
  BY <1>1, <1>2, FailSteps DEF StartupUnowned, HoldInv
<1>3. CASE StartupOwned
  BY <1>3 DEF StartupOwned, HoldInv
<1>4. CASE StartupConfirm
  BY <1>1, <1>4, FailSteps DEF StartupConfirm, HoldInv
<1>5. CASE StartupLatch
  <2>1. Harmless
    BY <1>5, FailSteps DEF Harmless, StartupLatch
  <2> QED BY <2>1, HarmlessHeld
<1>6. CASE StartupDone
  <2>1. Harmless
    BY <1>1, <1>6 DEF Harmless, StartupDone
  <2> QED BY <2>1, HarmlessHeld
<1> QED BY <1>2, <1>3, <1>4, <1>5, <1>6

LEMMA RestoreHeld ==
  ASSUME HoldInv, RestoreCheck \/ RestoreWrite \/ RestoreOpen \/ RestoreVerify
  PROVE  HoldInv'
<1>1. CASE RestoreCheck
  BY <1>1, FailSteps DEF RestoreCheck, HoldInv
<1>2. CASE RestoreWrite
  BY <1>2, FailSteps DEF RestoreWrite, HoldInv
<1>3. CASE RestoreOpen
  <2>1. Harmless
    BY <1>3, FailSteps DEF Harmless, RestoreOpen
  <2> QED BY <2>1, HarmlessHeld
<1>4. CASE RestoreVerify
  <2>1. Harmless
    BY <1>4, FailSteps DEF Harmless, RestoreVerify
  <2> QED BY <2>1, HarmlessHeld
<1> QED BY <1>1, <1>2, <1>3, <1>4

LEMMA GateHeld ==
  ASSUME HoldInv, \/ CloseGate \/ CloseMute \/ CloseConfirm \/ Latch \/ LatchMute
                  \/ LeaseBegin \/ LeaseEdit \/ LeaseRollback
  PROVE  HoldInv'
<1>1. CASE CloseGate \/ CloseMute \/ CloseConfirm
  <2>1. Harmless
    BY <1>1, FailSteps DEF Harmless, CloseGate, CloseMute, CloseConfirm, AfterClose
  <2> QED BY <2>1, HarmlessHeld
<1>2. CASE Latch \/ LatchMute
  <2>1. Harmless
    BY <1>2 DEF Harmless, Latch, LatchMute, End
  <2> QED BY <2>1, HarmlessHeld
<1>3. CASE LeaseBegin \/ LeaseEdit \/ LeaseRollback
  <2>1. Harmless
    BY <1>3, FailSteps DEF Harmless, LeaseBegin, LeaseEdit, LeaseRollback, EnsureClosed, End
  <2> QED BY <2>1, HarmlessHeld
<1> QED BY <1>1, <1>2, <1>3

LEMMA CoordinatorHeld == ASSUME HoldInv, CoordinatorNext PROVE HoldInv'
<1>1. CASE Admit \/ Revalidate \/ Snapshot
  <2>1. Harmless
    BY <1>1, FailSteps DEF Harmless, Admit, Revalidate, Snapshot, End
  <2> QED BY <2>1, HarmlessHeld
<1>2. CASE Mutate
  <2>1. Harmless
    BY <1>2 DEF Harmless, Mutate, EnsureClosed, NextStages
  <2> QED BY <2>1, HarmlessHeld
<1>3. CASE BeforeTargetStart \/ StagedReadback \/ BeforeCommitReadback \/ CommitReadback
  <2>1. Harmless
    BY <1>3, FailSteps DEF Harmless, BeforeTargetStart, StagedReadback, BeforeCommitReadback,
           CommitReadback, End
  <2> QED BY <2>1, HarmlessHeld
<1>4. CASE GraphCommit \/ RestoreOutputGate \/ FastStart \/ FastReadback
  <2>1. Harmless
    BY <1>4 DEF Harmless, GraphCommit, RestoreOutputGate, FastStart, FastReadback,
           EnsureClosed, End
  <2> QED BY <2>1, HarmlessHeld
<1>5. CASE StageFails \/ Abort \/ LinksBegin \/ LinksRepair \/ CancelUnprotected
  <2>1. Harmless
    BY <1>5, FailSteps DEF Harmless, StageFails, Abort, LinksBegin, LinksRepair,
           CancelUnprotected, EnsureClosed, End
  <2> QED BY <2>1, HarmlessHeld
<1>6. CASE Cleanup \/ TierRollback \/ AbortHook \/ RestoreRate \/ RestoreReadback
  <2>1. Harmless
    BY <1>6, FailSteps DEF Harmless, Cleanup, TierRollback, AbortHook, RestoreRate,
           RestoreReadback, EnsureClosed, End
  <2> QED BY <2>1, HarmlessHeld
<1> QED BY <1>1, <1>2, <1>3, <1>4, <1>5, <1>6 DEF CoordinatorNext

LEMMA EnvironmentHeld == ASSUME TypeOK, HoldInv, Environment PROVE HoldInv'
<1>1. CASE Disturb
  BY <1>1 DEF Disturb, HoldInv
<1>2. CASE UserSetsMute
  BY <1>2 DEF UserSetsMute, HoldInv
<1>3. CASE DspMuted \/ SourceSwitched
  <2>1. Harmless
    BY <1>3 DEF Harmless, DspMuted, SourceSwitched
  <2> QED BY <2>1, HarmlessHeld
<1>4. CASE HoldMute
  BY <1>4 DEF HoldMute, HoldInv
<1>5. CASE HoldSet \/ HoldLift \/ HoldClear
  <2>1. CASE HoldSet
    BY <2>1 DEF TypeOK, HoldSet, HoldInv, RestoreWindow
  <2>2. CASE HoldLift \/ HoldClear
    BY <2>2 DEF HoldLift, HoldClear, HoldInv
  <2> QED BY <1>5, <2>1, <2>2
<1>6. CASE Crash
  BY <1>6 DEF Crash, HoldInv
<1> QED BY <1>1, <1>2, <1>3, <1>4, <1>5, <1>6 DEF Environment

LEMMA NextHeld == ASSUME TypeOK, HoldInv, [Next]_vars PROVE HoldInv'
<1>1. CASE \E r \in Requests : Begin(r)
  <2>1. Harmless
    BY <1>1 DEF Harmless, Begin
  <2> QED BY <2>1, HarmlessHeld
<1>2. CASE UNCHANGED vars
  <2>1. Harmless
    BY <1>2 DEF Harmless, vars
  <2> QED BY <2>1, HarmlessHeld
<1> QED BY <1>1, <1>2, StartupHeld, RestoreHeld, GateHeld, CoordinatorHeld, EnvironmentHeld
        DEF Next, Coordinator, GateNext

\* While the SPL calibration holds the output the hardware stays muted, whatever
\* transitions, failures, full disks and crashes come in between, if the hold did not begin
\* while a gate was being restored and nobody undid its mute from outside.
THEOREM HeldAlwaysMuted == Spec => []HeldIsMuted
<1>1. Init => HoldInv
  BY DEF Init, HoldInv
<1>2. TypeOK /\ HoldInv /\ [Next]_vars => HoldInv'
  BY NextHeld
<1>3. HoldInv => HeldIsMuted
  BY DEF HoldInv, HeldIsMuted
<1> QED BY <1>1, <1>2, <1>3, TransitionTypes, PTL DEF Spec

-----------------------------------------------------------------------------
(* The user's mute, in an ordinary environment *)

\* An operation gets the lock.
LEMMA BeginKeeps == ASSUME Ordinary, MuteIInv, NEW r \in Requests, Begin(r) PROVE MuteIInv'
<1> USE DEF MuteIInv, Ordinary
<1>1. TypeOK'
  BY BeginTypes
<1>2. MuteInv' /\ OwnerInv' /\ RestoreInv'
  BY DEF MuteInv, OwnerInv, RestoreInv, Begin, Stages
<1> QED BY <1>1, <1>2

\* A start without a marker.
LEMMA StartupUnownedKeeps == ASSUME Ordinary, MuteIInv, StartupUnowned PROVE MuteIInv'
<1> USE DEF MuteIInv, Ordinary
<1>1. TypeOK'
  BY StartupUnownedTypes
<1>2. MuteInv'
  BY DEF TypeOK, MuteInv, StartupUnowned
<1>3. OwnerInv'
  BY DEF TypeOK, OwnerInv, StartupUnowned, AfterStartup, StartupRaises, Fail, End, Stages, Unread,
         Requests
<1>4. RestoreInv'
  BY DEF RestoreInv, StartupUnowned, AfterStartup, StartupRaises, Fail, End
<1> QED BY <1>1, <1>2, <1>3, <1>4

\* A start with a marker.
LEMMA StartupOwnedKeeps == ASSUME Ordinary, MuteIInv, StartupOwned PROVE MuteIInv'
<1> USE DEF MuteIInv, Ordinary
<1>1. TypeOK'
  BY StartupOwnedTypes
<1>2. MuteInv' /\ OwnerInv' /\ RestoreInv'
  BY DEF MuteInv, OwnerInv, RestoreInv, Muted, StartupOwned, Stages, Unread
<1> QED BY <1>1, <1>2

\* The readback at startup.
LEMMA StartupConfirmKeeps == ASSUME Ordinary, MuteIInv, StartupConfirm PROVE MuteIInv'
<1> USE DEF MuteIInv, Ordinary
<1>1. TypeOK'
  BY StartupConfirmTypes
<1>2. MuteInv' /\ OwnerInv' /\ RestoreInv'
  BY DEF TypeOK, MuteInv, OwnerInv, RestoreInv, StartupConfirm, AfterStartup,
         StartupRaises, Fail, End, OpenGate, Clear, Stages, Unread, Requests
<1> QED BY <1>1, <1>2

\* An unresolved startup gate.
LEMMA StartupLatchKeeps == ASSUME Ordinary, MuteIInv, StartupLatch PROVE MuteIInv'
<1> USE DEF MuteIInv, Ordinary
<1>1. TypeOK'
  BY StartupLatchTypes
<1>2. MuteInv' /\ OwnerInv' /\ RestoreInv'
  BY DEF TypeOK, MuteInv, OwnerInv, RestoreInv, StartupLatch, Persist, StartupRaises,
         Fail, End, Stages, Unread, Origs
<1> QED BY <1>1, <1>2

\* A process that is reconciled.
LEMMA StartupDoneKeeps == ASSUME Ordinary, MuteIInv, StartupDone PROVE MuteIInv'
<1> USE DEF MuteIInv, Ordinary
<1>1. TypeOK'
  BY StartupDoneTypes
<1>2. MuteInv' /\ OwnerInv' /\ RestoreInv'
  BY DEF TypeOK, MuteInv, OwnerInv, RestoreInv, StartupDone, AfterStartup,
         Stages, Unread, Requests
<1> QED BY <1>1, <1>2

\* Closing: the user's mute is recorded.
LEMMA CloseGateKeeps == ASSUME Ordinary, MuteIInv, CloseGate PROVE MuteIInv'
<1> USE DEF MuteIInv, Ordinary
<1>1. TypeOK'
  BY CloseGateTypes
<1>2. MuteInv' /\ OwnerInv' /\ RestoreInv'
  BY DEF TypeOK, MuteInv, OwnerInv, RestoreInv, Muted, CloseGate, Captured, AsOrig, Fail,
         End, Stages, Unread
<1> QED BY <1>1, <1>2

\* Closing: the mute.
LEMMA CloseMuteKeeps == ASSUME Ordinary, MuteIInv, CloseMute PROVE MuteIInv'
<1> USE DEF MuteIInv, Ordinary
<1>1. TypeOK'
  BY CloseMuteTypes
<1>2. MuteInv' /\ OwnerInv' /\ RestoreInv'
  BY DEF TypeOK, MuteInv, OwnerInv, RestoreInv, CloseMute, Fail, Stages, Unread, Origs
<1> QED BY <1>1, <1>2

\* Closing: the readback.
LEMMA CloseConfirmKeeps == ASSUME Ordinary, MuteIInv, CloseConfirm PROVE MuteIInv'
<1> USE DEF MuteIInv, Ordinary
<1>1. TypeOK'
  BY CloseConfirmTypes
<1>2. MuteInv' /\ OwnerInv' /\ RestoreInv'
  BY DEF TypeOK, MuteInv, OwnerInv, RestoreInv, CloseConfirm, AfterClose, Fail, Stages,
         Unread, Requests
<1> QED BY <1>1, <1>2

\* Restoring: ownership and what to write.
LEMMA RestoreCheckKeeps == ASSUME Ordinary, MuteIInv, RestoreCheck PROVE MuteIInv'
<1> USE DEF MuteIInv, Ordinary
<1>1. TypeOK'
  BY RestoreCheckTypes
<1>2. MuteInv'
  BY DEF MuteInv, RestoreCheck
<1>3. OwnerInv'
  BY DEF OwnerInv, RestoreCheck, RestoreFails, Fail, End, Stages, Unread
<1>4. RestoreInv'
  BY DEF RestoreInv, MuteInv, AsksSound, RestoreCheck, RestoreFails, Fail, End
<1> QED BY <1>1, <1>2, <1>3, <1>4

\* Restoring: the mute.
LEMMA RestoreWriteKeeps == ASSUME Ordinary, MuteIInv, RestoreWrite PROVE MuteIInv'
<1> USE DEF MuteIInv, Ordinary
<1>1. TypeOK'
  BY RestoreWriteTypes
<1>2. MuteInv'
  BY DEF TypeOK, MuteInv, RestoreInv, RestoreWrite, Origs
<1>3. OwnerInv'
  BY DEF OwnerInv, RestoreWrite, RestoreFails, Fail, End, Stages, Unread
<1>4. RestoreInv'
  BY DEF RestoreInv, AsksSound, RestoreWrite, RestoreFails, Fail, End
<1> QED BY <1>1, <1>2, <1>3, <1>4

\* Restoring: the gate opens.
LEMMA RestoreOpenKeeps == ASSUME Ordinary, MuteIInv, RestoreOpen PROVE MuteIInv'
<1> USE DEF MuteIInv, Ordinary
<1>1. TypeOK'
  BY RestoreOpenTypes
<1>2. MuteInv'
  <2>1. CASE UNCHANGED <<gate, disk, intent, lost>>
    BY <2>1 DEF MuteInv, RestoreOpen
  <2>2. CASE /\ gate' = OpenGate /\ disk' = "absent" /\ hw = rm
             /\ intent' = (intent /\ ~AsksSound) /\ lost' = (lost /\ intent')
    <3>1. pc = "gate-confirm" /\ gate.closed /\ disk = gate.orig /\ (IF lost THEN intent ELSE Muted(disk) = intent)
          /\ rm = (~snd /\ Muted(gate.orig)) /\ (snd => AsksSound)
      BY DEF TypeOK, RestoreOpen, MuteInv, RestoreInv, Origs
    <3>2. IF lost' THEN intent' ELSE hw = intent'
      BY <2>2, <3>1, Zenon DEF AsksSound
    <3> QED BY <2>2, <3>2 DEF MuteInv, RestoreOpen, OpenGate
  <2> QED BY <2>1, <2>2 DEF RestoreOpen, Clear
<1>3. OwnerInv'
  BY DEF OwnerInv, RestoreInv, RestoreOpen, RestoreFails, RestoreDone, Fail, End, Stages, Unread
<1>4. RestoreInv'
  BY DEF RestoreInv, RestoreOpen, RestoreFails, RestoreDone, Fail, End
<1> QED BY <1>1, <1>2, <1>3, <1>4

\* Restoring: the open output.
LEMMA RestoreVerifyKeeps == ASSUME Ordinary, MuteIInv, RestoreVerify PROVE MuteIInv'
<1> USE DEF MuteIInv, Ordinary
<1>1. TypeOK'
  BY RestoreVerifyTypes
<1>2. MuteInv'
  BY DEF MuteInv, RestoreVerify
<1>3. OwnerInv'
  BY DEF OwnerInv, RestoreVerify, RestoreFails, RestoreDone, Fail, End, Stages, Unread
<1>4. RestoreInv'
  <2>1. pc' \in {"idle", "lease-rollback", "latch", "cleanup"}
    BY RestoreDoneType, EndType DEF RestoreVerify, RestoreFails, Fail
  <2>2. pc' = "lease-rollback" => gate.closed
    BY RestoreDoneType, EndType DEF RestoreVerify, RestoreFails, Fail, RestoreInv
  <2> QED BY <2>1, <2>2 DEF RestoreVerify, RestoreInv
<1> QED BY <1>1, <1>2, <1>3, <1>4

\* Latching.
LEMMA LatchKeeps == ASSUME Ordinary, MuteIInv, Latch PROVE MuteIInv'
<1> USE DEF MuteIInv, Ordinary
<1>1. TypeOK'
  BY LatchTypes
<1>2. MuteInv'
  BY DEF TypeOK, MuteInv, Muted, Latch, Persist
<1>3. OwnerInv'
  BY DEF OwnerInv, Latch, Stages, Unread
<1>4. RestoreInv'
  BY DEF RestoreInv, Latch
<1> QED BY <1>1, <1>2, <1>3, <1>4

\* Latching: the mute.
LEMMA LatchMuteKeeps == ASSUME Ordinary, MuteIInv, LatchMute PROVE MuteIInv'
<1> USE DEF MuteIInv, Ordinary
<1>1. TypeOK'
  BY LatchMuteTypes
<1>2. MuteInv'
  BY DEF TypeOK, MuteInv, RestoreInv, LatchMute, Origs
<1>3. OwnerInv'
  BY DEF OwnerInv, LatchMute, End, Stages, Unread
<1>4. RestoreInv'
  BY DEF RestoreInv, LatchMute, End
<1> QED BY <1>1, <1>2, <1>3, <1>4

\* A lease begins.
LEMMA LeaseBeginKeeps == ASSUME Ordinary, MuteIInv, LeaseBegin PROVE MuteIInv'
<1> USE DEF MuteIInv, Ordinary
<1>1. TypeOK'
  BY LeaseBeginTypes
<1>2. MuteInv' /\ OwnerInv' /\ RestoreInv'
  BY DEF MuteInv, OwnerInv, RestoreInv, LeaseBegin, Stages
<1> QED BY <1>1, <1>2

\* The edit under a lease.
LEMMA LeaseEditKeeps == ASSUME Ordinary, MuteIInv, LeaseEdit PROVE MuteIInv'
<1> USE DEF MuteIInv, Ordinary
<1>1. TypeOK'
  BY LeaseEditTypes
<1>2. MuteInv' /\ OwnerInv' /\ RestoreInv'
  BY DEF TypeOK, MuteInv, OwnerInv, RestoreInv, LeaseEdit, Fail, End, Stages, Unread,
         Origs
<1> QED BY <1>1, <1>2

\* The rollback of a lease.
LEMMA LeaseRollbackKeeps == ASSUME Ordinary, MuteIInv, LeaseRollback PROVE MuteIInv'
<1> USE DEF MuteIInv, Ordinary
<1>1. TypeOK'
  BY LeaseRollbackTypes
<1>2. MuteInv' /\ OwnerInv' /\ RestoreInv'
  BY DEF TypeOK, MuteInv, OwnerInv, RestoreInv, LeaseRollback, Stages, Unread, Origs
<1> QED BY <1>1, <1>2

\* Admission.
LEMMA AdmitKeeps == ASSUME Ordinary, MuteIInv, Admit PROVE MuteIInv'
<1> USE DEF MuteIInv, Ordinary
<1>1. TypeOK'
  BY AdmitTypes
<1>2. MuteInv' /\ OwnerInv' /\ RestoreInv'
  BY DEF MuteInv, OwnerInv, RestoreInv, Admit, Stages
<1> QED BY <1>1, <1>2

\* Revalidation.
LEMMA RevalidateKeeps == ASSUME Ordinary, MuteIInv, Revalidate PROVE MuteIInv'
<1> USE DEF MuteIInv, Ordinary
<1>1. TypeOK'
  BY RevalidateTypes
<1>2. MuteInv' /\ OwnerInv' /\ RestoreInv'
  BY DEF MuteInv, OwnerInv, RestoreInv, Revalidate, End, Stages, Unread
<1> QED BY <1>1, <1>2

\* The snapshot.
LEMMA SnapshotKeeps == ASSUME Ordinary, MuteIInv, Snapshot PROVE MuteIInv'
<1> USE DEF MuteIInv, Ordinary
<1>1. TypeOK'
  BY SnapshotTypes
<1>2. MuteInv' /\ OwnerInv' /\ RestoreInv'
  BY DEF MuteInv, OwnerInv, RestoreInv, Snapshot, End, SkipRestore, Stages,
         Transitions
<1> QED BY <1>1, <1>2

\* A stage that changes the graph.
LEMMA MutateKeeps == ASSUME Ordinary, MuteIInv, Mutate PROVE MuteIInv'
<1> USE DEF MuteIInv, Ordinary
<1>1. TypeOK'
  BY MutateTypes
<1>2. MuteInv'
  <2>1. hw' = hw \/ (gate.closed /\ hw' = TRUE)
    BY DEF Mutate, EnsureClosed
  <2>2. UNCHANGED <<gatevars, holdvars, intent, lost>>
    BY DEF Mutate
  <2> QED BY <2>1, <2>2 DEF TypeOK, MuteInv, Origs
<1>3. OwnerInv'
  BY DEF TypeOK, OwnerInv, Mutate, NextStages, Stages, Unread, Transitions, Requests
<1>4. RestoreInv'
  BY DEF RestoreInv, Mutate, NextStages, Stages
<1> QED BY <1>1, <1>2, <1>3, <1>4

\* The checkpoint before the target.
LEMMA BeforeTargetStartKeeps == ASSUME Ordinary, MuteIInv, BeforeTargetStart PROVE MuteIInv'
<1> USE DEF MuteIInv, Ordinary
<1>1. TypeOK'
  BY BeforeTargetStartTypes
<1>2. MuteInv' /\ OwnerInv' /\ RestoreInv'
  BY DEF MuteInv, OwnerInv, RestoreInv, BeforeTargetStart, SkipRestore, End,
         Stages, Unread
<1> QED BY <1>1, <1>2

\* The staged readback.
LEMMA StagedReadbackKeeps == ASSUME Ordinary, MuteIInv, StagedReadback PROVE MuteIInv'
<1> USE DEF MuteIInv, Ordinary
<1>1. TypeOK'
  BY StagedReadbackTypes
<1>2. MuteInv' /\ OwnerInv' /\ RestoreInv'
  BY DEF MuteInv, OwnerInv, RestoreInv, StagedReadback, Stages, Unread
<1> QED BY <1>1, <1>2

\* The checkpoint before the commit.
LEMMA BeforeCommitReadbackKeeps == ASSUME Ordinary, MuteIInv, BeforeCommitReadback PROVE MuteIInv'
<1> USE DEF MuteIInv, Ordinary
<1>1. TypeOK'
  BY BeforeCommitReadbackTypes
<1>2. MuteInv' /\ OwnerInv' /\ RestoreInv'
  BY DEF MuteInv, OwnerInv, RestoreInv, BeforeCommitReadback, Stages, Unread
<1> QED BY <1>1, <1>2

\* The committed readback.
LEMMA CommitReadbackKeeps == ASSUME Ordinary, MuteIInv, CommitReadback PROVE MuteIInv'
<1> USE DEF MuteIInv, Ordinary
<1>1. TypeOK'
  BY CommitReadbackTypes
<1>2. MuteInv' /\ OwnerInv' /\ RestoreInv'
  BY DEF MuteInv, OwnerInv, RestoreInv, CommitReadback, End, Stages, Unread
<1> QED BY <1>1, <1>2

\* The commit of a graph.
LEMMA GraphCommitKeeps == ASSUME Ordinary, MuteIInv, GraphCommit PROVE MuteIInv'
<1> USE DEF MuteIInv, Ordinary
<1>1. TypeOK'
  BY GraphCommitTypes
<1>2. MuteInv' /\ OwnerInv' /\ RestoreInv'
  BY DEF TypeOK, MuteInv, OwnerInv, RestoreInv, GraphCommit, EnsureClosed, Stages, Unread,
         Origs
<1> QED BY <1>1, <1>2

\* The restore of a commit.
LEMMA RestoreOutputGateKeeps == ASSUME Ordinary, MuteIInv, RestoreOutputGate PROVE MuteIInv'
<1> USE DEF MuteIInv, Ordinary
<1>1. TypeOK'
  BY RestoreOutputGateTypes
<1>2. MuteInv' /\ OwnerInv' /\ RestoreInv'
  BY DEF TypeOK, MuteInv, OwnerInv, RestoreInv, AsksSound, RestoreOutputGate,
         EnsureClosed, Stages, Unread, Origs
<1> QED BY <1>1, <1>2

\* The same-graph start.
LEMMA FastStartKeeps == ASSUME Ordinary, MuteIInv, FastStart PROVE MuteIInv'
<1> USE DEF MuteIInv, Ordinary
<1>1. TypeOK'
  BY FastStartTypes
<1>2. MuteInv' /\ OwnerInv' /\ RestoreInv'
  BY DEF MuteInv, OwnerInv, RestoreInv, FastStart, Stages, Unread
<1> QED BY <1>1, <1>2

\* The same-graph readback.
LEMMA FastReadbackKeeps == ASSUME Ordinary, MuteIInv, FastReadback PROVE MuteIInv'
<1> USE DEF MuteIInv, Ordinary
<1>1. TypeOK'
  BY FastReadbackTypes
<1>2. MuteInv' /\ OwnerInv' /\ RestoreInv'
  BY DEF MuteInv, OwnerInv, RestoreInv, FastReadback, End, Stages, Unread
<1> QED BY <1>1, <1>2

\* A stage fails.
LEMMA StageFailsKeeps == ASSUME Ordinary, MuteIInv, StageFails PROVE MuteIInv'
<1> USE DEF MuteIInv, Ordinary
<1>1. TypeOK'
  BY StageFailsTypes
<1>2. MuteInv' /\ OwnerInv' /\ RestoreInv'
  BY DEF MuteInv, OwnerInv, RestoreInv, StageFails, Fail, End, Unread, Transitions
<1> QED BY <1>1, <1>2

\* A stale transition is discarded.
LEMMA AbortKeeps == ASSUME Ordinary, MuteIInv, Abort PROVE MuteIInv'
<1> USE DEF MuteIInv, Ordinary
<1>1. TypeOK'
  BY AbortTypes
<1>2. MuteInv' /\ OwnerInv' /\ RestoreInv'
  BY DEF MuteInv, OwnerInv, RestoreInv, AsksSound, Abort, End, Stages,
         Unread
<1> QED BY <1>1, <1>2

\* The session repair begins.
LEMMA LinksBeginKeeps == ASSUME Ordinary, MuteIInv, LinksBegin PROVE MuteIInv'
<1> USE DEF MuteIInv, Ordinary
<1>1. TypeOK'
  BY LinksBeginTypes
<1>2. MuteInv' /\ OwnerInv' /\ RestoreInv'
  BY DEF MuteInv, OwnerInv, RestoreInv, LinksBegin, End, Stages, Unread
<1> QED BY <1>1, <1>2

\* The session repair.
LEMMA LinksRepairKeeps == ASSUME Ordinary, MuteIInv, LinksRepair PROVE MuteIInv'
<1> USE DEF MuteIInv, Ordinary
<1>1. TypeOK'
  BY LinksRepairTypes
<1>2. MuteInv' /\ OwnerInv' /\ RestoreInv'
  BY DEF TypeOK, MuteInv, OwnerInv, RestoreInv, AsksSound, LinksRepair, Fail, Stages,
         Unread, Origs
<1> QED BY <1>1, <1>2

\* A cancellation that nobody catches.
LEMMA CancelUnprotectedKeeps == ASSUME Ordinary, MuteIInv, CancelUnprotected PROVE MuteIInv'
<1> USE DEF MuteIInv, Ordinary
<1>1. TypeOK'
  BY CancelUnprotectedTypes
<1>2. MuteInv' /\ OwnerInv' /\ RestoreInv'
  BY DEF MuteInv, OwnerInv, RestoreInv, CancelUnprotected, End, Stages,
         Unread
<1> QED BY <1>1, <1>2

\* Cleanup.
LEMMA CleanupKeeps == ASSUME Ordinary, MuteIInv, Cleanup PROVE MuteIInv'
<1> USE DEF MuteIInv, Ordinary
<1>1. TypeOK'
  BY CleanupTypes
<1>2. MuteInv' /\ OwnerInv' /\ RestoreInv'
  BY DEF MuteInv, OwnerInv, RestoreInv, Cleanup, GiveUp, End, Stages, Unread
<1> QED BY <1>1, <1>2

\* Cleanup: the tier.
LEMMA TierRollbackKeeps == ASSUME Ordinary, MuteIInv, TierRollback PROVE MuteIInv'
<1> USE DEF MuteIInv, Ordinary
<1>1. TypeOK'
  BY TierRollbackTypes
<1>2. MuteInv' /\ OwnerInv' /\ RestoreInv'
  BY DEF TypeOK, MuteInv, OwnerInv, RestoreInv, AsksSound, TierRollback, End, Stages, Unread, Origs
<1> QED BY <1>1, <1>2

\* Cleanup: what to restore.
LEMMA AbortHookKeeps == ASSUME Ordinary, MuteIInv, AbortHook PROVE MuteIInv'
<1> USE DEF MuteIInv, Ordinary
<1>1. TypeOK'
  BY AbortHookTypes
<1>2. MuteInv' /\ OwnerInv' /\ RestoreInv'
  BY DEF MuteInv, OwnerInv, RestoreInv, AbortHook, GiveUp, End, Stages,
         Unread
<1> QED BY <1>1, <1>2

\* Cleanup: rate of the old source.
LEMMA RestoreRateKeeps == ASSUME Ordinary, MuteIInv, RestoreRate PROVE MuteIInv'
<1> USE DEF MuteIInv, Ordinary
<1>1. TypeOK'
  BY RestoreRateTypes
<1>2. MuteInv' /\ OwnerInv' /\ RestoreInv'
  BY DEF TypeOK, MuteInv, OwnerInv, RestoreInv, RestoreRate, GiveUp, EnsureClosed, End, Stages, Unread, Origs
<1> QED BY <1>1, <1>2

\* Cleanup: readback of the old source.
LEMMA RestoreReadbackKeeps == ASSUME Ordinary, MuteIInv, RestoreReadback PROVE MuteIInv'
<1> USE DEF MuteIInv, Ordinary
<1>1. TypeOK'
  BY RestoreReadbackTypes
<1>2. MuteInv' /\ OwnerInv' /\ RestoreInv'
  BY DEF TypeOK, MuteInv, OwnerInv, RestoreInv, AsksSound, RestoreReadback, GiveUp,
         EnsureClosed, End, Stages, Unread, Origs
<1> QED BY <1>1, <1>2

\* The user's mute button.
LEMMA UserSetsMuteKeeps == ASSUME Ordinary, MuteIInv, UserSetsMute PROVE MuteIInv'
<1> USE DEF MuteIInv, Ordinary
<1>1. TypeOK'
  BY UserSetsMuteTypes
<1>2. MuteInv' /\ OwnerInv' /\ RestoreInv'
  BY DEF MuteInv, OwnerInv, RestoreInv, UserSetsMute
<1> QED BY <1>1, <1>2

\* A mute changed from outside.
LEMMA DisturbKeeps == ASSUME Ordinary, MuteIInv, Disturb PROVE MuteIInv'
<1> USE DEF MuteIInv, Ordinary
<1>1. TypeOK'
  BY DisturbTypes
<1>2. MuteInv' /\ OwnerInv' /\ RestoreInv'
  BY DEF TypeOK, MuteInv, OwnerInv, RestoreInv, AsksSound, Disturb, Origs
<1> QED BY <1>1, <1>2

\* A recreated DSP sink.
LEMMA DspMutedKeeps == ASSUME Ordinary, MuteIInv, DspMuted PROVE MuteIInv'
<1> USE DEF MuteIInv, Ordinary
<1>1. TypeOK'
  BY DspMutedTypes
<1>2. MuteInv' /\ OwnerInv' /\ RestoreInv'
  BY DEF MuteInv, OwnerInv, RestoreInv, AsksSound, DspMuted
<1> QED BY <1>1, <1>2

\* A source switch.
LEMMA SourceSwitchedKeeps == ASSUME Ordinary, MuteIInv, SourceSwitched PROVE MuteIInv'
<1> USE DEF MuteIInv, Ordinary
<1>1. TypeOK'
  BY SourceSwitchedTypes
<1>2. MuteInv' /\ OwnerInv' /\ RestoreInv'
  BY DEF MuteInv, OwnerInv, RestoreInv, AsksSound, SourceSwitched
<1> QED BY <1>1, <1>2

\* An ordinary environment takes no hold.
LEMMA NoHolds == ASSUME Ordinary, MuteIInv PROVE ~(HoldMute \/ HoldSet \/ HoldLift \/ HoldClear)
  BY DEF Ordinary, MuteIInv, MuteInv, HoldMute, HoldSet, HoldLift, HoldClear

\* A crash.
LEMMA CrashKeeps == ASSUME Ordinary, MuteIInv, Crash PROVE MuteIInv'
<1> USE DEF MuteIInv, Ordinary
<1>1. TypeOK'
  BY CrashTypes
<1>2. MuteInv' /\ OwnerInv' /\ RestoreInv'
  BY DEF MuteInv, OwnerInv, RestoreInv, Crash, BootRequest, OpenGate, Stages
<1> QED BY <1>1, <1>2

\* A step that changes nothing.
LEMMA StutterKeeps == ASSUME MuteIInv, UNCHANGED vars PROVE MuteIInv'
<1> USE DEF vars, MuteIInv
<1>1. TypeOK'
  BY DEF TypeOK
<1>2. MuteInv' /\ OwnerInv'
  BY DEF MuteInv, OwnerInv
<1>3. RestoreInv'
  BY DEF RestoreInv, AsksSound
<1> QED BY <1>1, <1>2, <1>3

\* A service that starts for the first time.
LEMMA InitKeeps == ASSUME Init PROVE MuteIInv
<1> USE DEF Init
<1>1. TypeOK
  BY InitTypes
<1>2. MuteInv
  BY DEF MuteInv, OpenGate
<1>3. OwnerInv
  BY DEF OwnerInv, BootRequest, Stages
<1>4. RestoreInv
  BY DEF RestoreInv
<1> QED BY <1>1, <1>2, <1>3, <1>4 DEF MuteIInv

\* Every step keeps the invariant.
LEMMA NextKeeps == ASSUME Ordinary, MuteIInv, [Next]_vars PROVE MuteIInv'
<1>1. CASE \E r \in Requests : Begin(r)
  BY <1>1, BeginKeeps
<1>2. CASE GateNext
  BY <1>2, StartupUnownedKeeps, StartupOwnedKeeps, StartupConfirmKeeps, StartupLatchKeeps,
     StartupDoneKeeps, CloseGateKeeps, CloseMuteKeeps, CloseConfirmKeeps, RestoreCheckKeeps,
     RestoreWriteKeeps, RestoreOpenKeeps, RestoreVerifyKeeps, LatchKeeps, LatchMuteKeeps,
     LeaseBeginKeeps, LeaseEditKeeps, LeaseRollbackKeeps DEF GateNext
<1>3. CASE CoordinatorNext
  BY <1>3, AdmitKeeps, RevalidateKeeps, SnapshotKeeps, MutateKeeps, BeforeTargetStartKeeps,
     StagedReadbackKeeps, BeforeCommitReadbackKeeps, CommitReadbackKeeps, GraphCommitKeeps,
     RestoreOutputGateKeeps, FastStartKeeps, FastReadbackKeeps, StageFailsKeeps, AbortKeeps,
     LinksBeginKeeps, LinksRepairKeeps, CancelUnprotectedKeeps, CleanupKeeps, TierRollbackKeeps,
     AbortHookKeeps, RestoreRateKeeps, RestoreReadbackKeeps DEF CoordinatorNext
<1>4. CASE Environment
  BY <1>4, NoHolds, UserSetsMuteKeeps, DisturbKeeps, DspMutedKeeps, SourceSwitchedKeeps,
     CrashKeeps DEF Environment
<1>5. CASE UNCHANGED vars
  BY <1>5, StutterKeeps
<1> QED BY <1>1, <1>2, <1>3, <1>4, <1>5 DEF Next, Coordinator

\* The inductive invariant holds throughout, for any number of operations and crashes.
THEOREM MuteIInvAlways == ASSUME Ordinary PROVE Spec => []MuteIInv
<1>1. Init => MuteIInv
  BY InitKeeps
<1>2. MuteIInv /\ [Next]_vars => MuteIInv'
  BY NextKeeps
<1> QED BY <1>1, <1>2, PTL DEF Spec

\* In an ordinary environment the mute of the output is the user's whenever no gate
\* is closed: no sequence of operations, failures, cancellations, disturbed mutes,
\* source switches and crashes loses it or leaves the service's own, except by a latch
\* over an open gate while the user has muted.
THEOREM UserMuteAlways == ASSUME Ordinary PROVE Spec => []UserMuteKept
<1>1. MuteIInv => UserMuteKept
  BY DEF MuteIInv, MuteInv, UserMuteKept
<1> QED BY <1>1, MuteIInvAlways, PTL
=============================================================================
