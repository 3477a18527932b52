------------------------------ MODULE OutputGate ------------------------------
(***************************************************************************)
(* The hardware-output gate of FXRoute (playback/transition/gate.py): the  *)
(* coordinator mutes the physical sink before it rebuilds the audio graph  *)
(* and gives back the user's own mute afterwards.  Ownership of the mute   *)
(* is a record in memory and a marker file on disk, so that a restart can  *)
(* undo a mute the service left behind.  Module Transition runs these      *)
(* steps as parts of the operations that own the gate.                     *)
(*                                                                         *)
(* Every pactl call is a step of its own; a step that reads or writes a    *)
(* sink may fail.  One physical sink is modelled: the memoised resolution  *)
(* of the gate sink and its invalidation are left out.                     *)
(***************************************************************************)
EXTENDS Integers

CONSTANTS
  Allowed,     \* what the environment may do besides failing calls, see Events
  MaxTxn,      \* bound: operations that take the coordinator lock
  MaxCrashes   \* bound: crashes of the service

\* crash: the service dies and is restarted; disturb: a mute held by the gate is
\* changed from outside; stale: a source switch commits during a transition;
\* hold: an SPL calibration holds the output; disk-full: the marker cannot be
\* written; marker-stays: it cannot be removed.
Events == {"crash", "disturb", "stale", "hold", "disk-full", "marker-stays"}

ASSUME GateAssumption ==
  /\ Allowed \subseteq Events
  /\ MaxTxn \in Nat /\ MaxCrashes \in Nat

VARIABLES
  pc, txn, req, gated,      \* the lock holder: next step, number, request, gate_required
  tier, stale,              \* channel_tier on the request; a source switch committed meanwhile
  why, snd, rm,             \* the running _restore_gate: caller, audible_output, restore_muted
  graph,                    \* what this operation did to the audio graph
  gate, disk, reconciled,   \* self.gate, the marker file, _startup_gate_reconciled
  hw, dsp,                  \* mute of the hardware sink and of fxroute_dsp_sink
  hold, spl, wasMuted,      \* output_hold(), the SPL calibration behind it, output_was_muted
  err, lastOk, commit,      \* last_error, last_result.committed, _last_successful_commit_id
  intent, crashes,          \* history: the mute the user asked for; crashes so far
  lost, raced, overtaken    \* history: a latch recorded no mute although the user had muted;
                            \* the mute of a hold was undone from outside, or the hold began
                            \* while a gate was restored; a source switch committed before
                            \* the last checkpoint of the running transition

lockvars == <<pc, txn, req, gated, tier, stale, why, snd, rm, graph>>
opvars   == <<txn, req, gated, tier>>
gatevars == <<gate, disk, reconciled>>
sinkvars == <<hw, dsp>>
holdvars == <<hold, spl, wasMuted>>
results  == <<err, lastOk, commit>>
hist     == <<lost, raced, overtaken, crashes>>
vars     == <<lockvars, gatevars, sinkvars, holdvars, results, intent, hist>>

\* The operations that take the coordinator lock: play (also resume, queue, claims,
\* recovery, graph-reconcile), claim (of a Qobuz renderer at the unchanged rate, the
\* one transition without a gate), switch (output mode, sample-rate policy,
\* measurement entry), restore (after a measurement), links (repair in a
\* measurement session), lease (output edit) and boot (startup).
Transitions == {"play", "claim", "switch", "restore"}
Requests    == [kind : Transitions \cup {"links", "lease", "boot"}, audible : BOOLEAN]

Origs    == {"none", "muted", "unmuted"}      \* original_user_muted: None, True, False
OpenGate == [closed |-> FALSE, orig |-> "none", tid |-> 0, latched |-> FALSE]

NoError  == [tid |-> 0, latched |-> FALSE]    \* last_error is None

AsOrig(m) == IF m THEN "muted" ELSE "unmuted"
Muted(o)  == o = "muted"                      \* bool(original_user_muted)

\* The id under which the operation owns the gate.  A lease on a gate that is
\* closed already borrows the owner's.
Tid == IF req.kind = "lease" /\ ~gated THEN gate.tid ELSE txn

-----------------------------------------------------------------------------
(* How operations end *)

\* The lock is released; "none" leaves the status fields alone.
End(outcome) ==
  /\ pc' = "idle"
  /\ err' = CASE outcome \in {"commit", "discard"} -> NoError
              [] outcome \in {"latched", "unlatched"} -> [tid |-> txn, latched |-> outcome = "latched"]
              [] OTHER -> err
  /\ lastOk' = CASE outcome = "commit" -> TRUE
                 [] outcome = "discard" -> FALSE
                 [] OTHER -> lastOk
  /\ commit' = IF outcome = "commit" THEN txn ELSE commit

Goto(step) == pc' = step /\ UNCHANGED results

\* The steps of a transition before its snapshot is there.
Unread == {"startup", "startup-confirm", "startup-latch", "revalidate"}

\* The exception handlers of the operation: cleanup for a transition (a request
\* with a tier and no snapshot has nothing to clean up, one for another SRC mode is
\* only refused), the except clause of the lease, the latch of a measurement-session
\* repair.
Fail ==
  \/ /\ req.kind = "boot" /\ End("none")
  \/ /\ req.kind = "lease" /\ gate.closed /\ Goto("lease-rollback")
  \/ /\ req.kind = "lease" /\ ~gate.closed /\ End("none")
  \/ /\ req.kind = "links" /\ Goto("latch")
  \/ /\ req.kind \in Transitions
     /\ \/ tier /\ pc \in Unread \cup {"snapshot"} /\ End("unlatched")
        \/ ~(tier /\ pc \in Unread) /\ Goto("cleanup")
        \/ req.kind = "switch" /\ pc \in Unread \cup {"snapshot"} /\ End("none")

\* An exception before the operation's own handlers are in place.
StartupRaises == IF req.kind \in {"lease", "links"} THEN End("none") ELSE Fail

-----------------------------------------------------------------------------
(* The marker file *)

\* _persist_gate_state in _latch_failure and at startup: an error is swallowed.
Persist(orig) ==
  \/ disk' = orig
  \/ "disk-full" \in Allowed /\ disk' = disk

\* _clear_gate_state: an OSError is swallowed and the marker stays.
Clear ==
  \/ disk' = "absent"
  \/ "marker-stays" \in Allowed /\ disk' = disk

-----------------------------------------------------------------------------
(* _reconcile_startup_gate_locked *)

AfterStartup == CASE req.kind = "boot"  -> "idle"
                  [] req.kind = "lease" -> "lease"
                  [] req.kind = "links" -> "links"
                  [] OTHER              -> "revalidate"

\* No marker of ours: the DSP sink is unmuted, the hardware mute belongs to the
\* user, and a hold that lost its mute gets it back.
StartupUnowned ==
  /\ pc = "startup" /\ ~reconciled /\ disk = "absent"
  /\ \/ /\ dsp' = FALSE /\ hw' = (hw \/ hold)
        /\ reconciled' = TRUE /\ Goto(AfterStartup)
     \/ /\ dsp' \in {dsp, FALSE} /\ hw' \in {hw, hw \/ hold}
        /\ reconciled' = FALSE /\ StartupRaises
  /\ UNCHANGED <<opvars, stale, why, snd, rm, graph, gate, disk, holdvars, intent, hist>>

\* Mutant: a gate is taken over without a marker.
StartupOwnedBlind ==
  /\ pc = "startup" /\ ~reconciled
  /\ \E l \in BOOLEAN : gate' = [closed |-> TRUE, orig |-> disk, tid |-> 0, latched |-> l]
  /\ rm' = (Muted(disk) \/ hold)
  /\ \/ hw' = rm' /\ Goto("startup-confirm")
     \/ hw' = hw  /\ Goto("startup-latch")
  /\ UNCHANGED <<opvars, stale, why, snd, graph, disk, reconciled, dsp, holdvars, intent, hist>>

\* A marker: take over its gate, with the latch it recorded or not, and write its mute.
StartupOwned ==
  /\ pc = "startup" /\ ~reconciled /\ disk # "absent"
  /\ \E l \in BOOLEAN : gate' = [closed |-> TRUE, orig |-> disk, tid |-> 0, latched |-> l]
  /\ rm' = (Muted(disk) \/ hold)
  /\ \/ hw' = rm' /\ Goto("startup-confirm")
     \/ hw' \in {hw, rm'} /\ Goto("startup-latch")
  /\ UNCHANGED <<opvars, stale, why, snd, graph, disk, reconciled, dsp, holdvars, intent, hist>>

\* The readback decides whether the gate of the earlier process is resolved; only a
\* cancellation leaves the gate without the latch.
StartupConfirm ==
  /\ pc = "startup-confirm"
  /\ \/ /\ hw = rm
        /\ gate' = OpenGate /\ reconciled' = TRUE /\ Clear /\ Goto(AfterStartup)
     \/ Goto("startup-latch") /\ UNCHANGED gatevars
     \/ StartupRaises /\ UNCHANGED gatevars
  /\ UNCHANGED <<opvars, stale, why, snd, rm, graph, sinkvars, holdvars, intent, hist>>

\* An unresolved gate stays closed and latched, best effort on disk and sink.
StartupLatch ==
  /\ pc = "startup-latch"
  /\ gate' = [gate EXCEPT !.latched = TRUE, !.closed = TRUE]
  /\ Persist(gate.orig)
  /\ hw' \in {hw, TRUE}
  /\ StartupRaises
  /\ UNCHANGED <<opvars, stale, why, snd, rm, graph, reconciled, dsp, holdvars, intent, hist>>

\* Later operations of the process find the startup gate reconciled.
StartupDone ==
  /\ pc = "startup" /\ reconciled
  /\ Goto(AfterStartup)
  /\ UNCHANGED <<opvars, stale, why, snd, rm, graph, gatevars, sinkvars, holdvars, intent, hist>>

-----------------------------------------------------------------------------
(* _close_gate *)

AfterClose == CASE req.kind = "lease" -> "lease-edit"
                [] req.kind = "links" -> "links-repair"
                [] OTHER              -> "quiet-old-source"

\* The user has unmuted the sink after a failure latched it.
Unlatched == gate.closed /\ gate.latched /\ ~hw

\* The user mute that a closing gate records: an audible request asks for sound,
\* an open gate leaves the sink to the user, a closed one keeps its record.
Captured == CASE req.audible -> "unmuted"
              [] ~req.audible /\ ~gate.closed -> AsOrig(hw)
              [] ~req.audible /\ Unlatched -> "unmuted"
              [] OTHER -> gate.orig

\* Mutant: the mute that a failed transition left is taken for the user's.
CloseGateForgets ==
  /\ pc = "output-gate-close"
  /\ gate' = [closed |-> TRUE, orig |-> AsOrig(~req.audible /\ hw), tid |-> txn, latched |-> gate.latched]
  /\ intent' = (intent /\ ~req.audible) /\ lost' = (lost /\ intent')
  /\ disk' = gate'.orig /\ Goto("gate-mute")
  /\ UNCHANGED <<opvars, stale, why, snd, rm, graph, reconciled, sinkvars, holdvars, raced, overtaken, crashes>>

\* The mute is observed, recorded and persisted before it is changed.
CloseGate ==
  /\ pc = "output-gate-close"
  /\ \/ /\ gate' = [closed  |-> TRUE, orig |-> Captured, tid |-> txn,
                    latched |-> gate.latched /\ (req.audible \/ ~Unlatched)]
        /\ intent' = (intent /\ ~req.audible /\ ~Unlatched) /\ lost' = (lost /\ intent')
        /\ \/ disk' = Captured /\ Goto("gate-mute")
           \/ "disk-full" \in Allowed /\ disk' = disk
              /\ Goto(CASE req.kind = "lease" -> "lease-rollback"
                        [] req.kind = "links" -> "latch"
                        [] OTHER -> "cleanup")
     \/ /\ ~req.audible /\ Fail /\ UNCHANGED <<gate, disk, intent, lost>>   \* the observation fails
  /\ UNCHANGED <<opvars, stale, why, snd, rm, graph, reconciled, sinkvars, holdvars, raced, overtaken, crashes>>

\* set_hardware_mute(True); a call that fails may have had its effect.
CloseMute ==
  /\ pc = "gate-mute"
  /\ \/ hw' = TRUE /\ Goto("gate-muted")
     \/ hw' \in {hw, TRUE} /\ Fail
  /\ UNCHANGED <<opvars, stale, why, snd, rm, graph, gatevars, dsp, holdvars, intent, hist>>

\* The readback, and for an audible request the DSP sink.
CloseConfirm ==
  /\ pc = "gate-muted"
  /\ \/ hw /\ Goto(AfterClose) /\ dsp' = (dsp /\ ~req.audible)
     \/ Fail /\ dsp' \in {dsp, dsp /\ ~req.audible}
  /\ UNCHANGED <<opvars, stale, why, snd, rm, graph, gatevars, hw, holdvars, intent, hist>>

\* ensure_output_gate_closed: owned by this operation, and re-muted when the mute
\* was lost.  The alternative is an exception.
EnsureClosed == gate.closed /\ gate.tid = Tid /\ hw' = TRUE

-----------------------------------------------------------------------------
(* _restore_gate, called by "why" with audible_output = "snd" *)

\* Where a failed restore continues: in the caller's exception handler.
RestoreFails ==
  CASE why \in {"commit", "skip"} -> Fail
    [] why = "abort" -> End("discard")
    [] why = "lease" -> Goto("lease-rollback")
    [] OTHER -> Goto("latch")

\* Where an opened gate continues: in the caller's next statement.
RestoreDone ==
  CASE why \in {"commit", "links"} -> End("commit")
    [] why \in {"skip", "abort"} -> End("discard")
    [] why \in {"tier", "recovered"} -> End("unlatched")
    [] OTHER -> End("none")

\* Mutant: the hold is not looked at.
RestoreCheckUnheld ==
  /\ pc = "gate-check"
  /\ gate.tid = Tid
  /\ rm' = (~snd /\ Muted(gate.orig)) /\ dsp' = (dsp /\ ~snd) /\ Goto("gate-write")
  /\ UNCHANGED <<opvars, stale, why, snd, graph, gatevars, hw, holdvars, intent, hist>>

\* Ownership and the hold are checked once, before the calls that open the output.
RestoreCheck ==
  /\ pc = "gate-check"
  /\ \/ /\ gate.tid = Tid /\ ~(snd /\ hold)
        /\ rm' = (~snd /\ (Muted(gate.orig) \/ hold))
        /\ dsp' = (dsp /\ ~snd)
        /\ Goto("gate-write")
     \/ RestoreFails /\ rm' = rm /\ dsp' \in {dsp, dsp /\ ~snd}
  /\ UNCHANGED <<opvars, stale, why, snd, graph, gatevars, hw, holdvars, intent, hist>>

\* set_hardware_mute(restore_muted)
RestoreWrite ==
  /\ pc = "gate-write"
  /\ \/ hw' = rm /\ Goto("gate-confirm")
     \/ hw' \in {hw, rm} /\ RestoreFails
  /\ UNCHANGED <<opvars, stale, why, snd, rm, graph, gatevars, dsp, holdvars, intent, hist>>

\* Who may undo a mute of the user: an audible request, the discarding of a stale
\* transition ("restores an owned output gate to audible") and a failed transition
\* that goes back to a playing source.
AsksSound == snd /\ (req.audible \/ why \in {"abort", "recovered", "tier"})

\* The readbacks, after_physical_restore, and the gate opens.
RestoreOpen ==
  /\ pc = "gate-confirm"
  /\ \/ /\ hw = rm /\ (snd => ~dsp)
        /\ gate' = OpenGate /\ Clear
        /\ intent' = (intent /\ ~AsksSound) /\ lost' = (lost /\ intent')
        /\ IF snd THEN Goto("gate-opened") ELSE RestoreDone
     \/ RestoreFails /\ UNCHANGED <<gate, disk, intent, lost>>
  /\ UNCHANGED <<opvars, stale, why, snd, rm, graph, reconciled, sinkvars, holdvars, raced, overtaken, crashes>>

\* Mutant: the open output is not read back.
RestoreVerifyBlind ==
  /\ pc = "gate-opened" /\ RestoreDone
  /\ UNCHANGED <<opvars, stale, why, snd, rm, graph, gatevars, sinkvars, holdvars, intent, hist>>

\* _verify_audible_output_readback("after-gate-open")
RestoreVerify ==
  /\ pc = "gate-opened"
  /\ \/ ~hw /\ ~dsp /\ RestoreDone
     \/ RestoreFails
  /\ UNCHANGED <<opvars, stale, why, snd, rm, graph, gatevars, sinkvars, holdvars, intent, hist>>

-----------------------------------------------------------------------------
(* _latch_failure *)

\* Mutant: a failed transition releases the gate it could not verify.
LatchReleases ==
  /\ pc = "latch"
  /\ gate' = OpenGate /\ disk' = "absent" /\ hw' = Muted(gate.orig) /\ End("latched")
  /\ UNCHANGED <<opvars, stale, why, snd, rm, graph, reconciled, dsp, holdvars, intent, hist>>

\* The latch is recorded first; original_user_muted is kept as it is, and is None if
\* the gate was open.
Latch ==
  /\ pc = "latch"
  /\ gate' = [closed |-> TRUE, orig |-> gate.orig, tid |-> Tid, latched |-> TRUE]
  /\ Persist(gate.orig)
  /\ Goto("latch-mute")
  /\ lost' = (lost \/ (~gate.closed /\ intent))
  /\ UNCHANGED <<opvars, stale, why, snd, rm, graph, reconciled, sinkvars, holdvars, intent,
                 raced, overtaken, crashes>>

\* Mutant: the latch is repeated until its mute can be written.
LatchMuteRetries ==
  /\ pc = "latch-mute"
  /\ \/ hw' = TRUE /\ End(IF req.kind = "lease" THEN "none" ELSE "latched")
     \/ hw' = hw /\ Goto("latch")
  /\ UNCHANGED <<opvars, stale, why, snd, rm, graph, gatevars, dsp, holdvars, intent, hist>>

\* A mute that cannot be written is only ignored: the original error counts.
LatchMute ==
  /\ pc = "latch-mute"
  /\ hw' \in {hw, TRUE}
  /\ End(IF req.kind = "lease" THEN "none" ELSE "latched")
  /\ UNCHANGED <<opvars, stale, why, snd, rm, graph, gatevars, dsp, holdvars, intent, hist>>

-----------------------------------------------------------------------------
(* output_gate_lease *)

LeaseBegin ==
  /\ pc = "lease"
  /\ gated' = ~gate.closed
  /\ Goto(IF gate.closed THEN "lease-edit" ELSE "output-gate-close")
  /\ UNCHANGED <<txn, req, tier, stale, why, snd, rm, graph, gatevars, sinkvars, holdvars, intent, hist>>

\* The edit of the output under the gate and the handoff to the new sink.
LeaseEdit ==
  /\ pc = "lease-edit"
  /\ \/ /\ EnsureClosed /\ graph' = "confirmed"
        /\ IF gated THEN Goto("gate-check") /\ why' = "lease" /\ snd' = FALSE
                    ELSE End("none") /\ UNCHANGED <<why, snd>>
     \/ Fail /\ hw' = hw /\ graph' = "dirty" /\ UNCHANGED <<why, snd>>
  /\ UNCHANGED <<opvars, stale, rm, gatevars, dsp, holdvars, intent, hist>>

\* Only a verified rollback may release a new lease; everything else latches.
LeaseRollback ==
  /\ pc = "lease-rollback"
  /\ \/ /\ gated /\ EnsureClosed /\ graph' = "confirmed"
        /\ Goto("gate-check") /\ why' = "lease-back" /\ snd' = FALSE
     \/ /\ Goto("latch") /\ hw' = hw /\ UNCHANGED <<graph, why, snd>>
  /\ UNCHANGED <<opvars, stale, rm, gatevars, dsp, holdvars, intent, hist>>

GateNext ==
  \/ StartupUnowned \/ StartupOwned \/ StartupConfirm \/ StartupLatch \/ StartupDone
  \/ CloseGate \/ CloseMute \/ CloseConfirm
  \/ RestoreCheck \/ RestoreWrite \/ RestoreOpen \/ RestoreVerify
  \/ Latch \/ LatchMute
  \/ LeaseBegin \/ LeaseEdit \/ LeaseRollback
=============================================================================
