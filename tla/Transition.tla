------------------------------ MODULE Transition ------------------------------
(***************************************************************************)
(* Playback transitions: PlaybackTransitionCoordinator.execute and         *)
(* reconcile_measurement_session (playback/transition/coordinator.py) with *)
(* the shared failure path (playback/transition/cleanup.py), over the gate *)
(* of module OutputGate.  One asyncio lock serialises the operations; what *)
(* runs between their steps is the environment: the user at the mute       *)
(* button, a source switch, an SPL calibration that takes a hold on the    *)
(* output, a crash.  Cancellation of a stage takes the same path as its    *)
(* failure, except where the code catches only Exception.                  *)
(*                                                                         *)
(* A step is a stage of the coordinator; "graph" tells whether the stages  *)
(* of this operation left the audio graph untouched, dirty (changed and    *)
(* not read back) or confirmed by a readback.                              *)
(***************************************************************************)
EXTENDS OutputGate

\* The stages that a failure takes to the cleanup, and the others.
Stages == {"revalidate", "snapshot", "quiet-old-source", "before-target-start",
           "target-rate", "effects-helper-links", "graph-commit",
           "target-source-prepare", "target-source-start", "staged-graph-readback",
           "before-commit-readback", "source-volume-restore", "commit-readback",
           "before-output-gate-restore", "fast-quiet", "fast-start", "fast-readback"}

Steps == Stages \cup
         {"idle", "admit", "startup", "startup-confirm", "startup-latch",
          "output-gate-close", "gate-mute", "gate-muted",
          "gate-check", "gate-write", "gate-confirm", "gate-opened",
          "latch", "latch-mute", "lease", "lease-edit", "lease-rollback",
          "links", "links-repair", "abort",
          "cleanup", "tier-rollback", "abort-hook", "restore-rate", "restore-readback"}

TypeOK ==
  /\ pc \in Steps /\ txn \in 0..MaxTxn /\ req \in Requests
  /\ gated \in BOOLEAN /\ tier \in BOOLEAN /\ stale \in BOOLEAN
  /\ why \in {"commit", "skip", "abort", "tier", "recovered", "lease", "lease-back", "links", "links-noop"}
  /\ snd \in BOOLEAN /\ rm \in BOOLEAN
  /\ graph \in {"untouched", "dirty", "confirmed"}
  /\ gate \in [closed : BOOLEAN, orig : Origs, tid : 0..MaxTxn, latched : BOOLEAN]
  /\ disk \in Origs \cup {"absent"} /\ reconciled \in BOOLEAN
  /\ hw \in BOOLEAN /\ dsp \in BOOLEAN
  /\ hold \in BOOLEAN /\ spl \in {"off", "muting", "on", "lifting"} /\ wasMuted \in BOOLEAN
  /\ err \in [tid : 0..MaxTxn, latched : BOOLEAN] /\ lastOk \in BOOLEAN /\ commit \in 0..MaxTxn
  /\ intent \in BOOLEAN /\ crashes \in 0..MaxCrashes
  /\ lost \in BOOLEAN /\ raced \in BOOLEAN /\ overtaken \in BOOLEAN

BootRequest == [kind |-> "boot", audible |-> FALSE]

\* A service that starts: the startup gate is reconciled first.
Init ==
  /\ pc = "startup" /\ txn = 0 /\ req = BootRequest
  /\ gated = FALSE /\ tier = FALSE /\ stale = FALSE
  /\ why = "commit" /\ snd = FALSE /\ rm = FALSE /\ graph = "untouched"
  /\ gate = OpenGate /\ disk = "absent" /\ reconciled = FALSE
  /\ hw \in BOOLEAN /\ dsp \in BOOLEAN
  /\ hold = FALSE /\ spl = "off" /\ wasMuted = FALSE
  /\ err = NoError /\ lastOk = FALSE /\ commit = 0
  /\ intent = hw /\ crashes = 0 /\ lost = FALSE /\ raced = FALSE /\ overtaken = FALSE

-----------------------------------------------------------------------------
(* execute: admission and preflight *)

\* An operation gets the lock.
Begin(r) ==
  /\ pc = "idle" /\ txn < MaxTxn
  /\ r.kind # "boot"
  /\ r.kind = "lease" => ~r.audible
  /\ r.kind \in {"links", "claim"} => r.audible
  /\ txn' = txn + 1 /\ req' = r
  /\ gated' = (r.kind # "claim")
  /\ tier' \in {FALSE, r.kind = "switch"}
  /\ stale' = FALSE /\ overtaken' = FALSE /\ graph' = "untouched" /\ why' = "commit"
  /\ Goto(IF r.kind \in Transitions /\ r.audible THEN "admit" ELSE "startup")
  /\ UNCHANGED <<snd, rm, gatevars, sinkvars, holdvars, intent, lost, raced, crashes>>

\* _refuse_audible_while_held
Admit ==
  /\ pc = "admit"
  /\ IF hold THEN End("none") ELSE Goto("startup")
  /\ UNCHANGED <<opvars, stale, why, snd, rm, graph, gatevars, sinkvars, holdvars, intent, hist>>

\* _ensure_source_current; only source-scoped operations carry a generation.
IsStale == stale /\ req.kind \in {"play", "claim"}

\* A claim whose source is committed already is skipped, a stale intent discarded.
Revalidate ==
  /\ pc = "revalidate"
  /\ \/ req.kind \in {"play", "claim"} /\ End("discard")
     \/ Goto(IF IsStale THEN "abort" ELSE "snapshot")
  /\ UNCHANGED <<opvars, stale, why, snd, rm, graph, gatevars, sinkvars, holdvars, intent, hist>>

\* The gate is open and the last transition committed without error.
FastPathPossible == ~gate.closed /\ ~gate.latched /\ err = NoError /\ lastOk

\* _skip_measurement_restore with the gate as it is.
SkipRestore ==
  IF gate.closed THEN Goto("gate-check") /\ why' = "skip" /\ snd' = FALSE
                 ELSE End("discard") /\ UNCHANGED <<why, snd>>

\* The snapshot and the checks that come before any mutation.  A preflight or rate
\* refusal leaves everything alone; the same-graph path works without the gate.
Snapshot ==
  /\ pc = "snapshot"
  /\ \/ /\ Goto(IF gated THEN "output-gate-close" ELSE "quiet-old-source")
        /\ UNCHANGED <<gated, why, snd>>
     \/ /\ End("none") /\ UNCHANGED <<gated, why, snd>>
     \/ /\ req.kind = "restore" /\ SkipRestore /\ UNCHANGED gated
     \/ /\ req.kind = "play" /\ req.audible /\ FastPathPossible
        /\ gated' = FALSE /\ Goto("fast-quiet") /\ UNCHANGED <<why, snd>>
  /\ UNCHANGED <<txn, req, tier, stale, rm, graph, gatevars, sinkvars, holdvars, intent, hist>>

-----------------------------------------------------------------------------
(* execute: the stages *)

\* What may follow a stage that only changes the graph.  A sample-rate policy reloads
\* its source or not.
NextStages(s) ==
  CASE s = "quiet-old-source"      -> {"before-target-start"}
    [] s = "target-rate"           -> {"effects-helper-links"}
    [] s = "effects-helper-links"  -> {"target-source-prepare"} \cup
                                      (IF req.kind = "switch" THEN {"graph-commit"} ELSE {})
    [] s = "target-source-prepare" -> {"target-source-start"}
    [] s = "target-source-start"   -> {IF gated THEN "staged-graph-readback" ELSE "before-commit-readback"}
    [] s = "source-volume-restore" -> {"commit-readback"}
    [] s = "fast-quiet"            -> {"fast-start"}

\* The stages around which the gate is confirmed.
GateChecked == {"target-rate", "effects-helper-links", "target-source-start", "source-volume-restore"}

\* A stage that changes sources, rate, effects or links.
Mutate ==
  /\ pc \in {"quiet-old-source", "target-rate", "effects-helper-links", "target-source-prepare",
             "target-source-start", "source-volume-restore", "fast-quiet"}
  /\ graph' = "dirty"
  /\ IF gated /\ pc \in GateChecked THEN EnsureClosed ELSE hw' = hw
  /\ tier' \in IF pc = "target-rate" THEN {tier, TRUE} ELSE {tier}
  /\ \E s \in NextStages(pc) : Goto(s)
  /\ UNCHANGED <<txn, req, gated, stale, why, snd, rm, gatevars, dsp, holdvars, intent, hist>>

\* The source checkpoint before the target starts; a measurement restore whose
\* intent changed under the gate is skipped here.
BeforeTargetStart ==
  /\ pc = "before-target-start"
  /\ \/ /\ \/ IsStale /\ Goto("abort")
           \/ ~IsStale /\ gated /\ Goto("target-rate")
           \/ ~IsStale /\ Goto("effects-helper-links")     \* without a gate, or graph_only
        /\ UNCHANGED <<why, snd>>
     \/ req.kind = "restore" /\ SkipRestore
  /\ UNCHANGED <<opvars, stale, rm, graph, gatevars, sinkvars, holdvars, intent, hist>>

\* The staged target and its graph are read back while the gate is closed.
StagedReadback ==
  /\ pc = "staged-graph-readback"
  /\ graph' = "confirmed" /\ Goto("before-commit-readback")
  /\ UNCHANGED <<opvars, stale, why, snd, rm, gatevars, sinkvars, holdvars, intent, hist>>

\* Mutant: the last checkpoint is left out.
BeforeCommitReadbackBlind ==
  /\ pc = "before-commit-readback"
  /\ \E step \in IF gated THEN {"source-volume-restore", "before-output-gate-restore"}
                           ELSE {"commit-readback"} : Goto(step)
  /\ UNCHANGED <<opvars, stale, why, snd, rm, graph, gatevars, sinkvars, holdvars, intent, hist>>

\* The last source checkpoint.  Without a volume to restore (graph_only, paused
\* sources) the staged readback is the commit's readback.
BeforeCommitReadback ==
  /\ pc = "before-commit-readback"
  /\ \E step \in CASE IsStale -> {"abort"}
                   [] ~IsStale /\ gated -> {"source-volume-restore", "before-output-gate-restore"}
                   [] OTHER -> {"commit-readback"} : Goto(step)
  /\ UNCHANGED <<opvars, stale, why, snd, rm, graph, gatevars, sinkvars, holdvars, intent, hist>>

\* verify_committed_transition; without a gate the transition is committed by it.
CommitReadback ==
  /\ pc = "commit-readback"
  /\ graph' = "confirmed"
  /\ IF gated THEN Goto("before-output-gate-restore") ELSE End("commit")
  /\ UNCHANGED <<opvars, stale, why, snd, rm, gatevars, sinkvars, holdvars, intent, hist>>

\* _execute_graph_commit_path up to the gate: transport back, readback, DSP, persist.
GraphCommit ==
  /\ pc = "graph-commit"
  /\ EnsureClosed /\ graph' = "confirmed" /\ Goto("before-output-gate-restore")
  /\ UNCHANGED <<opvars, stale, why, snd, rm, gatevars, dsp, holdvars, intent, hist>>

\* _restore_output_gate: confirm, settle, restore.
RestoreOutputGate ==
  /\ pc = "before-output-gate-restore"
  /\ EnsureClosed /\ why' = "commit" /\ snd' = req.audible /\ Goto("gate-check")
  /\ UNCHANGED <<opvars, stale, rm, graph, gatevars, dsp, holdvars, intent, hist>>

\* The same-graph path: checkpoint, volume, start; then checkpoint and readback.
FastStart ==
  /\ pc = "fast-start"
  /\ Goto(IF IsStale THEN "abort" ELSE "fast-readback")
  /\ UNCHANGED <<opvars, stale, why, snd, rm, graph, gatevars, sinkvars, holdvars, intent, hist>>

FastReadback ==
  /\ pc = "fast-readback"
  /\ IF IsStale THEN Goto("abort") /\ UNCHANGED graph
                ELSE End("commit") /\ graph' = "confirmed"
  /\ UNCHANGED <<opvars, stale, why, snd, rm, gatevars, sinkvars, holdvars, intent, hist>>

\* A stage raises or is cancelled.
StageFails ==
  /\ pc \in Stages
  /\ Fail
  /\ graph' \in IF pc \in {"revalidate", "snapshot"} THEN {graph} ELSE {graph, "dirty"}
  /\ UNCHANGED <<opvars, stale, why, snd, rm, gatevars, sinkvars, holdvars, intent, hist>>

\* _abort_source_changed: the target is quieted and an owned gate opened.
Abort ==
  /\ pc = "abort" /\ why' = "abort"
  /\ IF gated /\ gate.closed THEN Goto("gate-check") /\ snd' = TRUE
                            ELSE End("discard") /\ snd' = snd
  /\ UNCHANGED <<opvars, stale, rm, graph, gatevars, sinkvars, holdvars, intent, hist>>

-----------------------------------------------------------------------------
(* reconcile_measurement_session *)

\* Blocked by a closed gate or a hold; nothing to do when the links are complete.
LinksBegin ==
  /\ pc = "links"
  /\ \/ ~gate.closed /\ ~gate.latched /\ ~hold /\ Goto("output-gate-close")
     \/ End("none")
  /\ UNCHANGED <<opvars, stale, why, snd, rm, graph, gatevars, sinkvars, holdvars, intent, hist>>

\* Under the gate: complete after all, repaired and read back twice, or a failure.
LinksRepair ==
  /\ pc = "links-repair"
  /\ \/ /\ EnsureClosed /\ graph' = "confirmed" /\ snd' = TRUE
        /\ why' \in {"links", "links-noop"} /\ Goto("gate-check")
     \/ /\ Fail /\ graph' = "dirty" /\ hw' = hw /\ UNCHANGED <<why, snd>>
  /\ UNCHANGED <<opvars, stale, rm, gatevars, dsp, holdvars, intent, hist>>

\* A cancellation that no handler catches: in the repair, and in the discarding of
\* a stale transition.  The gate stays as it is.
CancelUnprotected ==
  /\ \/ pc = "abort"
     \/ pc \in {"gate-check", "gate-write", "gate-confirm", "gate-opened"} /\ why \in {"abort", "links", "links-noop"}
     \/ pc \in {"gate-mute", "gate-muted", "links-repair", "latch-mute"} /\ req.kind = "links"
  /\ End("none")
  /\ why' = IF pc = "abort" THEN "abort" ELSE why
  /\ UNCHANGED <<opvars, stale, snd, rm, graph, gatevars, sinkvars, holdvars, intent, hist>>

-----------------------------------------------------------------------------
(* _cleanup_uncommitted_transition, drained under the lock *)

\* Without a gate of its own the transition reports no latch.
GiveUp == IF gated THEN Goto("latch") ELSE End("unlatched")

\* Attenuate, pause and roll back; a tier is rolled back first.  A policy rollback
\* that fails, and a cleanup task that dies, latch at once.
Cleanup ==
  /\ pc = "cleanup"
  /\ \/ Goto(IF tier THEN "tier-rollback" ELSE "abort-hook")
     \/ GiveUp
  /\ UNCHANGED <<opvars, stale, why, snd, rm, graph, gatevars, sinkvars, holdvars, intent, hist>>

\* The old tier is back and verified: for an own source the gate can be restored, with
\* sound if the request should play (for a switch that is read again under the lock);
\* an external source goes on to the abort hook.
TierRollback ==
  /\ pc = "tier-rollback"
  /\ \/ /\ gate.closed /\ EnsureClosed /\ graph' = "confirmed"
        /\ why' = "tier" /\ Goto("gate-check")
        /\ snd' \in IF req.kind = "switch" THEN BOOLEAN ELSE {req.audible}
     \/ /\ ~gate.closed /\ End("unlatched") /\ graph' = "confirmed" /\ hw' = hw /\ UNCHANGED <<why, snd>>
     \/ /\ Goto("abort-hook") /\ hw' = hw /\ UNCHANGED <<graph, why, snd>>
     \/ /\ Goto("latch") /\ hw' = hw /\ UNCHANGED <<graph, why, snd>>
  /\ UNCHANGED <<opvars, stale, rm, gatevars, dsp, holdvars, intent, hist>>

\* abort_failed_transition names a committed source to restore, or none.
AbortHook ==
  /\ pc = "abort-hook"
  /\ \/ Goto("restore-rate") /\ snd' \in BOOLEAN
     \/ GiveUp /\ snd' = snd
  /\ UNCHANGED <<opvars, stale, why, rm, graph, gatevars, sinkvars, holdvars, intent, hist>>

\* _restore_committed_source, first half: the gate is confirmed, then rate and
\* effects of the old source.
RestoreRate ==
  /\ pc = "restore-rate"
  /\ \/ /\ IF gated THEN EnsureClosed ELSE hw' = hw
        /\ graph' = "dirty" /\ Goto("restore-readback")
     \/ GiveUp /\ UNCHANGED <<hw, graph>>
  /\ UNCHANGED <<opvars, stale, why, snd, rm, gatevars, dsp, holdvars, intent, hist>>

\* Mutant: a source that could not be restored counts as recovered.
RestoreReadbackTrusts ==
  /\ pc = "restore-readback"
  /\ IF gated THEN EnsureClosed /\ Goto("gate-check") ELSE End("unlatched") /\ hw' = hw
  /\ why' = "recovered"
  /\ UNCHANGED <<opvars, stale, snd, rm, graph, gatevars, dsp, holdvars, intent, hist>>

\* Second half: started, read back, volume confirmed; then the gate opens for it.
RestoreReadback ==
  /\ pc = "restore-readback"
  /\ \/ /\ IF gated THEN EnsureClosed /\ Goto("gate-check") ELSE End("unlatched") /\ hw' = hw
        /\ graph' = "confirmed" /\ why' = "recovered"
     \/ GiveUp /\ UNCHANGED <<hw, graph, why>>
  /\ UNCHANGED <<opvars, stale, snd, rm, gatevars, dsp, holdvars, intent, hist>>

CoordinatorNext ==
  \/ Admit \/ Revalidate \/ Snapshot
  \/ Mutate \/ BeforeTargetStart \/ StagedReadback \/ BeforeCommitReadback \/ CommitReadback
  \/ GraphCommit \/ RestoreOutputGate \/ FastStart \/ FastReadback
  \/ StageFails \/ Abort \/ LinksBegin \/ LinksRepair \/ CancelUnprotected
  \/ Cleanup \/ TierRollback \/ AbortHook \/ RestoreRate \/ RestoreReadback

-----------------------------------------------------------------------------
(* The environment *)

\* The user's mute button, while the output is the user's.
UserSetsMute ==
  /\ reconciled /\ ~gate.closed /\ spl \in {"off", "muting"}
  /\ hw' = ~hw /\ intent' = ~hw /\ lost' = FALSE
  /\ UNCHANGED <<lockvars, gatevars, dsp, holdvars, results, raced, overtaken, crashes>>

\* A mute that the gate holds, now or since before a crash, is changed from outside.
Disturb ==
  /\ "disturb" \in Allowed
  /\ gate.closed \/ (~reconciled /\ disk # "absent")
  /\ hw' = ~hw /\ raced' = (raced \/ (spl = "on" /\ hw))
  /\ UNCHANGED <<lockvars, gatevars, dsp, holdvars, results, intent, lost, overtaken, crashes>>

\* A recreated DSP sink comes back muted.
DspMuted ==
  /\ "disturb" \in Allowed /\ ~dsp /\ dsp' = TRUE
  /\ UNCHANGED <<lockvars, gatevars, hw, holdvars, results, intent, hist>>

\* The steps after the last source checkpoint.
Checkpointed == {"source-volume-restore", "commit-readback", "before-output-gate-restore",
                 "gate-check", "gate-write", "gate-confirm", "gate-opened"}

\* A source-mode or input switch commits (note_source_selection).
SourceSwitched ==
  /\ "stale" \in Allowed /\ pc # "idle" /\ req.kind \in {"play", "claim"} /\ ~stale
  /\ stale' = TRUE /\ overtaken' = (pc \notin Checkpointed)
  /\ UNCHANGED <<pc, opvars, why, snd, rm, graph, gatevars, sinkvars, holdvars, results, intent,
                 lost, raced, crashes>>

\* Between its check of the hold and the end of the restore the gate does not look again.
RestoreWindow == {"gate-write", "gate-confirm", "gate-opened", "startup-confirm"}

\* _hold_unrestored_audio mutes the output in a thread and then sets the hold; it
\* does not take the coordinator's lock.
HoldMute ==
  /\ "hold" \in Allowed /\ spl = "off" /\ ~hold
  /\ wasMuted' = hw /\ hw' = TRUE /\ spl' = "muting" /\ raced' = FALSE
  /\ UNCHANGED <<lockvars, gatevars, dsp, hold, results, intent, lost, overtaken, crashes>>

HoldSet ==
  /\ spl = "muting" /\ spl' = "on" /\ hold' = TRUE
  /\ raced' = (pc \in RestoreWindow \/ ~hw)
  /\ UNCHANGED <<lockvars, gatevars, sinkvars, wasMuted, results, intent, lost, overtaken, crashes>>

\* _restore_unrestored_audio: the mute is lifted, then the hold.
HoldLift ==
  /\ spl = "on" /\ spl' = "lifting" /\ hw' = (hw /\ wasMuted)
  /\ UNCHANGED <<lockvars, gatevars, dsp, hold, wasMuted, results, intent, hist>>

HoldClear ==
  /\ spl = "lifting" /\ spl' = "off" /\ hold' = FALSE
  /\ UNCHANGED <<lockvars, gatevars, sinkvars, wasMuted, results, intent, hist>>

\* The service dies.  The sinks, the marker and a saved hold survive; the hold is
\* saved just before it is set.
Crash ==
  /\ "crash" \in Allowed /\ crashes < MaxCrashes /\ crashes' = crashes + 1
  /\ pc' = "startup" /\ req' = BootRequest
  /\ gated' = FALSE /\ tier' = FALSE /\ stale' = FALSE
  /\ why' = "commit" /\ snd' = FALSE /\ rm' = FALSE /\ graph' = "untouched"
  /\ gate' = OpenGate /\ reconciled' = FALSE
  /\ err' = NoError /\ lastOk' = FALSE /\ commit' = 0
  /\ hold' \in {hold, hold \/ spl = "muting"} /\ spl' = IF hold' THEN "on" ELSE "off"
  /\ raced' = FALSE /\ overtaken' = FALSE
  /\ UNCHANGED <<txn, disk, sinkvars, wasMuted, intent, lost>>

Environment == UserSetsMute \/ Disturb \/ DspMuted \/ SourceSwitched
               \/ HoldMute \/ HoldSet \/ HoldLift \/ HoldClear \/ Crash

\* The lock holder's next step.
Coordinator == GateNext \/ CoordinatorNext

Next == (\E r \in Requests : Begin(r)) \/ Coordinator \/ Environment

\* Every stage awaits a bounded call, so the lock holder goes on.
Spec == Init /\ [][Next]_vars /\ WF_vars(Coordinator)

-----------------------------------------------------------------------------
(* Properties *)

\* Whenever the service does not own the mute, the output is as the user (or the
\* last audible request) asked: transitions, failures, aborts, leases and a crash at
\* any step with the startup reconciliation after it give the mute back.  One failure
\* is left out, where the code loses it: a latch over an open gate, before the mute was
\* recorded or after the gate was opened, while the user has muted (gate.py:400); the
\* mute counts as lost until the user or an audible request sets it again.  Without
\* holds.
UserMuteKept == (reconciled /\ ~gate.closed /\ ~lost) => hw = intent

\* No operation that closed the gate leaves it open over a graph it changed and did
\* not read back; a discarded stale transition leaves the graph to the newer source.
OpenIsConfirmed ==
  (pc = "idle" /\ gated /\ graph = "dirty" /\ ~gate.closed) => why \in {"abort", "skip"}

\* The coordinator unmutes the hardware only over a graph that was read back, except
\* when it discards an operation.
UnmuteConfirmed ==
  [][(pc = "gate-write" /\ pc' = "gate-confirm" /\ ~hw') =>
        graph = "confirmed" \/ why \in {"abort", "skip"}]_vars

\* A transition becomes the last successful commit only after its own readback and,
\* if it closed the gate, with the gate open again, and both sinks unmuted if it is
\* audible; and never over a source that was selected before its last checkpoint.
CommitSound ==
  [][(commit' # commit /\ commit' # 0) =>
        /\ commit' = txn /\ graph' = "confirmed" /\ ~overtaken
        /\ gated => ~gate'.closed
        /\ (gated /\ req.audible) => ~hw /\ ~dsp]_vars

\* While the SPL calibration holds the output, the hardware sink stays muted; after a
\* restart, from the startup reconciliation on.  It needs a hold that did not begin while
\* a gate was being restored and that nobody unmuted from outside.
HeldIsMuted == (spl = "on" /\ reconciled /\ ~raced) => hw

\* What coordinator.py:111 says of the hold: "While held, no transition may leave the
\* output audible".  The code does not keep it: a hold that begins between the check of
\* a restore and the end of its transition is not seen any more (gate.py:363).
NoHeldOutputAudible == [][(hold /\ gated /\ commit' = txn /\ commit # txn) => hw']_vars

\* A failed transition that runs its cleanup under a gate reports failure_latched as
\* the gate has it.
GatedReport == (pc = "idle" /\ err # NoError /\ err.tid = txn /\ gated /\ ~tier)
                 => err.latched = gate.latched

\* The lock is released: every operation, its failures and its cleanup end.
Released == pc # "idle" ~> pc = "idle"

\* What an operation leaves behind is true: an open gate has its graph confirmed, and
\* a failure reports the latch it left.
GateHonest == OpenIsConfirmed /\ GatedReport

\* What a step makes audible or commits has been confirmed.
StepsSound == UnmuteConfirmed /\ CommitSound
-----------------------------------------------------------------------------
(* The inductive invariant behind UserMuteKept *)

\* An environment without holds, full disks and markers that cannot be removed.
Ordinary == Allowed \subseteq {"crash", "disturb", "stale"}

\* Where the user's mute is kept unless it is lost: in the marker, which a closed gate
\* always has, or without a marker in the sink itself.
MuteInv ==
  /\ gate.closed => disk = gate.orig
  /\ ~gate.closed => gate.orig = "none"
  /\ (reconciled /\ ~gate.closed) => disk = "absent"
  /\ IF lost THEN intent ELSE IF disk = "absent" THEN hw = intent ELSE Muted(disk) = intent
  /\ ~hold /\ spl = "off"

\* Which operation is at which step, and with a gate of its own or not.
OwnerInv ==
  /\ req.kind = "links" => req.audible
  /\ req.kind \in {"switch", "restore", "links"} => gated
  /\ pc \in Stages => req.kind \in Transitions
  /\ pc \in {"lease", "lease-edit"} => req.kind = "lease"
  /\ pc \in {"links", "links-repair"} => req.kind = "links"
  /\ pc \in {"output-gate-close", "gate-mute", "gate-muted"} => req.kind # "boot"
  /\ tier => gated
  /\ (tier /\ pc \in Unread \cup {"admit", "snapshot", "lease"}) => req.kind = "switch"
  /\ pc \in {"target-rate", "staged-graph-readback", "source-volume-restore", "graph-commit",
             "before-output-gate-restore", "tier-rollback", "gate-opened"} => gated
  /\ pc \in {"revalidate", "snapshot", "output-gate-close", "lease", "links"} => reconciled

\* What a restore is about to write, and for whom.
RestoreInv ==
  /\ pc \in {"gate-mute", "gate-muted", "gate-check", "gate-write", "gate-confirm", "lease-edit",
             "lease-rollback", "links-repair", "latch-mute", "startup-confirm",
             "startup-latch"} => gate.closed
  /\ pc = "startup-confirm" => rm = Muted(gate.orig)
  /\ pc \in {"gate-write", "gate-confirm"} => rm = (~snd /\ Muted(gate.orig))
  /\ (pc \in {"gate-check", "gate-write", "gate-confirm"} /\ snd)
       => AsksSound /\ gated /\ why # "lease"
  /\ pc = "gate-opened" => why # "lease"

MuteIInv == TypeOK /\ MuteInv /\ OwnerInv /\ RestoreInv
=============================================================================
