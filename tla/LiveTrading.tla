----------------------------- MODULE LiveTrading -----------------------------
(***************************************************************************)
(* The owner's authorisation of live trading (LiveTradingController and    *)
(* its service): armed and enabled by hand, paused by the owner or by a    *)
(* failed check, resumed by the desk itself when the checks pass again.    *)
(*                                                                         *)
(* The controller's transitions hold its lock; what decides them does not: *)
(* probes are read before, the check that allows a resume releases the     *)
(* lock before the transition, and persisting is a snapshot and a save,    *)
(* DurableRecord's Put, with nothing held in between.                      *)
(*                                                                         *)
(* recovered_from_enabled implies paused_for_safety in every state and is  *)
(* only ever read in a disjunction with it: safety stands for both.  No    *)
(* operation of the service reaches KILLED: a kill is emergency_disable.   *)
(***************************************************************************)
EXTENDS Naturals

CONSTANTS
    Api,            \* threads that serve the owner
    Cycle,          \* threads that evaluate auto trading: runtime, status API
    OldRows,        \* rows an earlier process may have left
    MaxOps,         \* bound on operations of the owner and orders
    MaxTurns,       \* bound on changes of what the probes see
    MaxRestarts     \* bound on restarts

ASSUME ThreadAssumption == Api \cap Cycle = {}
ASSUME BoundAssumption ==
    MaxOps \in Nat /\ MaxTurns \in Nat /\ MaxRestarts \in Nat

Thread == Api \cup Cycle
State == {"DISABLED", "READY_FOR_REVIEW", "ARMED", "ENABLED", "PAUSED"}
Row == [state : State, latched : BOOLEAN]

ASSUME RowAssumption == OldRows \subseteq Row

\* What a probe finds: not fit for trading; fit, but something blocks a resume
\* (daily stop, unknown position, unapproved login); nothing in the way.
Env == {"down", "blocked", "clear"}

VARIABLES
    state,          \* LiveTradingController.state
    safety,         \* paused_for_safety
    ownerPaused,    \* owner_paused
    latched,        \* emergency_latched
    env,            \* what a probe would find
    row,            \* live_trading_state and the latch in the operator state
    at,             \* where a thread is
    snap,           \* the payload a thread is saving
    facts,          \* a cycle's facts: the gateway and broker are connected
    ops, turns, restarts,
    hold,           \* history: what the owner did last to stop live trading
    acted,          \* history: the owner has acted since a cycle's last check
    late,           \* history: a resume has overtaken the owner since
    killed,         \* history: an emergency stop has returned, no arming since
    loose           \* history: the row may say something else

ctrl == <<state, safety, ownerPaused, latched>>
bounds == <<ops, turns, restarts>>
history == <<hold, acted, late, killed>>
vars == <<ctrl, env, row, at, snap, facts, bounds, history, loose>>

At == {"idle", "review", "arm", "enable", "stop", "snap", "save",
       "probe", "recheck", "resume", "snapResume", "saveResume", "guard"}
Hold == {"none", "paused", "disabled", "killed"}

TypeOK ==
    /\ state \in State
    /\ safety \in BOOLEAN /\ ownerPaused \in BOOLEAN /\ latched \in BOOLEAN
    /\ env \in Env
    /\ row \in Row
    /\ at \in [Thread -> At] /\ snap \in [Thread -> Row]
    /\ facts \in [Cycle -> BOOLEAN]
    /\ ops \in 0..MaxOps /\ turns \in 0..MaxTurns /\ restarts \in 0..MaxRestarts
    /\ hold \in Hold /\ acted \in [Cycle -> BOOLEAN]
    /\ late \in BOOLEAN /\ killed \in BOOLEAN /\ loose \in BOOLEAN

Store == INSTANCE DurableRecord
    WITH Key <- {"state", "latched"}, Version <- State \cup BOOLEAN,
         rec <- row, trusted <- TRUE

\* ALLOWED_TRANSITIONS, without KILLED.
Allowed(s) ==
    CASE s = "DISABLED"         -> {"READY_FOR_REVIEW", "ARMED"}
      [] s = "READY_FOR_REVIEW" -> {"ARMED", "DISABLED"}
      [] s = "ARMED"            -> {"ENABLED", "DISABLED"}
      [] s = "ENABLED"          -> {"PAUSED", "DISABLED"}
      [] s = "PAUSED"           -> {"ENABLED", "DISABLED"}

\* Mutant: a pause for safety is saved as a pause.
DurableAsItStands == state

\* durable_authorization_state: a pause for safety leaves the owner's ENABLE valid.
Durable == IF state = "PAUSED" /\ ~ownerPaused /\ safety THEN "ENABLED" ELSE state

-----------------------------------------------------------------------------
(* Restart: recover_after_restart and hydrate.                             *)

Recover(s) ==
    CASE s = "ENABLED" -> "PAUSED"
      [] s = "PAUSED" -> "PAUSED"
      [] OTHER -> "DISABLED"

\* The controller hydrated from row r.
Hydrated(r) ==
    [state |-> Recover(r.state),
     safety |-> r.state = "ENABLED",
     ownerPaused |-> r.state = "PAUSED",
     latched |-> r.latched /\ Recover(r.state) = "DISABLED"]

\* It is saved at once, but for an authorisation that waits to be resumed.
HydratedRow(r) ==
    IF r.state = "ENABLED" THEN r
    ELSE [state |-> Recover(r.state), latched |-> Hydrated(r).latched]

HoldOf(r) ==
    CASE r.state = "ENABLED" -> "none"
      [] r.state = "PAUSED" -> "paused"
      [] OTHER -> "disabled"

NoRow == [state |-> "DISABLED", latched |-> FALSE]

Init ==
    \E r \in OldRows :
      /\ LET h == Hydrated(r)
         IN  /\ state = h.state /\ safety = h.safety
             /\ ownerPaused = h.ownerPaused /\ latched = h.latched
      /\ row = HydratedRow(r)
      /\ env \in Env
      /\ at = [t \in Thread |-> "idle"]
      /\ snap = [t \in Thread |-> NoRow]
      /\ facts = [c \in Cycle |-> FALSE]
      /\ ops = 0 /\ turns = 0 /\ restarts = 0
      /\ hold = HoldOf(r) /\ acted = [c \in Cycle |-> FALSE]
      /\ late = FALSE /\ killed = FALSE /\ loose = FALSE

\* Nobody is between a transition and its save, and the last payload saved is
\* the last one read.
Settled ==
    /\ \A t \in Thread :
          at[t] \notin {"arm", "stop", "snap", "save", "snapResume", "saveResume"}
    /\ ~loose

\* The process dies and is started again.
Restart ==
    /\ restarts < MaxRestarts
    /\ restarts' = restarts + 1
    /\ LET h == Hydrated(row)
       IN  /\ state' = h.state /\ safety' = h.safety
           /\ ownerPaused' = h.ownerPaused /\ latched' = h.latched
    /\ row' = HydratedRow(row)
    /\ at' = [t \in Thread |-> "idle"]
    /\ snap' = [t \in Thread |-> NoRow]
    /\ facts' = [c \in Cycle |-> FALSE]
    /\ hold' = IF Settled THEN hold ELSE HoldOf(row)
    /\ acted' = [c \in Cycle |-> FALSE]
    /\ loose' = FALSE
    /\ UNCHANGED <<env, ops, turns, late, killed>>

\* Gateway, broker, account, positions or the daily stop change.
Turn ==
    /\ turns < MaxTurns
    /\ turns' = turns + 1
    /\ env' \in Env \ {env}
    /\ UNCHANGED <<ctrl, row, at, snap, facts, ops, restarts, history, loose>>

-----------------------------------------------------------------------------
(* The controller, under its lock.                                         *)

Goto(t, l) == at' = [at EXCEPT ![t] = l]

\* transition to w, which Allowed(state) permits.  Only the owner pauses so.
Move(w) ==
    /\ state' = w
    /\ latched' = (latched /\ w = "PAUSED")
    /\ safety' = (safety /\ w \in {"READY_FOR_REVIEW", "ARMED"})
    /\ ownerPaused' = CASE w = "PAUSED" -> TRUE
                        [] w \in {"ENABLED", "DISABLED"} -> FALSE
                        [] OTHER -> ownerPaused

\* safety_pause; the caller found ENABLED.
SafetyPause ==
    /\ state' = "PAUSED"
    /\ safety' = TRUE
    /\ UNCHANGED <<ownerPaused, latched>>

\* Mutant: the state of its own that a kill would have.
EmergencyDisableKilled ==
    /\ state' = "KILLED"
    /\ latched' = TRUE
    /\ safety' = FALSE
    /\ UNCHANGED ownerPaused

\* emergency_disable; owner_paused is left as it is.
EmergencyDisable ==
    /\ state' = "DISABLED"
    /\ latched' = TRUE
    /\ safety' = FALSE
    /\ UNCHANGED ownerPaused

\* What the owner has done takes effect.
NoteHold(h) ==
    /\ hold' = h
    /\ late' = FALSE
    /\ acted' = [c \in Cycle |-> TRUE]

-----------------------------------------------------------------------------
(* persist_live_trading.                                                   *)

\* persist_payload, under the lock, ...
Snapshot(t) ==
    /\ at[t] \in {"snap", "snapResume"}
    /\ snap' = [snap EXCEPT ![t] = [state |-> Durable, latched |-> latched]]
    /\ loose' = (\E u \in Thread \ {t} : at[u] \in {"save", "saveResume"})
    /\ Goto(t, IF at[t] = "snap" THEN "save" ELSE "saveResume")
    /\ UNCHANGED <<ctrl, env, row, facts, bounds, history>>

\* Mutant: the save does not happen.
SaveNot(t) ==
    /\ at[t] \in {"save", "saveResume"}
    /\ snap' = [snap EXCEPT ![t] = NoRow]
    /\ Goto(t, IF at[t] = "save" THEN "idle" ELSE "guard")
    /\ UNCHANGED <<ctrl, env, row, facts, bounds, history, loose>>

\* ... and save_ops_state, after it is released.
Save(t) ==
    /\ at[t] \in {"save", "saveResume"}
    /\ Store!Put(snap[t])
    /\ snap' = [snap EXCEPT ![t] = NoRow]
    /\ killed' = (killed \/ (t \in Api /\ hold = "killed"))
    /\ Goto(t, IF at[t] = "save" THEN "idle" ELSE "guard")
    /\ UNCHANGED <<ctrl, env, facts, bounds, hold, acted, late, loose>>

-----------------------------------------------------------------------------
(* The owner's operations.                                                 *)

Take(a) == at[a] = "idle" /\ ops < MaxOps /\ ops' = ops + 1

\* arm_live_trading: the probe first.
BeginArm(a) ==
    /\ Take(a)
    /\ env # "down"
    /\ Goto(a, "review")
    /\ UNCHANGED <<ctrl, env, row, snap, facts, turns, restarts, history, loose>>

Review(a) ==
    /\ at[a] = "review"
    /\ IF state = "DISABLED"
       THEN Move("READY_FOR_REVIEW") /\ killed' = FALSE
       ELSE UNCHANGED <<ctrl, killed>>
    /\ Goto(a, "arm")
    /\ UNCHANGED <<env, row, snap, facts, bounds, hold, acted, late, loose>>

\* An illegal transition raises and leaves the rest undone.
Arm(a) ==
    /\ at[a] = "arm"
    /\ IF "ARMED" \in Allowed(state)
       THEN Move("ARMED") /\ killed' = FALSE /\ Goto(a, "snap")
       ELSE UNCHANGED <<ctrl, killed>> /\ Goto(a, "idle")
    /\ UNCHANGED <<env, row, snap, facts, bounds, hold, acted, late, loose>>

\* enable_live_trading: state and probe are checked before the transition.
BeginEnable(a) ==
    /\ Take(a)
    /\ state \in {"ARMED", "PAUSED"}
    /\ env # "down"
    /\ Goto(a, "enable")
    /\ UNCHANGED <<ctrl, env, row, snap, facts, turns, restarts, history, loose>>

\* Between transition and save it also sets the plane's run state, which is no
\* state of the controller: ControlPlane's EnableLive and StartWithLive.
Enable(a) ==
    /\ at[a] = "enable"
    /\ IF "ENABLED" \in Allowed(state)
       THEN Move("ENABLED") /\ NoteHold("none") /\ Goto(a, "snap")
       ELSE UNCHANGED <<ctrl, hold, acted, late>> /\ Goto(a, "idle")
    /\ UNCHANGED <<env, row, snap, facts, bounds, killed, loose>>

\* pause_live_trading: refused while a pause for safety lasts.
Pause(a) ==
    /\ Take(a)
    /\ state = "ENABLED"
    /\ Move("PAUSED")
    /\ NoteHold("paused")
    /\ Goto(a, "snap")
    /\ UNCHANGED <<env, row, snap, facts, turns, restarts, killed, loose>>

Disable(a) ==
    /\ Take(a)
    /\ state # "DISABLED"
    /\ Move("DISABLED")
    /\ NoteHold("disabled")
    /\ Goto(a, "snap")
    /\ UNCHANGED <<env, row, snap, facts, turns, restarts, killed, loose>>

\* kill_live_trading: the controller, ...
Kill(a) ==
    /\ Take(a)
    /\ EmergencyDisable
    /\ NoteHold("killed")
    /\ Goto(a, "stop")
    /\ UNCHANGED <<env, row, snap, facts, turns, restarts, killed, loose>>

\* ... the plane's emergency_stop, which disables it again if it was armed
\* since, and only then the save.
StopPlane(a) ==
    /\ at[a] = "stop"
    /\ IF latched
       THEN UNCHANGED <<ctrl, hold, acted, late>>
       ELSE EmergencyDisable /\ NoteHold("killed")
    /\ Goto(a, "snap")
    /\ UNCHANGED <<env, row, snap, facts, bounds, killed, loose>>

\* The operations API's emergency stop: the same, and nothing is saved.
EmergencyStop(a) ==
    /\ Take(a)
    /\ IF latched
       THEN UNCHANGED <<ctrl, hold, acted, late, loose>>
       ELSE EmergencyDisable /\ NoteHold("killed") /\ loose' = TRUE
    /\ killed' = TRUE
    /\ UNCHANGED <<env, row, at, snap, facts, turns, restarts>>

\* evaluate_live_order_request refuses an order; some refusals pause the desk.
RefuseOrder(a) ==
    /\ Take(a)
    /\ \/ UNCHANGED ctrl
       \/ state = "ENABLED" /\ SafetyPause
    /\ Goto(a, "snap")
    /\ UNCHANGED <<env, row, snap, facts, turns, restarts, history, loose>>

-----------------------------------------------------------------------------
(* evaluate_auto_trading: resume, then pause.                              *)

\* Mutant: whose pause it is is not asked.
MayResumeAny == state = "PAUSED"

MayResume == state = "PAUSED" /\ ~ownerPaused /\ safety

\* The cycle has its facts; resume_live_trading_after_safe_recovery begins.
Check(c) ==
    /\ at[c] = "idle"
    /\ facts' = [facts EXCEPT ![c] = env # "down"]
    /\ Goto(c, IF MayResume THEN "probe" ELSE "guard")
    /\ UNCHANGED <<ctrl, env, row, snap, bounds, history, loose>>

\* A probe of its own, and autonomous_resume_blockers.
Probe(c) ==
    /\ at[c] = "probe"
    /\ Goto(c, IF env = "clear" THEN "recheck" ELSE "guard")
    /\ UNCHANGED <<ctrl, env, row, snap, facts, bounds, history, loose>>

\* resume_after_safe_recovery checks under the lock and releases it ...
Recheck(c) ==
    /\ at[c] = "recheck"
    /\ acted' = [acted EXCEPT ![c] = FALSE]
    /\ Goto(c, IF MayResume THEN "resume" ELSE "snapResume")
    /\ UNCHANGED <<ctrl, env, row, snap, facts, bounds, hold, late, killed, loose>>

\* ... before the transition, which is legal from ARMED too.  Then the plane's
\* run state is set: ControlPlane's RecoverLive and StartWithLive.
Resume(c) ==
    /\ at[c] = "resume"
    /\ IF "ENABLED" \in Allowed(state)
       THEN /\ Move("ENABLED")
            /\ late' = (late \/ (hold # "none" /\ acted[c]))
            /\ Goto(c, "snapResume")
       ELSE UNCHANGED <<ctrl, late>> /\ Goto(c, "guard")
    /\ UNCHANGED <<env, row, snap, facts, bounds, hold, acted, killed, loose>>

\* apply_fail_closed_from_probes on the facts the cycle came with.
Guard(c) ==
    /\ at[c] = "guard"
    /\ IF state = "ENABLED" /\ ~facts[c]
       THEN SafetyPause /\ Goto(c, "snap")
       ELSE UNCHANGED ctrl /\ Goto(c, "idle")
    /\ UNCHANGED <<env, row, snap, facts, bounds, history, loose>>

-----------------------------------------------------------------------------

Persist(t) == Snapshot(t) \/ Save(t)
OwnerStep(a) ==
    \/ BeginArm(a) \/ Review(a) \/ Arm(a) \/ BeginEnable(a) \/ Enable(a)
    \/ Pause(a) \/ Disable(a) \/ Kill(a) \/ StopPlane(a)
    \/ EmergencyStop(a) \/ RefuseOrder(a)
CycleStep(c) ==
    Check(c) \/ Probe(c) \/ Recheck(c) \/ Resume(c) \/ Guard(c) \/ Persist(c)

Next ==
    \/ \E a \in Api : OwnerStep(a) \/ Persist(a)
    \/ \E c \in Cycle : CycleStep(c)
    \/ Turn
    \/ Restart

\* The evaluation is called again and again; a request may stop anywhere.
Fairness == \A c \in Cycle : WF_vars(CycleStep(c))

Spec == Init /\ [][Next]_vars /\ Fairness

-----------------------------------------------------------------------------

\* Live trading that the owner has paused, disabled or killed is not enabled
\* again but by the owner: not by a recovery, a cycle or a restart once the
\* stop is saved.  Only a resume whose last check came before the stop and its
\* transition after it gets past.
OwnerStopHolds == state = "ENABLED" => hold = "none" \/ late

\* Once nobody is saving, the row restores the authorisation as it stands,
\* unless two saves overlapped or the operations API's emergency stop, which
\* saves nothing, came last.
RowRestoresAuthorisation ==
    Settled => Hydrated(row) = Hydrated([state |-> Durable, latched |-> latched])

\* The desk does not stay in a pause the owner did not ask for: if the checks
\* pass for good, it leaves it again and again.  A pause for safety that a save
\* and a restart have made the owner's is such a pause too, and nothing the
\* desk does would end it.
SafetyPauseEnds ==
    <>[](env = "clear") =>
        []<>~(state = "PAUSED" /\ (hold # "paused" \/ ~ownerPaused))

\* "Never resumes an operator-initiated PAUSE."
OwnerPauseHolds == hold = "paused" => state # "ENABLED"

\* "Emergency KILLED recovers as DISABLED and requires re-arm."
KilledNeedsRearm == killed => state # "ENABLED"
=============================================================================
