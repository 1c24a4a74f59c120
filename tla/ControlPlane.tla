----------------------------- MODULE ControlPlane -----------------------------
(***************************************************************************)
(* The operations control plane and the durable halt behind it: operators  *)
(* halt, resume, change mode and roll back, enable live trading; the       *)
(* runtime's cycle resumes the robot and asks whether orders may go out.   *)
(*                                                                         *)
(* One fact is kept in three places: the halt mode of the Phase A plane,   *)
(* the legacy flag kill_switch_armed, and the saved row.  Every operation  *)
(* writes them one after the other, under different locks or under none,   *)
(* so each write is a step of its own here.  Mode and run state have a     *)
(* copy in the row too.  A save is atomic (OpsState shows when it is): it  *)
(* is the Put of DurableRecord.  "running" is an enabled robot; paused,    *)
(* stopped and off are all resumed alike, and are one state.  Of the       *)
(* authorisation of live trading, which is LiveTrading's, only what starts *)
(* the robot is kept.                                                      *)
(***************************************************************************)
EXTENDS Naturals, FiniteSets

CONSTANTS
    Op,             \* threads of the API that serve operators
    Cycle,          \* the runtime's cycle thread
    OldRows,        \* rows an earlier process may have left
    OldLive,        \* what its own row may make of live trading at a boot
    MaxOps,         \* bound on operations, and on failed checks
    MaxSwings,      \* bound on changes of the daily loss verdict
    MaxRestarts     \* bound on restarts

ASSUME ThreadAssumption == Cycle \notin Op
ASSUME BoundAssumption ==
    MaxOps \in Nat /\ MaxSwings \in Nat /\ MaxRestarts \in Nat

Thread == Op \cup {Cycle}
HaltMode == {"ACTIVE", "HALT_NEW_ENTRIES", "HALT_ALL_TRADING"}
Mode == {"SHADOW", "CANARY", "LIVE"}
Run == {"running", "stopped"}

\* Live trading: enabled; in a pause for safety or after a restart, which
\* recovers by itself; or waiting for its owner: disabled, armed or paused.
Live == {"on", "waiting", "off"}

\* Rows of earlier versions: no halt at all, only the flag, a leaked pause.
Row == [halt : HaltMode \cup {"none", "legacy", "stale"},
        mode : Mode \cup {"none"}, run : Run]

\* An authorisation that was enabled waits after a boot.
ASSUME RowAssumption == OldRows \subseteq Row /\ OldLive \subseteq {"off", "waiting"}

VARIABLES
    halt,           \* DurableHaltController.mode
    flag,           \* kill_switch_armed
    mode,           \* OpsExecutionMode
    run,            \* auto_trading_run_state
    locked,         \* daily_loss_exceeded
    configs,        \* the modes of the promoted configurations
    live,           \* LiveTradingController.state
    row,            \* what the operator state holds
    at,             \* where a thread is
    op,             \* the operation it is in
    to,             \* the halt mode or mode it sets
    held,           \* what it has read and not yet written
    yes,            \* the cycle's last answer from oms_orders_allowed
    ops, swings, restarts,
    crossed,        \* history: two halt operations have overlapped
    standing,       \* history: a halt was returned, and no lift has begun since
    under,          \* history: it has stood since the cycle's question
    modeLoose,      \* history: row and mode may differ
    runLoose,       \* history: row and run state may differ
    stop,           \* history: the last emergency or abnormal stop, while it stands
    overtaken       \* history: what may start the robot in spite of it

plane == <<halt, flag, mode, run, locked, configs, live>>
locals == <<at, op, to, held>>
bounds == <<ops, swings, restarts>>
haltHist == <<crossed, standing, under>>
runHist == <<runLoose, stop, overtaken>>
vars == <<plane, row, locals, yes, bounds, haltHist, modeLoose, runHist>>

HaltSteps == {"halt", "snap", "save", "read", "sync"}
At == HaltSteps \cup {"idle", "stop", "disable", "savemode", "readrun", "resume",
                      "saverun", "daily", "ask", "liveon", "liverun", "askflag"}
OpName == {"none", "arm", "set", "emergency", "abnormal", "mode", "run", "resume"}

TypeOK ==
    /\ halt \in HaltMode /\ flag \in BOOLEAN /\ mode \in Mode /\ run \in Run
    /\ locked \in BOOLEAN /\ configs \subseteq Mode /\ live \in Live
    /\ row \in Row
    /\ at \in [Thread -> At] /\ op \in [Thread -> OpName]
    /\ to \in [Thread -> HaltMode \cup Mode \cup {"none"}]
    /\ held \in [Thread -> HaltMode \cup Run \cup {"none", "armed", "clear"}]
    /\ yes \in BOOLEAN
    /\ ops \in 0..MaxOps /\ swings \in 0..MaxSwings /\ restarts \in 0..MaxRestarts
    /\ \A b \in {crossed, standing, under, modeLoose, runLoose, overtaken} :
          b \in BOOLEAN
    /\ stop \in {"none", "memory", "saved", "emergency"}

\* The promise of the operator state: a save merges its patch.
Store == INSTANCE DurableRecord
    WITH Key <- {"halt", "mode", "run"},
         Version <- HaltMode \cup Mode \cup Run \cup {"none", "legacy", "stale"},
         rec <- row, trusted <- TRUE

-----------------------------------------------------------------------------
(* Boot: get_control_plane builds the plane and restores it from the row.  *)

\* DurableHaltController.hydrate.
HaltOf(r) ==
    CASE r.halt = "legacy" -> "HALT_ALL_TRADING"
      [] r.halt \in {"none", "stale"} -> "ACTIVE"
      [] OTHER -> r.halt

\* Mutant: what the row holds is taken as it is.
ModeOfRaw(r) == r.mode

\* A mode that is none of the three is passed over.
ModeOf(r) == IF r.mode = "none" THEN "SHADOW" ELSE r.mode

\* Mutant: the kill switch does not hold the robot back.
LaunchLocksPassUnarmed(m, armed, lost) == m \in {"LIVE", "CANARY"} /\ ~lost

\* launch_locks_pass, with execution enabled and no override of the risk lock.
\* It asks for the legacy flag, not for the halt mode.
LaunchLocksPass(m, armed, lost) == m \in {"LIVE", "CANARY"} /\ ~armed /\ ~lost

RunOf(r) ==
    IF LaunchLocksPass(ModeOf(r), HaltOf(r) = "HALT_ALL_TRADING", FALSE)
    THEN "running" ELSE r.run

\* The plane after a boot from row r.  The daily lock and the promoted
\* configurations are not saved; the baseline is recorded before the restore.
BootPlane(r) ==
    [halt |-> HaltOf(r), flag |-> HaltOf(r) = "HALT_ALL_TRADING",
     mode |-> ModeOf(r), run |-> RunOf(r), locked |-> FALSE, configs |-> {"SHADOW"}]

\* The row after it: a leaked pause is cleared, a resumed run state is saved.
BootRow(r) ==
    [r EXCEPT !.halt = IF @ = "stale" THEN "ACTIVE" ELSE @, !.run = RunOf(r)]

Idle(v) == [t \in Thread |-> v]

Init ==
    \E r \in OldRows :
      /\ LET p == BootPlane(r)
         IN  /\ halt = p.halt /\ flag = p.flag /\ mode = p.mode /\ run = p.run
             /\ locked = p.locked /\ configs = p.configs
      /\ live \in OldLive
      /\ row = BootRow(r)
      /\ at = Idle("idle") /\ op = Idle("none") /\ to = Idle("none")
      /\ held = Idle("none")
      /\ yes = FALSE
      /\ ops = 0 /\ swings = 0 /\ restarts = 0
      /\ crossed = FALSE /\ standing = FALSE /\ under = FALSE
      /\ modeLoose = FALSE /\ runLoose = FALSE
      /\ stop = "none" /\ overtaken = FALSE

\* The process dies in the middle of anything and is started again.
Restart ==
    /\ restarts < MaxRestarts
    /\ restarts' = restarts + 1
    /\ LET p == BootPlane(row)
       IN  /\ halt' = p.halt /\ flag' = p.flag /\ mode' = p.mode /\ run' = p.run
           /\ locked' = p.locked /\ configs' = p.configs
    /\ live' \in OldLive
    /\ row' = BootRow(row)
    /\ at' = Idle("idle") /\ op' = Idle("none") /\ to' = Idle("none")
    /\ held' = Idle("none")
    /\ yes' = FALSE
    /\ crossed' = FALSE /\ under' = FALSE
    /\ modeLoose' = FALSE /\ runLoose' = FALSE
    /\ stop' = IF stop = "saved" THEN "saved" ELSE "none"
    /\ UNCHANGED <<ops, swings, standing, overtaken>>

-----------------------------------------------------------------------------
(* Steps shared by the operations.                                         *)

Goto(t, l) == at' = [at EXCEPT ![t] = l]
Hold(t, v) == held' = [held EXCEPT ![t] = v]

HaltBusy(t) == at[t] \in HaltSteps
\* It has written the run state and not saved it.
RunBusy(t) ==
    at[t] \in {"readrun", "saverun"} \/ (op[t] = "abnormal" /\ HaltBusy(t))

\* Thread t is done with its operation.
Done(t) ==
    /\ Goto(t, IF t = Cycle THEN "daily" ELSE "idle")
    /\ op' = [op EXCEPT ![t] = "none"]
    /\ to' = [to EXCEPT ![t] = "none"]
    /\ Hold(t, "none")

\* A free operator thread takes up operation o with target v.
Take(t, o, v) ==
    /\ at[t] = "idle" /\ t \in Op
    /\ ops < MaxOps
    /\ ops' = ops + 1
    /\ op' = [op EXCEPT ![t] = o]
    /\ to' = [to EXCEPT ![t] = v]

\* A halt operation that begins alone makes the earlier overlaps irrelevant.
NoteHalt(t, m) ==
    /\ crossed' = (\E u \in Thread \ {t} : HaltBusy(u))
    /\ standing' = (standing /\ m # "ACTIVE" /\ ~crossed')
    /\ under' = (under /\ standing')

NoteRun(t) == runLoose' = (\E u \in Thread \ {t} : RunBusy(u))

\* Thread t has passed the checks of a resume and not yet written.
Resuming(t) == at[t] \in {"resume", "liveon", "liverun"}

-----------------------------------------------------------------------------
(* Halt operations.                                                        *)

\* arm_kill_switch, disarm_kill_switch, emergency_stop: first the flag.
BeginFlag(t) ==
    \E o \in {"arm", "emergency"}, m \in {"HALT_ALL_TRADING", "ACTIVE"} :
      /\ o = "emergency" => m = "HALT_ALL_TRADING"
      /\ Take(t, o, m)
      /\ flag' = (m = "HALT_ALL_TRADING")
      /\ stop' = IF m = "ACTIVE" THEN "none" ELSE stop
      /\ NoteHalt(t, m)
      /\ Goto(t, "halt")
      /\ UNCHANGED <<halt, mode, run, locked, configs, live, row, held, yes,
                     swings, restarts, modeLoose, runLoose, overtaken>>

\* halt_on_abnormal_execution: flag and run state in one step.
BeginAbnormal(t) ==
    /\ Take(t, "abnormal", "HALT_ALL_TRADING")
    /\ flag' = TRUE
    /\ run' = "stopped"
    /\ stop' = "memory"
    /\ overtaken' = (\E u \in Thread \ {t} : Resuming(u))
    /\ NoteHalt(t, "HALT_ALL_TRADING")
    /\ NoteRun(t)
    /\ Goto(t, "halt")
    /\ UNCHANGED <<halt, mode, locked, configs, live, row, held, yes, swings,
                   restarts, modeLoose>>

\* set_halt_mode, KillSwitch.arm, KillSwitch.disarm: the halt mode alone.
BeginSet(t) ==
    \E m \in HaltMode :
      /\ Take(t, "set", m)
      /\ NoteHalt(t, m)
      /\ Goto(t, "halt")
      /\ UNCHANGED <<plane, row, held, yes, swings, restarts, modeLoose, runHist>>

\* DurableHaltController.set_mode.
SetHalt(t) ==
    /\ at[t] = "halt"
    /\ halt' = to[t]
    /\ stop' = IF to[t] # "HALT_ALL_TRADING" THEN "none" ELSE stop
    /\ Goto(t, "snap")
    /\ UNCHANGED <<flag, mode, run, locked, configs, live, row, op, to, held, yes,
                   bounds, haltHist, modeLoose, runLoose, overtaken>>

\* persist: to_persist ...
Snapshot(t) ==
    /\ at[t] = "snap"
    /\ Hold(t, halt)
    /\ Goto(t, "save")
    /\ UNCHANGED <<plane, row, op, to, yes, bounds, haltHist, modeLoose, runHist>>

\* Mutant: the halt is not saved.
SaveHaltNot(t) ==
    /\ at[t] = "save"
    /\ Goto(t, "read")
    /\ UNCHANGED <<plane, row, op, to, held, yes, bounds, haltHist, modeLoose,
                   runHist>>

\* ... and save_ops_state, with no lock around the two.
SaveHalt(t) ==
    /\ at[t] = "save"
    /\ Store!Put([k \in {"halt"} |-> held[t]])
    /\ Goto(t, "read")
    /\ UNCHANGED <<plane, op, to, held, yes, bounds, haltHist, modeLoose,
                   runHist>>

\* sync_legacy_kill_flag: whether to arm is read outside the plane's lock.
ReadHalt(t) ==
    /\ at[t] = "read"
    /\ Hold(t, IF halt = "HALT_ALL_TRADING" THEN "armed" ELSE "clear")
    /\ Goto(t, "sync")
    /\ UNCHANGED <<plane, row, op, to, yes, bounds, haltHist, modeLoose, runHist>>

\* Mutant: the flag is only ever raised.
SyncFlagRaise(t) ==
    /\ at[t] = "sync"
    /\ flag' = (flag \/ held[t] = "armed")
    /\ standing' = (standing \/ (to[t] # "ACTIVE" /\ ~crossed))
    /\ CASE op[t] = "emergency" -> Goto(t, "stop") /\ UNCHANGED <<op, to, held>>
         [] op[t] = "abnormal" ->
              Goto(t, "saverun") /\ Hold(t, "stopped") /\ UNCHANGED <<op, to>>
         [] OTHER -> Done(t)
    /\ UNCHANGED <<halt, mode, run, locked, configs, live, row, yes, bounds,
                   crossed, under, modeLoose, runHist>>

SyncFlag(t) ==
    /\ at[t] = "sync"
    /\ flag' = (held[t] = "armed")
    /\ stop' = IF held[t] = "armed" THEN stop ELSE "none"
    /\ standing' = (standing \/ (to[t] # "ACTIVE" /\ ~crossed))
    /\ CASE op[t] = "emergency" -> Goto(t, "stop") /\ UNCHANGED <<op, to, held>>
         [] op[t] = "abnormal" ->
              Goto(t, "saverun") /\ Hold(t, "stopped") /\ UNCHANGED <<op, to>>
         [] OTHER -> Done(t)
    /\ UNCHANGED <<halt, mode, run, locked, configs, live, row, yes, bounds,
                   crossed, under, modeLoose, runLoose, overtaken>>

\* emergency_stop: the robot is stopped then, and that is not saved, ...
EmergencyStop(t) ==
    /\ at[t] = "stop"
    /\ run' = "stopped"
    /\ runLoose' = TRUE
    /\ Goto(t, "disable")
    /\ UNCHANGED <<halt, flag, mode, locked, configs, live, row, op, to, held,
                   yes, bounds, haltHist, modeLoose, stop, overtaken>>

\* ... and live trading disabled last; with it the stop is complete.
DisableLive(t) ==
    /\ at[t] = "disable"
    /\ live' = "off"
    /\ stop' = IF flag THEN "emergency" ELSE "none"
    /\ overtaken' = (run = "running" \/ \E u \in Thread : Resuming(u))
    /\ Done(t)
    /\ UNCHANGED <<halt, flag, mode, run, locked, configs, row, yes, bounds,
                   haltHist, modeLoose, runLoose>>

-----------------------------------------------------------------------------
(* Mode and configuration.                                                 *)

\* ALLOWED_MODE_TRANSITIONS.
Allowed(m) ==
    CASE m = "SHADOW" -> {"CANARY"}
      [] m = "CANARY" -> {"LIVE"}
      [] m = "LIVE" -> {"SHADOW"}

\* transition_mode up to the save.  A refused transition changes nothing.
TransitionMode(t) ==
    \E m \in Allowed(mode) :
      /\ Take(t, "mode", m)
      /\ mode' = m
      /\ modeLoose' = (\E u \in Thread \ {t} : at[u] = "savemode")
      /\ Goto(t, "savemode")
      /\ UNCHANGED <<halt, flag, run, locked, configs, live, row, held, yes,
                     swings, restarts, haltHist, runHist>>

SaveMode(t) ==
    /\ at[t] = "savemode"
    /\ Store!Put([k \in {"mode"} |-> to[t]])
    /\ Done(t)
    /\ UNCHANGED <<plane, yes, bounds, haltHist, modeLoose, runHist>>

\* promote_config records the mode of the moment; nothing is saved.
PromoteConfig(t) ==
    /\ t \in Op /\ at[t] = "idle"
    /\ ops < MaxOps /\ ops' = ops + 1
    /\ configs' = configs \cup {mode}
    /\ UNCHANGED <<halt, flag, mode, run, locked, live, row, locals, yes, swings,
                   restarts, haltHist, modeLoose, runHist>>

\* rollback restores the mode of a record, past the table, and saves nothing.
Rollback(t) ==
    /\ t \in Op /\ at[t] = "idle"
    /\ ops < MaxOps /\ ops' = ops + 1
    /\ mode' \in configs
    /\ modeLoose' = TRUE
    /\ UNCHANGED <<halt, flag, run, locked, configs, live, row, locals, yes,
                   swings, restarts, haltHist, runHist>>

-----------------------------------------------------------------------------
(* The run state.                                                          *)

\* update_auto_trade_controls and set_owned_account_run_state: the run state
\* under the lock, ...
BeginRun(t) ==
    \E r \in Run :
      /\ Take(t, "run", "none")
      /\ run' = r
      /\ stop' = "none"
      /\ NoteRun(t)
      /\ Goto(t, "readrun")
      /\ UNCHANGED <<halt, flag, mode, locked, configs, live, row, held, yes,
                     swings, restarts, haltHist, modeLoose, overtaken>>

\* ... the patch from what the plane holds by then, ...
ReadRun(t) ==
    /\ at[t] = "readrun"
    /\ Hold(t, run)
    /\ Goto(t, "saverun")
    /\ UNCHANGED <<plane, row, op, to, yes, bounds, haltHist, modeLoose, runHist>>

\* ... and the save.  An emergency stop and the start that comes with live
\* trading write the run state and do without it.
SaveRun(t) ==
    /\ at[t] = "saverun"
    /\ Store!Put([k \in {"run"} |-> held[t]])
    /\ stop' = IF /\ op[t] = "abnormal" /\ stop = "memory"
                  /\ ~runLoose /\ ~crossed /\ HaltOf(row) = "HALT_ALL_TRADING"
               THEN "saved" ELSE stop
    /\ Done(t)
    /\ UNCHANGED <<plane, yes, bounds, haltHist, modeLoose, runLoose, overtaken>>

\* Mutant: the robot is resumed at boot and on request only.
CheckLocksOnce(t) ==
    /\ at[t] = "idle"
    /\ IF t # Cycle /\ LaunchLocksPass(mode, flag, locked) /\ run # "running"
       THEN Goto(t, "resume")
       ELSE t = Cycle /\ Goto(t, "daily")
    /\ IF t = Cycle THEN UNCHANGED ops ELSE ops < MaxOps /\ ops' = ops + 1
    /\ UNCHANGED <<plane, row, op, to, held, yes, swings, restarts, haltHist,
                   modeLoose, runHist>>

\* ensure_auto_trading_running: the locks are checked without the plane's lock.
\* The cycle does so at its start, the API for every reader of the status.
CheckLocks(t) ==
    /\ at[t] = "idle"
    /\ IF LaunchLocksPass(mode, flag, locked) /\ run # "running"
       THEN Goto(t, "resume")
       ELSE t = Cycle /\ Goto(t, "daily")
    /\ IF t = Cycle THEN UNCHANGED ops ELSE ops < MaxOps /\ ops' = ops + 1
    /\ UNCHANGED <<plane, row, op, to, held, yes, swings, restarts, haltHist,
                   modeLoose, runHist>>

Resume(t) ==
    /\ at[t] = "resume"
    /\ run' = "running"
    /\ op' = [op EXCEPT ![t] = "resume"]
    /\ Hold(t, "running")
    /\ NoteRun(t)
    /\ Goto(t, "saverun")
    /\ UNCHANGED <<halt, flag, mode, locked, configs, live, row, to, yes, bounds,
                   haltHist, modeLoose, stop, overtaken>>

-----------------------------------------------------------------------------
(* Live trading, and the start of the robot that comes with it.            *)

\* A check has failed: a pause for safety.
PauseLive ==
    /\ live = "on" /\ live' = "waiting"
    /\ ops < MaxOps /\ ops' = ops + 1
    /\ UNCHANGED <<halt, flag, mode, run, locked, configs, row, locals, yes,
                   swings, restarts, haltHist, modeLoose, runHist>>

\* pause_live_trading, disable_live_trading, kill_live_trading up to the stop.
LeaveLive(t) ==
    /\ t \in Op /\ at[t] = "idle"
    /\ ops < MaxOps /\ ops' = ops + 1
    /\ live # "off" /\ live' = "off"
    /\ UNCHANGED <<halt, flag, mode, run, locked, configs, row, locals, yes,
                   swings, restarts, haltHist, modeLoose, runHist>>

\* enable_live_trading, armed before if need be: the owner's transition.
EnableLive(t) ==
    /\ t \in Op /\ at[t] = "idle"
    /\ ops < MaxOps /\ ops' = ops + 1
    /\ live # "on" /\ live' = "on"
    /\ overtaken' = (overtaken \/ stop # "none")
    /\ Goto(t, "liverun")
    /\ UNCHANGED <<halt, flag, mode, run, locked, configs, row, op, to, held, yes,
                   swings, restarts, haltHist, modeLoose, runLoose, stop>>

\* resume_live_trading_after_safe_recovery, in every evaluation of the cycle,
\* which makes several, or of the API: it may find nothing in the way ...
CheckLive(t) ==
    /\ live = "waiting"
    /\ \/ t = Cycle /\ at[t] = "ask" /\ UNCHANGED ops
       \/ t \in Op /\ at[t] = "idle" /\ ops < MaxOps /\ ops' = ops + 1
    /\ Goto(t, "liveon")
    /\ UNCHANGED <<plane, row, op, to, held, yes, swings, restarts, haltHist,
                   modeLoose, runHist>>

AfterLive(t) == Goto(t, IF t = Cycle THEN "ask" ELSE "idle")

\* ... and makes the transition later: legal from a pause, or if the owner has
\* armed it meanwhile.
RecoverLive(t) ==
    /\ at[t] = "liveon"
    /\ \/ live # "on" /\ live' = "on" /\ Goto(t, "liverun")
       \/ live # "waiting" /\ UNCHANGED live /\ AfterLive(t)
    /\ UNCHANGED <<halt, flag, mode, run, locked, configs, row, op, to, held, yes,
                   bounds, haltHist, modeLoose, runHist>>

\* Both start the robot, whatever flag and locks say, and do not save it.
\* An abnormal execution leaves live trading as it is, which may then do so.
StartWithLive(t) ==
    /\ at[t] = "liverun"
    /\ run' = "running"
    /\ runLoose' = (runLoose \/ run # "running")
    /\ overtaken' = (overtaken \/ stop \in {"memory", "saved"})
    /\ AfterLive(t)
    /\ UNCHANGED <<halt, flag, mode, locked, configs, live, row, op, to, held,
                   yes, bounds, haltHist, modeLoose, stop>>

-----------------------------------------------------------------------------
(* The rest of a cycle.                                                    *)

\* apply_utc_daily_loss_lock on today's figures; a release resumes at once.
DailyLoss(c) ==
    /\ at[c] = "daily"
    /\ \/ UNCHANGED <<locked, swings>> /\ Goto(c, "ask")
       \/ /\ swings < MaxSwings /\ swings' = swings + 1
          /\ locked' = ~locked
          /\ Goto(c, IF locked THEN "idle" ELSE "ask")
    /\ UNCHANGED <<halt, flag, mode, run, configs, live, row, op, to, held, yes,
                   ops, restarts, haltHist, modeLoose, runHist>>

\* Mutant: the halt mode is not asked for, as before there was one.
AskHaltNot(c) ==
    /\ at[c] = "ask"
    /\ under' = standing
    /\ yes' = FALSE
    /\ Goto(c, "askflag")
    /\ UNCHANGED <<plane, row, op, to, held, bounds, crossed, standing, modeLoose,
                   runHist>>

\* oms_orders_allowed: the halt mode without a lock ...
AskHalt(c) ==
    /\ at[c] = "ask"
    /\ under' = standing
    /\ yes' = FALSE
    /\ Goto(c, IF halt = "ACTIVE" THEN "askflag" ELSE "idle")
    /\ UNCHANGED <<plane, row, op, to, held, bounds, crossed, standing, modeLoose,
                   runHist>>

\* ... then flag and mode under the plane's.
AskFlag(c) ==
    /\ at[c] = "askflag"
    /\ yes' = (~flag /\ mode # "SHADOW")
    /\ Goto(c, "idle")
    /\ UNCHANGED <<plane, row, op, to, held, bounds, haltHist, modeLoose,
                   runHist>>

-----------------------------------------------------------------------------

HaltStep(t) ==
    SetHalt(t) \/ Snapshot(t) \/ SaveHalt(t) \/ ReadHalt(t) \/ SyncFlag(t)
Begin(t) ==
    \/ BeginFlag(t) \/ BeginAbnormal(t) \/ BeginSet(t) \/ BeginRun(t)
    \/ TransitionMode(t) \/ PromoteConfig(t) \/ Rollback(t)
    \/ EnableLive(t) \/ LeaveLive(t)
Serve(t) ==
    HaltStep(t) \/ EmergencyStop(t) \/ DisableLive(t) \/ SaveMode(t) \/ ReadRun(t)
LiveStep(t) == CheckLive(t) \/ RecoverLive(t) \/ StartWithLive(t)
RunStep(t) == CheckLocks(t) \/ Resume(t) \/ SaveRun(t) \/ LiveStep(t)
CycleStep(c) == DailyLoss(c) \/ AskHalt(c) \/ AskFlag(c)

Next ==
    \/ \E t \in Op : Begin(t) \/ Serve(t)
    \/ \E t \in Thread : RunStep(t)
    \/ CycleStep(Cycle)
    \/ PauseLive
    \/ Restart

\* The runtime's loop is the only thread that must go on.
Fairness == WF_vars(RunStep(Cycle) \/ CycleStep(Cycle))

Spec == Init /\ [][Next]_vars /\ Fairness

-----------------------------------------------------------------------------

\* Halt mode and legacy flag say the same once the halt operations are over,
\* whichever they were and whoever else ran, unless two of them overlapped.
FlagFollowsHalt ==
    (\A t \in Thread : ~HaltBusy(t)) /\ ~crossed => (flag <=> halt = "HALT_ALL_TRADING")

\* When no operation is under way the row would restore the plane as it is:
\* halt, mode and run state.  Excused are operations that overlapped another
\* of their kind; a rollback until the next transition; and, until the next
\* write of the run state, the two that change it and save nothing, an
\* emergency stop and a start that came with live trading.
RowRestoresPlane ==
    /\ (\A t \in Thread : ~HaltBusy(t)) /\ ~crossed => HaltOf(row) = halt
    /\ (\A t \in Thread : at[t] # "savemode") /\ ~modeLoose => ModeOf(row) = mode
    /\ (\A t \in Thread : ~RunBusy(t)) /\ ~runLoose => row.run = run

\* A halt that has been returned to its operator refuses every order asked for
\* until somebody begins to lift it, whatever other operations, mode changes,
\* resumes or restarts come in between: the cycle's answer to a question put
\* under a standing halt is no.
ReturnedHaltRefusesOrders == under => ~yes

\* A robot stopped by an emergency stop or an abnormal execution stays stopped
\* while the kill flag stands, over a restart too once an abnormal stop is
\* saved.  Three things get past it: who had passed the checks of a resume and
\* not yet written when the stop was complete; the owner, who enables live
\* trading again; and, after an abnormal execution, which does not disable live
\* trading, its recovery from a pause.
StoppedRobotStays == stop # "none" /\ run = "running" => overtaken

\* The desk does not stay idle: once the launch locks pass for good, the robot
\* ends up running for good.
IdleDeskResumes ==
    <>[]LaunchLocksPass(mode, flag, locked) => <>[](run = "running")

\* "kill_switch_armed and phase_a.halt stay aligned": no operation under way,
\* no disagreement.
KillFlagAligned ==
    (\A t \in Thread : ~HaltBusy(t)) => (flag <=> halt = "HALT_ALL_TRADING")

\* "Restores official workflow state across process restarts": the mode.
ModeRestored == (\A t \in Thread : at[t] # "savemode") => ModeOf(row) = mode
=============================================================================
