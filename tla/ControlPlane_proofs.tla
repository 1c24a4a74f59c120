-------------------------- MODULE ControlPlane_proofs --------------------------
(* What ControlPlane guarantees for any operators, old rows and bounds.      *)
EXTENDS ControlPlane, TLAPS

-----------------------------------------------------------------------------
(* Types.                                                                    *)

ToSet == HaltMode \cup Mode \cup {"none"}
HeldSet == HaltMode \cup Run \cup {"none", "armed", "clear"}

Plane ==
    /\ halt \in HaltMode /\ flag \in BOOLEAN /\ mode \in Mode /\ run \in Run
    /\ locked \in BOOLEAN /\ configs \subseteq Mode /\ live \in Live

Places ==
    /\ at \in [Thread -> At] /\ op \in [Thread -> OpName]
    /\ to \in [Thread -> ToSet] /\ held \in [Thread -> HeldSet]

Limits ==
    /\ ops \in 0..MaxOps /\ swings \in 0..MaxSwings /\ restarts \in 0..MaxRestarts
    /\ stop \in {"none", "memory", "saved", "emergency"}

Notes ==
    /\ yes \in BOOLEAN /\ crossed \in BOOLEAN /\ standing \in BOOLEAN /\ under \in BOOLEAN
    /\ modeLoose \in BOOLEAN /\ runLoose \in BOOLEAN /\ overtaken \in BOOLEAN

(* What a thread carries fits what it is about to write.                     *)
Fits ==
    \A t \in Thread :
        /\ HaltBusy(t) => to[t] \in HaltMode
        /\ HaltBusy(t) /\ op[t] \in {"abnormal", "emergency"} => to[t] = "HALT_ALL_TRADING"
        /\ at[t] = "save" => held[t] \in HaltMode
        /\ at[t] = "savemode" => to[t] \in Mode
        /\ at[t] = "saverun" => held[t] \in Run

Typed == Plane /\ row \in Row /\ Places /\ Limits /\ Notes /\ Fits

LEMMA TypedIsTypeOK == Typed => TypeOK
<1> SUFFICES ASSUME Typed PROVE TypeOK
  OBVIOUS
<1>1. \A b \in {crossed, standing, under, modeLoose, runLoose, overtaken} : b \in BOOLEAN
  BY Zenon DEF Typed, Notes
<1>2. yes \in BOOLEAN
  BY Zenon DEF Typed, Notes
<1> QED
  BY <1>1, <1>2, Zenon DEF Typed, Plane, Places, Limits, TypeOK, ToSet, HeldSet

(* One step of a thread.                                                     *)
Step(t) == Begin(t) \/ Serve(t) \/ RunStep(t) \/ (t = Cycle /\ CycleStep(t))

LEMMA NextIsStep == Next => (\E t \in Thread : Step(t)) \/ PauseLive \/ Restart
BY DEF Next, Step, Thread

(* A step of one thread moves no other.                                      *)
LEMMA Others ==
    ASSUME Places, NEW t \in Thread, Step(t), NEW u \in Thread, u # t
    PROVE  at'[u] = at[u] /\ op'[u] = op[u] /\ to'[u] = to[u] /\ held'[u] = held[u]
<1>1. CASE Begin(t)
  BY <1>1 DEF Begin, BeginFlag, BeginAbnormal, BeginSet, BeginRun, TransitionMode,
       PromoteConfig, Rollback, EnableLive, LeaveLive, Take, Goto, Places, locals
<1>2. CASE Serve(t)
  BY <1>2 DEF Serve, HaltStep, SetHalt, Snapshot, SaveHalt, ReadHalt, SyncFlag,
       EmergencyStop, DisableLive, SaveMode, ReadRun, Goto, Hold, Done, Places, locals
<1>3. CASE RunStep(t)
  BY <1>3 DEF RunStep, CheckLocks, LiveStep, CheckLive, RecoverLive, StartWithLive,
       AfterLive, Resume, SaveRun, Goto, Hold, Done, Places
<1>4. CASE CycleStep(t)
  BY <1>4 DEF CycleStep, DailyLoss, AskHalt, AskFlag, Goto, Places
<1> QED
  BY <1>1, <1>2, <1>3, <1>4 DEF Step

LEMMA AtTyped == ASSUME Typed, NEW t \in Thread, Step(t) PROVE at' \in [Thread -> At]
<1>0. at \in [Thread -> At]
  BY DEF Typed, Places
<1>1. \E l \in At \cup {at[t]} : at' = [at EXCEPT ![t] = l]
  <2>1. CASE Begin(t)
    BY <1>0, <2>1
       DEF Begin, BeginFlag, BeginAbnormal, BeginSet, BeginRun, TransitionMode,
            PromoteConfig, Rollback, EnableLive, LeaveLive, Goto, At, HaltSteps, locals
  <2>2. CASE Serve(t)
    BY <1>0, <2>2
       DEF Serve, HaltStep, SetHalt, Snapshot, SaveHalt, ReadHalt, SyncFlag, EmergencyStop,
            DisableLive, SaveMode, ReadRun, Goto, Done, At, HaltSteps
  <2>3. CASE RunStep(t)
    BY <1>0, <2>3 DEF RunStep, CheckLocks, LiveStep, CheckLive, RecoverLive, StartWithLive,
         AfterLive, Resume, SaveRun, Goto, Done, At, HaltSteps
  <2>4. CASE CycleStep(t)
    BY <1>0, <2>4 DEF CycleStep, DailyLoss, AskHalt, AskFlag, Goto, At, HaltSteps
  <2> QED
    BY <2>1, <2>2, <2>3, <2>4 DEF Step
<1> QED
  BY <1>0, <1>1

LEMMA OpTyped == ASSUME Typed, NEW t \in Thread, Step(t) PROVE op' \in [Thread -> OpName]
<1>0. op \in [Thread -> OpName]
  BY DEF Typed, Places
<1>1. \E o \in OpName \cup {op[t]} : op' = [op EXCEPT ![t] = o]
  <2>1. CASE Begin(t)
    BY <1>0, <2>1
       DEF Begin, BeginFlag, BeginAbnormal, BeginSet, BeginRun, TransitionMode,
            PromoteConfig, Rollback, EnableLive, LeaveLive, Take, OpName, locals
  <2>2. CASE Serve(t)
    BY <1>0, <2>2
       DEF Serve, HaltStep, SetHalt, Snapshot, SaveHalt, ReadHalt, SyncFlag, EmergencyStop,
            DisableLive, SaveMode, ReadRun, Done, OpName
  <2>3. CASE RunStep(t)
    BY <1>0, <2>3 DEF RunStep, CheckLocks, LiveStep, CheckLive, RecoverLive, StartWithLive,
         AfterLive, Resume, SaveRun, Done, OpName
  <2>4. CASE CycleStep(t)
    BY <1>0, <2>4 DEF CycleStep, DailyLoss, AskHalt, AskFlag
  <2> QED
    BY <2>1, <2>2, <2>3, <2>4 DEF Step
<1> QED
  BY <1>0, <1>1

LEMMA ToTyped == ASSUME Typed, NEW t \in Thread, Step(t) PROVE to' \in [Thread -> ToSet]
<1>0. to \in [Thread -> ToSet]
  BY DEF Typed, Places
<1>1. \E v \in ToSet \cup {to[t]} : to' = [to EXCEPT ![t] = v]
  <2>1. CASE Begin(t)
    BY <1>0, <2>1
       DEF Begin, BeginFlag, BeginAbnormal, BeginSet, BeginRun, TransitionMode, Allowed,
            PromoteConfig, Rollback, EnableLive, LeaveLive, Take, ToSet, HaltMode, Mode,
            locals, Typed, Plane
  <2>2. CASE Serve(t)
    BY <1>0, <2>2
       DEF Serve, HaltStep, SetHalt, Snapshot, SaveHalt, ReadHalt, SyncFlag, EmergencyStop,
            DisableLive, SaveMode, ReadRun, Done, ToSet
  <2>3. CASE RunStep(t)
    BY <1>0, <2>3 DEF RunStep, CheckLocks, LiveStep, CheckLive, RecoverLive, StartWithLive,
         AfterLive, Resume, SaveRun, Done, ToSet
  <2>4. CASE CycleStep(t)
    BY <1>0, <2>4 DEF CycleStep, DailyLoss, AskHalt, AskFlag
  <2> QED
    BY <2>1, <2>2, <2>3, <2>4 DEF Step
<1> QED
  BY <1>0, <1>1

LEMMA HeldTyped == ASSUME Typed, NEW t \in Thread, Step(t) PROVE held' \in [Thread -> HeldSet]
<1>0. held \in [Thread -> HeldSet] /\ halt \in HaltMode /\ run \in Run
  BY DEF Typed, Places, Plane
<1>1. \E v \in HeldSet \cup {held[t]} : held' = [held EXCEPT ![t] = v]
  <2>1. CASE Begin(t)
    BY <1>0, <2>1
       DEF Begin, BeginFlag, BeginAbnormal, BeginSet, BeginRun, TransitionMode,
            PromoteConfig, Rollback, EnableLive, LeaveLive, locals
  <2>2. CASE Serve(t)
    BY <1>0, <2>2
       DEF Serve, HaltStep, SetHalt, Snapshot, SaveHalt, ReadHalt, SyncFlag, Hold, Run,
            EmergencyStop, DisableLive, SaveMode, ReadRun, Done, HeldSet
  <2>3. CASE RunStep(t)
    BY <1>0, <2>3 DEF RunStep, CheckLocks, LiveStep, CheckLive, RecoverLive, StartWithLive,
         AfterLive, Resume, SaveRun, Hold, Done, HeldSet, Run
  <2>4. CASE CycleStep(t)
    BY <1>0, <2>4 DEF CycleStep, DailyLoss, AskHalt, AskFlag
  <2> QED
    BY <2>1, <2>2, <2>3, <2>4 DEF Step
<1> QED
  BY <1>0, <1>1

LEMMA FitsStep == ASSUME Typed, NEW t \in Thread, Step(t) PROVE Fits'
<1>0. Places /\ Fits /\ halt \in HaltMode /\ run \in Run
  BY DEF Typed, Plane
<1>1. ASSUME NEW u \in Thread, u # t
      PROVE  /\ HaltBusy(u)' => to'[u] \in HaltMode
             /\ HaltBusy(u)' /\ op'[u] \in {"abnormal", "emergency"} =>
                    to'[u] = "HALT_ALL_TRADING"
             /\ at'[u] = "save" => held'[u] \in HaltMode
             /\ at'[u] = "savemode" => to'[u] \in Mode
             /\ at'[u] = "saverun" => held'[u] \in Run
  BY <1>0, <1>1, Others DEF Fits, HaltBusy
<1>2. /\ HaltBusy(t)' => to'[t] \in HaltMode
      /\ HaltBusy(t)' /\ op'[t] \in {"abnormal", "emergency"} => to'[t] = "HALT_ALL_TRADING"
      /\ at'[t] = "save" => held'[t] \in HaltMode
      /\ at'[t] = "savemode" => to'[t] \in Mode
      /\ at'[t] = "saverun" => held'[t] \in Run
  <2>1. CASE BeginFlag(t) \/ BeginAbnormal(t) \/ BeginSet(t)
    <3>1. at'[t] = "halt" /\ to'[t] \in HaltMode
      BY <1>0, <2>1 DEF BeginFlag, BeginAbnormal, BeginSet, Take, Goto, Places, HaltMode
    <3>2. op'[t] \in {"abnormal", "emergency"} => to'[t] = "HALT_ALL_TRADING"
      BY <1>0, <2>1 DEF BeginFlag, BeginAbnormal, BeginSet, Take, Places
    <3> QED
      BY <3>1, <3>2
  <2>2. CASE BeginRun(t) \/ PromoteConfig(t) \/ Rollback(t) \/ EnableLive(t) \/ LeaveLive(t)
    BY <1>0, <2>2 DEF BeginRun, PromoteConfig, Rollback, EnableLive, LeaveLive, Goto,
         Places, locals, Take, HaltBusy, HaltSteps
  <2>3. CASE TransitionMode(t)
    BY <1>0, <2>3 DEF TransitionMode, Allowed, Take, Goto, Places, HaltBusy, HaltSteps,
         Mode, Typed, Plane
  <2>4. CASE SetHalt(t) \/ Snapshot(t) \/ SaveHalt(t) \/ ReadHalt(t)
    <3>1. /\ HaltBusy(t) /\ HaltBusy(t)' /\ to'[t] = to[t] /\ op'[t] = op[t]
          /\ at'[t] = "save" => held'[t] = halt
      BY <1>0, <2>4 DEF SetHalt, Snapshot, SaveHalt, ReadHalt, Goto, Hold, Places, HaltBusy,
           HaltSteps
    <3>2. at'[t] \notin {"savemode", "saverun"}
      BY <3>1 DEF HaltBusy, HaltSteps
    <3> QED
      BY <1>0, <3>1, <3>2 DEF Fits
  <2>5. CASE SyncFlag(t) \/ EmergencyStop(t) \/ DisableLive(t) \/ SaveMode(t) \/ ReadRun(t)
    <3>1. at'[t] \in {"idle", "daily", "stop", "disable", "saverun"}
      BY <1>0, <2>5 DEF SyncFlag, EmergencyStop, DisableLive, SaveMode, ReadRun, Goto, Done,
           Places
    <3>2. at'[t] = "saverun" => held'[t] \in Run
      BY <1>0, <2>5 DEF SyncFlag, EmergencyStop, DisableLive, SaveMode, ReadRun, Goto, Hold,
           Done, Places, Run
    <3> QED
      BY <3>1, <3>2 DEF HaltBusy, HaltSteps
  <2>6. CASE RunStep(t)
    <3>1. at'[t] \in {"idle", "daily", "resume", "saverun", "ask", "liveon", "liverun"}
      BY <1>0, <2>6 DEF RunStep, CheckLocks, LiveStep, CheckLive, RecoverLive,
           StartWithLive, AfterLive, Resume, SaveRun, Goto, Done, Places
    <3>2. at'[t] = "saverun" => held'[t] \in Run
      BY <1>0, <2>6 DEF RunStep, CheckLocks, LiveStep, CheckLive, RecoverLive,
           StartWithLive, AfterLive, Resume, SaveRun, Goto, Hold, Done, Places, Run
    <3> QED
      BY <3>1, <3>2 DEF HaltBusy, HaltSteps
  <2>7. CASE CycleStep(t)
    <3>1. at'[t] \in {"idle", "ask", "askflag"}
      BY <1>0, <2>7 DEF CycleStep, DailyLoss, AskHalt, AskFlag, Goto, Places
    <3> QED
      BY <3>1 DEF HaltBusy, HaltSteps
  <2> QED
    BY <2>1, <2>2, <2>3, <2>4, <2>5, <2>6, <2>7 DEF Step, Begin, Serve, HaltStep
<1> QED
  BY <1>1, <1>2 DEF Fits

LEMMA PlaneStep == ASSUME Typed, NEW t \in Thread, Step(t) PROVE Plane'
<1>0. Plane /\ Fits
  BY DEF Typed
<1>1. halt' \in HaltMode
  <2>1. halt' = halt \/ (SetHalt(t) /\ halt' = to[t])
    BY DEF Step, Begin, BeginFlag, BeginAbnormal, BeginSet, BeginRun, TransitionMode,
         PromoteConfig, Rollback, EnableLive, LeaveLive, Serve, HaltStep, SetHalt, Snapshot,
         SaveHalt, ReadHalt, SyncFlag, EmergencyStop, DisableLive, SaveMode, ReadRun,
         RunStep, CheckLocks, LiveStep, CheckLive, RecoverLive, StartWithLive, AfterLive,
         Resume, SaveRun, CycleStep, DailyLoss, AskHalt, AskFlag, plane
  <2>2. SetHalt(t) => to[t] \in HaltMode
    BY <1>0 DEF SetHalt, Fits, HaltBusy, HaltSteps
  <2> QED
    BY <1>0, <2>1, <2>2 DEF Plane
<1>2. flag' \in BOOLEAN
  <2>1. \/ flag' = flag \/ flag' = TRUE
        \/ \E m \in HaltMode : flag' = (m = "HALT_ALL_TRADING")
        \/ flag' = (held[t] = "armed")
    BY DEF Step, Begin, BeginFlag, BeginAbnormal, BeginSet, BeginRun, TransitionMode,
         PromoteConfig, Rollback, EnableLive, LeaveLive, Serve, HaltStep, SetHalt, Snapshot,
         SaveHalt, ReadHalt, SyncFlag, EmergencyStop, DisableLive, SaveMode, ReadRun,
         RunStep, CheckLocks, LiveStep, CheckLive, RecoverLive, StartWithLive, AfterLive,
         Resume, SaveRun, CycleStep, DailyLoss, AskHalt, AskFlag, plane, HaltMode
  <2> QED
    BY <1>0, <2>1, Zenon DEF Plane
<1>3. mode' \in Mode
  <2>1. mode' = mode \/ mode' \in configs \/ mode' \in Allowed(mode)
    BY DEF Step, Begin, BeginFlag, BeginAbnormal, BeginSet, BeginRun, TransitionMode,
         PromoteConfig, Rollback, EnableLive, LeaveLive, Serve, HaltStep, SetHalt, Snapshot,
         SaveHalt, ReadHalt, SyncFlag, EmergencyStop, DisableLive, SaveMode, ReadRun,
         RunStep, CheckLocks, LiveStep, CheckLive, RecoverLive, StartWithLive, AfterLive,
         Resume, SaveRun, CycleStep, DailyLoss, AskHalt, AskFlag, plane
  <2> QED
    BY <1>0, <2>1 DEF Plane, Allowed, Mode
<1>4. run' \in Run
  BY <1>0 DEF Step, Begin, BeginFlag, BeginAbnormal, BeginSet, BeginRun, TransitionMode,
       PromoteConfig, Rollback, EnableLive, LeaveLive, Serve, HaltStep, SetHalt, Snapshot,
       SaveHalt, ReadHalt, SyncFlag, EmergencyStop, DisableLive, SaveMode, ReadRun, RunStep,
       CheckLocks, LiveStep, CheckLive, RecoverLive, StartWithLive, AfterLive, Resume,
       SaveRun, CycleStep, DailyLoss, AskHalt, AskFlag, plane, Plane, Run
<1>5. configs' \subseteq Mode
  <2>1. configs' = configs \/ configs' = configs \cup {mode}
    BY DEF Step, Begin, BeginFlag, BeginAbnormal, BeginSet, BeginRun, TransitionMode,
         PromoteConfig, Rollback, EnableLive, LeaveLive, Serve, HaltStep, SetHalt, Snapshot,
         SaveHalt, ReadHalt, SyncFlag, EmergencyStop, DisableLive, SaveMode, ReadRun,
         RunStep, CheckLocks, LiveStep, CheckLive, RecoverLive, StartWithLive, AfterLive,
         Resume, SaveRun, CycleStep, DailyLoss, AskHalt, AskFlag, plane
  <2> QED
    BY <1>0, <2>1 DEF Plane
<1>6. locked' \in BOOLEAN
  <2>1. locked' = locked \/ locked' = ~locked
    BY DEF Step, Begin, BeginFlag, BeginAbnormal, BeginSet, BeginRun, TransitionMode,
         PromoteConfig, Rollback, EnableLive, LeaveLive, Serve, HaltStep, SetHalt, Snapshot,
         SaveHalt, ReadHalt, SyncFlag, EmergencyStop, DisableLive, SaveMode, ReadRun,
         RunStep, CheckLocks, LiveStep, CheckLive, RecoverLive, StartWithLive, AfterLive,
         Resume, SaveRun, CycleStep, DailyLoss, AskHalt, AskFlag, plane
  <2> QED
    BY <1>0, <2>1, Zenon DEF Plane
<1>7. live' \in Live
  <2>1. live' = live \/ live' \in {"on", "off"}
    BY DEF Step, Begin, BeginFlag, BeginAbnormal, BeginSet, BeginRun, TransitionMode,
         PromoteConfig, Rollback, EnableLive, LeaveLive, Serve, HaltStep, SetHalt,
         Snapshot, SaveHalt, ReadHalt, SyncFlag, EmergencyStop, DisableLive, SaveMode,
         ReadRun, RunStep, CheckLocks, LiveStep, CheckLive, RecoverLive, StartWithLive,
         Resume, SaveRun, CycleStep, DailyLoss, AskHalt, AskFlag, plane
  <2> QED
    BY <1>0, <2>1 DEF Plane, Live
<1> QED
  BY <1>1, <1>2, <1>3, <1>4, <1>5, <1>6, <1>7, Zenon DEF Plane

LEMMA LimitsStep == ASSUME Typed, NEW t \in Thread, Step(t) PROVE Limits'
<1>0. Limits
  BY DEF Typed
<1>1. /\ ops' = ops \/ (ops < MaxOps /\ ops' = ops + 1)
      /\ swings' = swings \/ (swings < MaxSwings /\ swings' = swings + 1)
      /\ restarts' = restarts
  BY DEF Step, Begin, BeginFlag, BeginAbnormal, BeginSet, BeginRun, TransitionMode,
       PromoteConfig, Rollback, EnableLive, LeaveLive, Serve, HaltStep, SetHalt, Snapshot,
       SaveHalt, ReadHalt, SyncFlag, EmergencyStop, DisableLive, SaveMode, ReadRun, RunStep,
       CheckLocks, LiveStep, CheckLive, RecoverLive, StartWithLive, AfterLive, Resume,
       SaveRun, CycleStep, DailyLoss, AskHalt, AskFlag, Take, bounds
<1>2. stop' \in {stop, "none", "memory", "saved", "emergency"}
  BY DEF Step, Begin, BeginFlag, BeginAbnormal, BeginSet, BeginRun, TransitionMode,
       PromoteConfig, Rollback, EnableLive, LeaveLive, Serve, HaltStep, SetHalt, Snapshot,
       SaveHalt, ReadHalt, SyncFlag, EmergencyStop, DisableLive, SaveMode, ReadRun, RunStep,
       CheckLocks, LiveStep, CheckLive, RecoverLive, StartWithLive, AfterLive, Resume,
       SaveRun, CycleStep, DailyLoss, AskHalt, AskFlag, runHist
<1> QED
  BY <1>0, <1>1, <1>2, BoundAssumption DEF Limits

(* A save of one field leaves the other two alone.                           *)
LEMMA PutHalt ==
    ASSUME row \in Row, NEW v, Store!Put([k \in {"halt"} |-> v])
    PROVE  row' = [halt |-> v, mode |-> row.mode, run |-> row.run]
<1>1. row' = [k \in {"halt", "mode", "run"} |->
                 IF k \in {"halt"} THEN [j \in {"halt"} |-> v][k] ELSE row[k]]
  BY DEF Store!Put
<1> QED
  BY <1>1 DEF Row

LEMMA PutMode ==
    ASSUME row \in Row, NEW v, Store!Put([k \in {"mode"} |-> v])
    PROVE  row' = [halt |-> row.halt, mode |-> v, run |-> row.run]
<1>1. row' = [k \in {"halt", "mode", "run"} |->
                 IF k \in {"mode"} THEN [j \in {"mode"} |-> v][k] ELSE row[k]]
  BY DEF Store!Put
<1> QED
  BY <1>1 DEF Row

LEMMA PutRun ==
    ASSUME row \in Row, NEW v, Store!Put([k \in {"run"} |-> v])
    PROVE  row' = [halt |-> row.halt, mode |-> row.mode, run |-> v]
<1>1. row' = [k \in {"halt", "mode", "run"} |->
                 IF k \in {"run"} THEN [j \in {"run"} |-> v][k] ELSE row[k]]
  BY DEF Store!Put
<1> QED
  BY <1>1 DEF Row

(* The row changes in the three saves alone.                                 *)
LEMMA RowMoves ==
    ASSUME Typed, NEW t \in Thread, Step(t)
    PROVE  /\ \/ row' = row
              \/ /\ SaveHalt(t)
                 /\ row' = [halt |-> held[t], mode |-> row.mode, run |-> row.run]
              \/ /\ SaveMode(t)
                 /\ row' = [halt |-> row.halt, mode |-> to[t], run |-> row.run]
              \/ /\ SaveRun(t)
                 /\ row' = [halt |-> row.halt, mode |-> row.mode, run |-> held[t]]
           /\ row' \in Row
<1>0. row \in Row /\ Fits
  BY DEF Typed
<1>1. row' = row \/ SaveHalt(t) \/ SaveMode(t) \/ SaveRun(t)
  BY DEF Step, Begin, BeginFlag, BeginAbnormal, BeginSet, BeginRun, TransitionMode,
       PromoteConfig, Rollback, EnableLive, LeaveLive, Serve, HaltStep, SetHalt, Snapshot,
       ReadHalt, SyncFlag, EmergencyStop, DisableLive, ReadRun, RunStep, CheckLocks,
       LiveStep, CheckLive, RecoverLive, StartWithLive, AfterLive, Resume, CycleStep,
       DailyLoss, AskHalt, AskFlag
<1>2. CASE row' = row
  BY <1>0, <1>2
<1>3. CASE SaveHalt(t)
  <2>1. row' = [halt |-> held[t], mode |-> row.mode, run |-> row.run]
    BY <1>0, <1>3, PutHalt DEF SaveHalt
  <2>2. held[t] \in HaltMode
    BY <1>0, <1>3 DEF SaveHalt, Fits
  <2> QED
    BY <1>0, <1>3, <2>1, <2>2 DEF Row
<1>4. CASE SaveMode(t)
  <2>1. row' = [halt |-> row.halt, mode |-> to[t], run |-> row.run]
    BY <1>0, <1>4, PutMode DEF SaveMode
  <2>2. to[t] \in Mode
    BY <1>0, <1>4 DEF SaveMode, Fits
  <2> QED
    BY <1>0, <1>4, <2>1, <2>2 DEF Row
<1>5. CASE SaveRun(t)
  <2>1. row' = [halt |-> row.halt, mode |-> row.mode, run |-> held[t]]
    BY <1>0, <1>5, PutRun DEF SaveRun
  <2>2. held[t] \in Run
    BY <1>0, <1>5 DEF SaveRun, Fits
  <2> QED
    BY <1>0, <1>5, <2>1, <2>2 DEF Row
<1> QED
  BY <1>1, <1>2, <1>3, <1>4, <1>5

LEMMA NotesStep == ASSUME Typed, NEW t \in Thread, Step(t) PROVE Notes'
<1>0. Notes /\ Plane
  BY DEF Typed
<1>1. yes' = yes \/ yes' = FALSE \/ yes' = (~flag /\ mode # "SHADOW")
  BY DEF Step, Begin, BeginFlag, BeginAbnormal, BeginSet, BeginRun, TransitionMode,
       PromoteConfig, Rollback, EnableLive, LeaveLive, Serve, HaltStep, SetHalt, Snapshot,
       SaveHalt, ReadHalt, SyncFlag, EmergencyStop, DisableLive, SaveMode, ReadRun, RunStep,
       CheckLocks, LiveStep, CheckLive, RecoverLive, StartWithLive, AfterLive, Resume,
       SaveRun, CycleStep, DailyLoss, AskHalt, AskFlag
<1>2. crossed' = crossed \/ crossed' = (\E u \in Thread \ {t} : HaltBusy(u))
  BY DEF Step, Begin, BeginFlag, BeginAbnormal, BeginSet, BeginRun, TransitionMode,
       PromoteConfig, Rollback, EnableLive, LeaveLive, Serve, HaltStep, SetHalt, Snapshot,
       SaveHalt, ReadHalt, SyncFlag, EmergencyStop, DisableLive, SaveMode, ReadRun, RunStep,
       CheckLocks, LiveStep, CheckLive, RecoverLive, StartWithLive, AfterLive, Resume,
       SaveRun, CycleStep, DailyLoss, AskHalt, AskFlag, NoteHalt, haltHist
<1>3. \/ standing' = standing
      \/ \E m \in HaltMode : standing' = (standing /\ m # "ACTIVE" /\ ~crossed')
      \/ standing' = (standing \/ (to[t] # "ACTIVE" /\ ~crossed))
  BY DEF Step, Begin, BeginFlag, BeginAbnormal, BeginSet, BeginRun, TransitionMode,
       PromoteConfig, Rollback, EnableLive, LeaveLive, Serve, HaltStep, SetHalt, Snapshot,
       SaveHalt, ReadHalt, SyncFlag, EmergencyStop, DisableLive, SaveMode, ReadRun, RunStep,
       CheckLocks, LiveStep, CheckLive, RecoverLive, StartWithLive, AfterLive, Resume,
       SaveRun, CycleStep, DailyLoss, AskHalt, AskFlag, NoteHalt, haltHist, HaltMode
<1>4. under' = under \/ under' = standing \/ under' = (under /\ standing')
  BY DEF Step, Begin, BeginFlag, BeginAbnormal, BeginSet, BeginRun, TransitionMode,
       PromoteConfig, Rollback, EnableLive, LeaveLive, Serve, HaltStep, SetHalt, Snapshot,
       SaveHalt, ReadHalt, SyncFlag, EmergencyStop, DisableLive, SaveMode, ReadRun, RunStep,
       CheckLocks, LiveStep, CheckLive, RecoverLive, StartWithLive, AfterLive, Resume,
       SaveRun, CycleStep, DailyLoss, AskHalt, AskFlag, NoteHalt, haltHist
<1>5. \/ modeLoose' = modeLoose \/ modeLoose' = TRUE
      \/ modeLoose' = (\E u \in Thread \ {t} : at[u] = "savemode")
  BY DEF Step, Begin, BeginFlag, BeginAbnormal, BeginSet, BeginRun, TransitionMode,
       PromoteConfig, Rollback, EnableLive, LeaveLive, Serve, HaltStep, SetHalt, Snapshot,
       SaveHalt, ReadHalt, SyncFlag, EmergencyStop, DisableLive, SaveMode, ReadRun, RunStep,
       CheckLocks, LiveStep, CheckLive, RecoverLive, StartWithLive, AfterLive, Resume,
       SaveRun, CycleStep, DailyLoss, AskHalt, AskFlag
<1>6. \/ runLoose' = runLoose \/ runLoose' = TRUE
      \/ runLoose' = (runLoose \/ run # "running")
      \/ runLoose' = (\E u \in Thread \ {t} : RunBusy(u))
  BY DEF Step, Begin, BeginFlag, BeginAbnormal, BeginSet, BeginRun, TransitionMode,
       PromoteConfig, Rollback, EnableLive, LeaveLive, Serve, HaltStep, SetHalt, Snapshot,
       SaveHalt, ReadHalt, SyncFlag, EmergencyStop, DisableLive, SaveMode, ReadRun, RunStep,
       CheckLocks, LiveStep, CheckLive, RecoverLive, StartWithLive, AfterLive, Resume,
       SaveRun, CycleStep, DailyLoss, AskHalt, AskFlag, NoteRun, runHist
<1>7. \/ overtaken' = overtaken
      \/ overtaken' = (\E u \in Thread \ {t} : Resuming(u))
      \/ overtaken' = (run = "running" \/ \E u \in Thread : Resuming(u))
      \/ overtaken' = (overtaken \/ stop # "none")
      \/ overtaken' = (overtaken \/ stop \in {"memory", "saved"})
  BY DEF Step, Begin, BeginFlag, BeginAbnormal, BeginSet, BeginRun, TransitionMode,
       PromoteConfig, Rollback, EnableLive, LeaveLive, Serve, HaltStep, SetHalt, Snapshot,
       SaveHalt, ReadHalt, SyncFlag, EmergencyStop, DisableLive, SaveMode, ReadRun, RunStep,
       CheckLocks, LiveStep, CheckLive, RecoverLive, StartWithLive, AfterLive, Resume,
       SaveRun, CycleStep, DailyLoss, AskHalt, AskFlag, runHist
<1>8. yes' \in BOOLEAN
  BY <1>0, <1>1, Zenon DEF Notes, Plane
<1>9. crossed' \in BOOLEAN
  BY <1>0, <1>2, Zenon DEF Notes
<1>10. standing' \in BOOLEAN
  BY <1>0, <1>3, Zenon DEF Notes
<1>11. under' \in BOOLEAN
  BY <1>0, <1>4, <1>10, Zenon DEF Notes
<1>12. modeLoose' \in BOOLEAN
  BY <1>0, <1>5, Zenon DEF Notes
<1>13. runLoose' \in BOOLEAN
  BY <1>0, <1>6, Zenon DEF Notes
<1>14. overtaken' \in BOOLEAN
  BY <1>0, <1>7, Zenon DEF Notes, Plane
<1> QED
  BY <1>8, <1>9, <1>10, <1>11, <1>12, <1>13, <1>14, Zenon DEF Notes

(* What a boot makes of a row.                                               *)
LEMMA BootReads ==
    ASSUME NEW r \in Row
    PROVE  /\ HaltOf(r) \in HaltMode /\ ModeOf(r) \in Mode /\ RunOf(r) \in Run
           /\ BootRow(r) \in Row /\ BootRow(r).run = RunOf(r)
           /\ HaltOf(BootRow(r)) = HaltOf(r) /\ ModeOf(BootRow(r)) = ModeOf(r)
<1>1. r.halt \in HaltMode \cup {"none", "legacy", "stale"}
      /\ r.mode \in Mode \cup {"none"} /\ r.run \in Run
  BY DEF Row
<1>2. HaltOf(r) \in HaltMode
  BY <1>1 DEF HaltOf, HaltMode
<1>3. ModeOf(r) \in Mode
  BY <1>1 DEF ModeOf, Mode
<1>4. RunOf(r) \in Run
  BY <1>1 DEF RunOf, Run
<1>5. BootRow(r) = [halt |-> IF r.halt = "stale" THEN "ACTIVE" ELSE r.halt,
                    mode |-> r.mode, run |-> RunOf(r)]
  <2> DEFINE h == IF r.halt = "stale" THEN "ACTIVE" ELSE r.halt
             q == [halt |-> r.halt, mode |-> r.mode, run |-> r.run]
  <2>1. r = q
    BY DEF Row
  <2>2. BootRow(r) = [[r EXCEPT !.halt = h] EXCEPT !.run = RunOf(r)]
    BY DEF BootRow
  <2>3. [r EXCEPT !.halt = h] = [halt |-> h, mode |-> r.mode, run |-> r.run]
    <3>1. [q EXCEPT !.halt = h] = [halt |-> h, mode |-> r.mode, run |-> r.run]
      OBVIOUS
    <3> QED
      BY <2>1, <3>1
  <2> QED
    BY <2>2, <2>3
<1>6. HaltOf(BootRow(r)) = HaltOf(r)
  <2>1. BootRow(r).halt = IF r.halt = "stale" THEN "ACTIVE" ELSE r.halt
    BY <1>5
  <2>2. CASE r.halt = "stale"
    BY <2>1, <2>2 DEF HaltOf
  <2>3. CASE r.halt # "stale"
    BY <2>1, <2>3 DEF HaltOf
  <2> QED
    BY <2>2, <2>3
<1>7. ModeOf(BootRow(r)) = ModeOf(r)
  BY <1>5 DEF ModeOf
<1>8. BootRow(r) \in Row
  BY <1>1, <1>4, <1>5 DEF Row, HaltMode
<1> QED
  BY <1>2, <1>3, <1>4, <1>5, <1>6, <1>7, <1>8

(* The fields of the plane a boot builds.                                    *)
LEMMA BootFields ==
    ASSUME NEW r
    PROVE  /\ BootPlane(r).halt = HaltOf(r)
           /\ BootPlane(r).flag = (HaltOf(r) = "HALT_ALL_TRADING")
           /\ BootPlane(r).mode = ModeOf(r)
           /\ BootPlane(r).run = RunOf(r)
           /\ BootPlane(r).locked = FALSE
           /\ BootPlane(r).configs = {"SHADOW"}
BY DEF BootPlane

LEMMA InitTyped == Init => Typed
<1> SUFFICES ASSUME Init PROVE Typed
  OBVIOUS
<1>1. PICK r \in OldRows : /\ halt = HaltOf(r) /\ flag = (HaltOf(r) = "HALT_ALL_TRADING")
                           /\ mode = ModeOf(r) /\ run = RunOf(r)
                           /\ locked = FALSE /\ configs = {"SHADOW"} /\ row = BootRow(r)
                           /\ live \in OldLive
  BY BootFields DEF Init
<1>2. r \in Row /\ live \in Live
  BY <1>1, RowAssumption DEF Live
<1>3. flag \in BOOLEAN /\ locked \in BOOLEAN
  BY <1>1, Zenon
<1>4. Plane /\ row \in Row
  BY <1>1, <1>2, <1>3, BootReads DEF Plane, Mode
<1>5. Places
  BY DEF Init, Idle, Places, At, OpName, ToSet, HeldSet
<1>6. Limits
  BY BoundAssumption DEF Init, Limits
<1>7. Notes
  BY Zenon DEF Init, Notes
<1>8. Fits
  BY DEF Init, Idle, Fits, HaltBusy, HaltSteps
<1> QED
  BY <1>4, <1>5, <1>6, <1>7, <1>8 DEF Typed

(* A restart builds the plane from the row, and nothing is under way.        *)
LEMMA RestartMakes ==
    ASSUME Restart
    PROVE  /\ halt' = HaltOf(row) /\ flag' = (HaltOf(row) = "HALT_ALL_TRADING")
           /\ mode' = ModeOf(row) /\ run' = RunOf(row)
           /\ locked' = FALSE /\ configs' = {"SHADOW"} /\ row' = BootRow(row)
           /\ live' \in Live
           /\ \A t \in Thread : at'[t] = "idle" /\ op'[t] = "none" /\ to'[t] = "none"
                                /\ held'[t] = "none"
BY BootFields, RowAssumption DEF Restart, Idle, Live

LEMMA RestartTyped == ASSUME Typed, Restart PROVE Typed'
<1>0. row \in Row /\ Limits /\ Notes
  BY DEF Typed
<1>1. flag' \in BOOLEAN /\ locked' \in BOOLEAN
  BY RestartMakes, Zenon
<1>2. Plane' /\ row' \in Row
  BY <1>0, <1>1, RestartMakes, BootReads DEF Plane, Mode
<1>3. Places'
  BY DEF Restart, Idle, Places, At, OpName, ToSet, HeldSet
<1>4. Limits'
  BY <1>0, BoundAssumption DEF Restart, Limits
<1>5. Notes'
  BY <1>0, Zenon DEF Restart, Notes
<1>6. Fits'
  BY RestartMakes DEF Fits, HaltBusy, HaltSteps
<1> QED
  BY <1>2, <1>3, <1>4, <1>5, <1>6 DEF Typed

(* A failed check pauses live trading and touches nothing else.              *)
LEMMA PauseMoves ==
    ASSUME PauseLive
    PROVE  /\ UNCHANGED <<halt, flag, mode, run, locked, configs, row, at, op, to, held, yes>>
           /\ UNCHANGED <<swings, restarts, crossed, standing, under, modeLoose, runLoose>>
           /\ UNCHANGED <<stop, overtaken>>
           /\ live = "on" /\ live' = "waiting" /\ ops < MaxOps /\ ops' = ops + 1
BY DEF PauseLive, locals, haltHist, runHist

LEMMA TypedStep == Typed /\ [Next]_vars => Typed'
<1> SUFFICES ASSUME Typed, [Next]_vars PROVE Typed'
  OBVIOUS
<1>1. ASSUME NEW t \in Thread, Step(t) PROVE Typed'
  <2>1. Places'
    BY <1>1, AtTyped, OpTyped, ToTyped, HeldTyped DEF Places
  <2>2. Plane' /\ Limits' /\ Notes' /\ Fits' /\ row' \in Row
    BY <1>1, PlaneStep, LimitsStep, NotesStep, FitsStep, RowMoves
  <2> QED
    BY <2>1, <2>2 DEF Typed
<1>2. CASE Restart
  BY <1>2, RestartTyped
<1>3. CASE PauseLive
  <2>1. Limits'
    BY <1>3, PauseMoves, BoundAssumption DEF Typed, Limits
  <2>2. Plane'
    BY <1>3, PauseMoves DEF Typed, Plane, Live
  <2> QED
    BY <1>3, <2>1, <2>2, PauseMoves DEF Typed, Places, Notes, Fits, HaltBusy
<1>4. CASE UNCHANGED vars
  BY <1>4 DEF vars, plane, locals, bounds, haltHist, runHist, Typed, Plane, Places, Limits,
              Notes, Fits, HaltBusy
<1> QED
  BY <1>1, <1>2, <1>3, <1>4, NextIsStep

(* The control plane keeps to its types, and a thread that is about to write *)
(* holds a value of the field it writes.                                     *)
THEOREM TypeCorrect == Spec => []TypeOK
<1>1. Spec => []Typed
  BY InitTyped, TypedStep, PTL DEF Spec
<1> QED
  BY <1>1, TypedIsTypeOK, PTL

-----------------------------------------------------------------------------
(* Halt mode, flag and row.                                                  *)

ALL == "HALT_ALL_TRADING"

(* While halt operations do not overlap there is one writer, and each of its *)
(* steps has brought one more place into line.                               *)
InLine(t) ==
    /\ at[t] \in {"snap", "save", "read", "sync"} => halt = to[t]
    /\ at[t] = "save" => held[t] = halt
    /\ at[t] \in {"read", "sync"} => HaltOf(row) = halt
    /\ at[t] = "sync" => (held[t] = "armed" <=> halt = ALL)

HaltAlone == \A t, u \in Thread : HaltBusy(t) /\ HaltBusy(u) => t = u
HaltRest ==
    (\A t \in Thread : ~HaltBusy(t)) =>
        (flag <=> halt = ALL) /\ HaltOf(row) = halt

Aligned == ~crossed => HaltAlone /\ HaltRest /\ \A t \in Thread : InLine(t)

Opens(t) == BeginFlag(t) \/ BeginAbnormal(t) \/ BeginSet(t)

(* Whatever is neither the beginning nor a step of a halt operation leaves   *)
(* all of this alone.                                                        *)
LEMMA Quiet ==
    ASSUME Typed, NEW t \in Thread, Step(t), ~Opens(t), ~HaltStep(t)
    PROVE  /\ halt' = halt /\ flag' = flag /\ HaltOf(row)' = HaltOf(row)
           /\ crossed' = crossed /\ standing' = standing
           /\ ~HaltBusy(t) /\ ~HaltBusy(t)'
<1>0. row \in Row /\ Places
  BY DEF Typed
<1>1. halt' = halt /\ flag' = flag /\ crossed' = crossed /\ standing' = standing
  BY DEF Step, Begin, Opens, BeginRun, TransitionMode, PromoteConfig, Rollback, EnableLive,
       LeaveLive, Serve, EmergencyStop, DisableLive, SaveMode, ReadRun, RunStep, CheckLocks,
       LiveStep, CheckLive, RecoverLive, StartWithLive, AfterLive, Resume, SaveRun,
       CycleStep, DailyLoss, AskHalt, AskFlag, haltHist, plane
<1>2. at[t] \in At \ HaltSteps /\ at'[t] \in At \ HaltSteps
  <2>1. CASE Begin(t)
    BY <1>0, <2>1 DEF Begin, Opens, BeginRun, TransitionMode, PromoteConfig, Rollback,
         EnableLive, LeaveLive, Take, Goto, Places, locals, At, HaltSteps
  <2>2. CASE Serve(t)
    BY <1>0, <2>2 DEF Serve, EmergencyStop, DisableLive, SaveMode, ReadRun, Goto, Done,
         Places, At, HaltSteps
  <2>3. CASE RunStep(t)
    BY <1>0, <2>3 DEF RunStep, CheckLocks, LiveStep, CheckLive, RecoverLive, StartWithLive,
         AfterLive, Resume, SaveRun, Goto, Done, Places, At, HaltSteps
  <2>4. CASE CycleStep(t)
    BY <1>0, <2>4 DEF CycleStep, DailyLoss, AskHalt, AskFlag, Goto, Places, At, HaltSteps
  <2> QED
    BY <2>1, <2>2, <2>3, <2>4 DEF Step
<1>3. row'.halt = row.halt
  <2>1. \/ row' = row
        \/ row' = [halt |-> row.halt, mode |-> to[t], run |-> row.run]
        \/ row' = [halt |-> row.halt, mode |-> row.mode, run |-> held[t]]
    BY RowMoves DEF HaltStep
  <2> QED
    BY <2>1
<1>4. HaltOf(row)' = HaltOf(row)
  BY <1>3 DEF HaltOf
<1> QED
  BY <1>1, <1>2, <1>4 DEF HaltBusy, HaltSteps

LEMMA AlignedOpens ==
    ASSUME Typed, NEW t \in Thread, Opens(t), Step(t) PROVE Aligned'
<1> SUFFICES ASSUME ~crossed' PROVE (HaltAlone /\ HaltRest /\ \A u \in Thread : InLine(u))'
  BY DEF Aligned
<1>0. Places
  BY DEF Typed
<1>1. at'[t] = "halt"
  BY <1>0 DEF Opens, BeginFlag, BeginAbnormal, BeginSet, Goto, Places
<1>2. \A u \in Thread \ {t} : ~HaltBusy(u)
  BY DEF Opens, BeginFlag, BeginAbnormal, BeginSet, NoteHalt
<1>3. \A u \in Thread \ {t} : at'[u] \notin HaltSteps
  BY <1>0, <1>2, Others DEF HaltBusy
<1> QED
  BY <1>1, <1>3 DEF HaltAlone, HaltRest, InLine, HaltBusy, HaltSteps

LEMMA AlignedHaltStep ==
    ASSUME Typed, Aligned, NEW t \in Thread, HaltStep(t), Step(t) PROVE Aligned'
<1> SUFFICES ASSUME ~crossed' PROVE (HaltAlone /\ HaltRest /\ \A u \in Thread : InLine(u))'
  BY DEF Aligned
<1>0. Places /\ row \in Row
  BY DEF Typed
<1>1. ~crossed /\ HaltAlone /\ HaltBusy(t) /\ InLine(t)
  BY DEF Aligned, HaltStep, SetHalt, Snapshot, SaveHalt, ReadHalt, SyncFlag, haltHist,
       HaltBusy, HaltSteps
<1>2. \A u \in Thread \ {t} : ~HaltBusy(u)
  BY <1>1 DEF HaltAlone
<1>3. \A u \in Thread \ {t} : at'[u] \notin HaltSteps
  BY <1>0, <1>2, Others DEF HaltBusy
<1>4. HaltAlone' /\ \A u \in Thread \ {t} : InLine(u)'
  BY <1>3 DEF HaltAlone, InLine, HaltBusy, HaltSteps
<1>5. CASE SetHalt(t)
  <2>1. at'[t] = "snap" /\ halt' = to[t] /\ to' = to
    BY <1>0, <1>5 DEF SetHalt, Goto, Places
  <2> QED
    BY <1>4, <2>1 DEF HaltRest, InLine, HaltBusy, HaltSteps
<1>6. CASE Snapshot(t)
  <2>1. at[t] = "snap" /\ at'[t] = "save" /\ halt' = halt /\ to' = to /\ held'[t] = halt
    BY <1>0, <1>6 DEF Snapshot, Goto, Hold, Places, plane
  <2> QED
    BY <1>1, <1>4, <2>1 DEF HaltRest, InLine, HaltBusy, HaltSteps
<1>7. CASE SaveHalt(t)
  <2>1. at[t] = "save" /\ at'[t] = "read" /\ halt' = halt /\ to' = to
    BY <1>0, <1>7 DEF SaveHalt, Goto, Places, plane
  <2>2. row' = [halt |-> held[t], mode |-> row.mode, run |-> row.run]
    BY <1>0, <1>7, PutHalt DEF SaveHalt
  <2>3. held[t] = halt /\ halt \in HaltMode
    BY <1>1, <2>1 DEF InLine, Typed, Plane
  <2>4. row'.halt = halt
    BY <2>2, <2>3
  <2>5. HaltOf(row)' = halt
    BY <2>3, <2>4 DEF HaltOf, HaltMode
  <2> QED
    BY <1>1, <1>4, <2>1, <2>5 DEF HaltRest, InLine, HaltBusy, HaltSteps
<1>8. CASE ReadHalt(t)
  <2>1. /\ at[t] = "read" /\ at'[t] = "sync" /\ halt' = halt /\ to' = to /\ row' = row
        /\ held'[t] = IF halt = ALL THEN "armed" ELSE "clear"
    BY <1>0, <1>8 DEF ReadHalt, Goto, Hold, Places, plane, ALL
  <2>2. HaltOf(row)' = HaltOf(row)
    BY <2>1
  <2> QED
    BY <1>1, <1>4, <2>1, <2>2 DEF HaltRest, InLine, HaltBusy, HaltSteps
<1>9. CASE SyncFlag(t)
  <2>1. at[t] = "sync" /\ at'[t] \notin HaltSteps /\ halt' = halt /\ row' = row
    BY <1>0, <1>9 DEF SyncFlag, Goto, Done, Places, HaltSteps
  <2>2. HaltOf(row)' = HaltOf(row)
    BY <2>1
  <2>3. flag' = (held[t] = "armed")
    BY <1>9 DEF SyncFlag
  <2>4. (held[t] = "armed" <=> halt = ALL) /\ HaltOf(row) = halt
    BY <1>1, <2>1 DEF InLine
  <2>5. flag' <=> halt' = ALL
    BY <2>1, <2>3, <2>4, Zenon
  <2>6. HaltRest'
    BY <2>1, <2>2, <2>4, <2>5 DEF HaltRest
  <2>7. InLine(t)'
    BY <2>1 DEF InLine, HaltSteps
  <2> QED
    BY <1>4, <2>6, <2>7
<1> QED
  BY <1>5, <1>6, <1>7, <1>8, <1>9 DEF HaltStep

LEMMA AlignedQuiet ==
    ASSUME Typed, Aligned, NEW t \in Thread, Step(t), ~Opens(t), ~HaltStep(t) PROVE Aligned'
<1> SUFFICES ASSUME ~crossed' PROVE (HaltAlone /\ HaltRest /\ \A u \in Thread : InLine(u))'
  BY DEF Aligned
<1>0. Places
  BY DEF Typed
<1>1. /\ halt' = halt /\ flag' = flag /\ HaltOf(row)' = HaltOf(row)
      /\ ~crossed /\ ~HaltBusy(t) /\ ~HaltBusy(t)'
  BY Quiet
<1>2. HaltAlone /\ HaltRest /\ \A u \in Thread : InLine(u)
  BY <1>1 DEF Aligned
<1>3. \A u \in Thread : HaltBusy(u)' <=> HaltBusy(u)
  BY <1>0, <1>1, Others DEF HaltBusy
<1>4. \A u \in Thread : InLine(u)'
  <2> SUFFICES ASSUME NEW u \in Thread PROVE InLine(u)'
    OBVIOUS
  <2>1. CASE u = t
    BY <1>1, <2>1 DEF InLine, HaltBusy, HaltSteps
  <2>2. CASE u # t
    BY <1>0, <1>1, <1>2, <2>2, Others DEF InLine
  <2> QED
    BY <2>1, <2>2
<1>5. HaltRest'
  BY <1>1, <1>2, <1>3, Zenon DEF HaltRest
<1> QED
  BY <1>2, <1>3, <1>4, <1>5 DEF HaltAlone

LEMMA AlignedStep == Typed /\ Aligned /\ [Next]_vars => Aligned'
<1> SUFFICES ASSUME Typed, Aligned, [Next]_vars PROVE Aligned'
  OBVIOUS
<1>1. ASSUME NEW t \in Thread, Step(t) PROVE Aligned'
  BY <1>1, AlignedOpens, AlignedHaltStep, AlignedQuiet
<1>2. CASE Restart
  <2>1. HaltOf(row') = HaltOf(row)
    BY <1>2, RestartMakes, BootReads DEF Typed
  <2>2. HaltOf(row)' = halt' /\ (flag' <=> halt' = ALL)
    BY <1>2, <2>1, RestartMakes DEF ALL
  <2>3. \A u \in Thread : at'[u] \notin HaltSteps
    BY <1>2, RestartMakes DEF HaltSteps
  <2> QED
    BY <2>2, <2>3 DEF Aligned, HaltAlone, HaltRest, InLine, HaltBusy, HaltSteps
<1>3. CASE PauseLive \/ UNCHANGED vars
  <2>1. UNCHANGED <<at, to, held, halt, flag, row, crossed>>
    BY <1>3, PauseMoves DEF vars, plane, locals, haltHist
  <2> QED
    BY <2>1 DEF Aligned, HaltAlone, HaltRest, InLine, HaltBusy, HaltOf
<1> QED
  BY <1>1, <1>2, <1>3, NextIsStep

LEMMA InitMakes ==
    ASSUME Init
    PROVE  /\ (flag <=> halt = ALL) /\ HaltOf(row) = halt
           /\ ModeOf(row) = mode /\ row.run = run
           /\ \A t \in Thread : at[t] = "idle"
<1>1. PICK r \in OldRows : /\ halt = HaltOf(r) /\ flag = (HaltOf(r) = "HALT_ALL_TRADING")
                           /\ mode = ModeOf(r) /\ run = RunOf(r) /\ row = BootRow(r)
  BY BootFields DEF Init
<1>2. r \in Row
  BY RowAssumption
<1>3. HaltOf(row) = halt /\ ModeOf(row) = mode /\ row.run = run
  BY <1>1, <1>2, BootReads
<1>4. flag <=> halt = ALL
  BY <1>1, Zenon DEF ALL
<1> QED
  BY <1>3, <1>4 DEF Init, Idle

LEMMA InitAligned == Init => Aligned
BY InitMakes DEF Aligned, HaltAlone, HaltRest, InLine, HaltBusy, HaltSteps

LEMMA TypedAligned == Spec => [](Typed /\ Aligned)
BY InitTyped, InitAligned, TypedStep, AlignedStep, PTL DEF Spec

(* The legacy kill flag and the halt mode, written one after the other under *)
(* different locks or none, agree when the halt operations are over.         *)
THEOREM FlagFollows == Spec => []FlagFollowsHalt
<1>1. Aligned => FlagFollowsHalt
  BY DEF Aligned, HaltRest, FlagFollowsHalt, ALL
<1> QED
  BY <1>1, TypedAligned, PTL

-----------------------------------------------------------------------------
(* A halt that stands.                                                       *)

(* Nothing that would lift it is under way.                                  *)
Stands ==
    standing =>
        /\ halt # "ACTIVE" /\ HaltOf(row) # "ACTIVE"
        /\ \A t \in Thread : /\ at[t] = "halt" => to[t] # "ACTIVE"
                             /\ at[t] = "save" => held[t] # "ACTIVE"

Refused == (at[Cycle] = "askflag" => ~under) /\ (yes => ~under)

LEMMA StandsStep ==
    ASSUME Typed, Aligned, Stands, NEW t \in Thread, Step(t) PROVE Stands'
<1> SUFFICES ASSUME standing'
             PROVE  /\ halt' # "ACTIVE" /\ HaltOf(row)' # "ACTIVE"
                    /\ \A u \in Thread : /\ at'[u] = "halt" => to'[u] # "ACTIVE"
                                         /\ at'[u] = "save" => held'[u] # "ACTIVE"
  BY DEF Stands
<1>0. Places /\ row \in Row
  BY DEF Typed
<1>1. CASE Opens(t)
  <2>1. /\ halt' = halt /\ row' = row /\ at'[t] = "halt" /\ to'[t] # "ACTIVE"
        /\ standing
    BY <1>0, <1>1 DEF Opens, BeginFlag, BeginAbnormal, BeginSet, Take, Goto, NoteHalt,
         Places, plane
  <2>2. HaltOf(row)' = HaltOf(row)
    BY <2>1
  <2> QED
    BY <1>0, <2>1, <2>2, Others DEF Stands
<1>2. CASE SetHalt(t)
  <2>1. /\ at[t] = "halt" /\ halt' = to[t] /\ row' = row /\ at'[t] = "snap" /\ standing
    BY <1>0, <1>2 DEF SetHalt, Goto, Places, haltHist
  <2>2. HaltOf(row)' = HaltOf(row)
    BY <2>1
  <2> QED
    BY <1>0, <2>1, <2>2, Others DEF Stands
<1>3. CASE Snapshot(t)
  <2>1. /\ halt' = halt /\ row' = row /\ at'[t] = "save" /\ held'[t] = halt /\ standing
    BY <1>0, <1>3 DEF Snapshot, Goto, Hold, Places, haltHist, plane
  <2>2. HaltOf(row)' = HaltOf(row)
    BY <2>1
  <2> QED
    BY <1>0, <2>1, <2>2, Others DEF Stands
<1>4. CASE SaveHalt(t)
  <2>1. /\ at[t] = "save" /\ halt' = halt /\ at'[t] = "read" /\ standing
    BY <1>0, <1>4 DEF SaveHalt, Goto, Places, haltHist, plane
  <2>2. row' = [halt |-> held[t], mode |-> row.mode, run |-> row.run]
    BY <1>0, <1>4, PutHalt DEF SaveHalt
  <2>3. held[t] # "ACTIVE" /\ held[t] \in HaltMode
    BY <2>1 DEF Stands, Typed, Fits
  <2>4. row'.halt = held[t]
    BY <2>2
  <2>5. HaltOf(row)' # "ACTIVE"
    BY <2>3, <2>4 DEF HaltOf, HaltMode
  <2> QED
    BY <1>0, <2>1, <2>5, Others DEF Stands
<1>5. CASE ReadHalt(t)
  <2>1. /\ halt' = halt /\ row' = row /\ at'[t] = "sync" /\ standing
    BY <1>0, <1>5 DEF ReadHalt, Goto, Places, haltHist, plane
  <2>2. HaltOf(row)' = HaltOf(row)
    BY <2>1
  <2> QED
    BY <1>0, <2>1, <2>2, Others DEF Stands
<1>6. CASE SyncFlag(t)
  <2>1. /\ halt' = halt /\ row' = row /\ at[t] = "sync" /\ at'[t] \notin HaltSteps
        /\ standing \/ (to[t] # "ACTIVE" /\ ~crossed)
    BY <1>0, <1>6 DEF SyncFlag, Goto, Done, Places, HaltSteps
  <2>2. HaltOf(row)' = HaltOf(row)
    BY <2>1
  <2>3. CASE standing
    BY <1>0, <2>1, <2>2, <2>3, Others DEF Stands, HaltSteps
  <2>4. CASE to[t] # "ACTIVE" /\ ~crossed
    <3>1. halt = to[t] /\ HaltOf(row) = halt
      BY <2>1, <2>4 DEF Aligned, InLine
    <3>2. \A u \in Thread \ {t} : at[u] \notin HaltSteps
      BY <2>1, <2>4 DEF Aligned, HaltAlone, HaltBusy, HaltSteps
    <3>3. \A u \in Thread : at'[u] \notin HaltSteps
      BY <1>0, <2>1, <3>2, Others
    <3> QED
      BY <2>1, <2>2, <2>4, <3>1, <3>3 DEF HaltSteps
  <2> QED
    BY <2>1, <2>3, <2>4
<1>7. CASE ~Opens(t) /\ ~HaltStep(t)
  <2>1. /\ halt' = halt /\ HaltOf(row)' = HaltOf(row) /\ standing
        /\ at'[t] \notin HaltSteps
    BY <1>7, Quiet DEF HaltBusy
  <2> QED
    BY <1>0, <2>1, Others DEF Stands, HaltSteps
<1> QED
  BY <1>1, <1>2, <1>3, <1>4, <1>5, <1>6, <1>7 DEF HaltStep

LEMMA RefusedStep ==
    ASSUME Typed, Stands, Refused, NEW t \in Thread, Step(t) PROVE Refused'
<1>0. Places /\ Cycle \in Thread
  BY DEF Typed, Thread
<1>1. CASE AskHalt(t) /\ t = Cycle
  <2>1. under' = standing /\ yes' = FALSE
    BY <1>1 DEF AskHalt
  <2>2. at'[Cycle] = "askflag" => halt = "ACTIVE"
    BY <1>0, <1>1 DEF AskHalt, Goto, Places
  <2>3. halt = "ACTIVE" => ~standing
    BY DEF Stands
  <2> QED
    BY <2>1, <2>2, <2>3, Zenon DEF Refused
<1>2. CASE AskFlag(t) /\ t = Cycle
  <2>1. at[Cycle] = "askflag" /\ at'[Cycle] = "idle" /\ under' = under
    BY <1>0, <1>2 DEF AskFlag, Goto, Places, haltHist
  <2> QED
    BY <2>1 DEF Refused
<1>3. CASE ~(t = Cycle /\ (AskHalt(t) \/ AskFlag(t)))
  <2>1. yes' = yes
    BY <1>3 DEF Step, Begin, BeginFlag, BeginAbnormal, BeginSet, BeginRun, TransitionMode,
         PromoteConfig, Rollback, EnableLive, LeaveLive, Serve, HaltStep, SetHalt, Snapshot,
         SaveHalt, ReadHalt, SyncFlag, EmergencyStop, DisableLive, SaveMode, ReadRun,
         RunStep, CheckLocks, LiveStep, CheckLive, RecoverLive, StartWithLive, AfterLive,
         Resume, SaveRun, CycleStep, DailyLoss
  <2>2. under' = under \/ under' = (under /\ standing')
    BY <1>3 DEF Step, Begin, BeginFlag, BeginAbnormal, BeginSet, BeginRun, TransitionMode,
         PromoteConfig, Rollback, EnableLive, LeaveLive, Serve, HaltStep, SetHalt, Snapshot,
         SaveHalt, ReadHalt, SyncFlag, EmergencyStop, DisableLive, SaveMode, ReadRun,
         RunStep, CheckLocks, LiveStep, CheckLive, RecoverLive, StartWithLive, AfterLive,
         Resume, SaveRun, CycleStep, DailyLoss, NoteHalt, haltHist
  <2>3. at'[Cycle] = "askflag" => at[Cycle] = "askflag"
    <3>1. CASE t # Cycle
      BY <1>0, <3>1, Others
    <3>2. CASE t = Cycle
      <4>1. CASE Begin(t)
        BY <1>0, <3>2, <4>1, ThreadAssumption DEF Begin, BeginFlag, BeginAbnormal, BeginSet,
             BeginRun, TransitionMode, PromoteConfig, Rollback, EnableLive, LeaveLive, Take
      <4>2. CASE Serve(t)
        BY <1>0, <3>2, <4>2 DEF Serve, HaltStep, SetHalt, Snapshot, SaveHalt, ReadHalt,
             SyncFlag, EmergencyStop, DisableLive, SaveMode, ReadRun, Goto, Done, Places
      <4>3. CASE RunStep(t)
        BY <1>0, <3>2, <4>3 DEF RunStep, CheckLocks, LiveStep, CheckLive, RecoverLive,
             StartWithLive, AfterLive, Resume, SaveRun, Goto, Done, Places
      <4>4. CASE CycleStep(t)
        BY <1>0, <1>3, <3>2, <4>4 DEF CycleStep, DailyLoss, Goto, Places
      <4> QED
        BY <4>1, <4>2, <4>3, <4>4 DEF Step
    <3> QED
      BY <3>1, <3>2
  <2>4. ~under => ~under'
    BY <2>2, Zenon
  <2>5. yes' => yes
    BY <2>1, Zenon
  <2> QED
    BY <2>3, <2>4, <2>5 DEF Refused
<1> QED
  BY <1>1, <1>2, <1>3

LEMMA StandingStep ==
    Typed /\ Aligned /\ Stands /\ Refused /\ [Next]_vars => Stands' /\ Refused'
<1> SUFFICES ASSUME Typed, Aligned, Stands, Refused, [Next]_vars PROVE Stands' /\ Refused'
  OBVIOUS
<1>1. ASSUME NEW t \in Thread, Step(t) PROVE Stands' /\ Refused'
  BY <1>1, StandsStep, RefusedStep
<1>2. CASE Restart
  <2>0. HaltOf(row') = HaltOf(row)
    BY <1>2, RestartMakes, BootReads DEF Typed
  <2>1. HaltOf(row)' = HaltOf(row) /\ halt' = HaltOf(row)
    BY <1>2, <2>0, RestartMakes
  <2>2. standing' = standing /\ under' = FALSE
    BY <1>2 DEF Restart
  <2>3. Stands'
    BY <1>2, <2>1, <2>2, RestartMakes DEF Stands
  <2> QED
    BY <2>2, <2>3, Zenon DEF Refused
<1>3. CASE PauseLive \/ UNCHANGED vars
  <2>1. UNCHANGED <<at, to, held, halt, row, standing, under, yes>>
    BY <1>3, PauseMoves DEF vars, plane, locals, haltHist
  <2> QED
    BY <2>1 DEF Stands, Refused, HaltOf
<1> QED
  BY <1>1, <1>2, <1>3, NextIsStep

(* A returned halt refuses every order asked for until a lift begins, over   *)
(* any mode change, resume or restart: nothing under way would lift it, and  *)
(* the cycle gets past the halt mode only where none stands.                 *)
THEOREM HaltRefuses == Spec => []ReturnedHaltRefusesOrders
<1>1. Init => Stands /\ Refused
  BY Zenon DEF Init, Stands, Refused
<1>2. Refused => ReturnedHaltRefusesOrders
  BY Zenon DEF Refused, ReturnedHaltRefusesOrders
<1> QED
  BY <1>1, <1>2, InitTyped, InitAligned, TypedStep, AlignedStep, StandingStep, PTL DEF Spec

-----------------------------------------------------------------------------
(* Mode and row.                                                             *)

ModeBusy(t) == at[t] = "savemode"

ModeKept ==
    ~modeLoose =>
        /\ \A t, u \in Thread : ModeBusy(t) /\ ModeBusy(u) => t = u
        /\ \A t \in Thread : ModeBusy(t) => to[t] = mode
        /\ (\A t \in Thread : ~ModeBusy(t)) => ModeOf(row) = mode

LEMMA ModeKeptStep ==
    ASSUME Typed, ModeKept, NEW t \in Thread, Step(t) PROVE ModeKept'
<1> SUFFICES ASSUME ~modeLoose'
             PROVE  /\ \A v, u \in Thread : ModeBusy(v)' /\ ModeBusy(u)' => v = u
                    /\ \A v \in Thread : ModeBusy(v)' => to'[v] = mode'
                    /\ (\A v \in Thread : ~ModeBusy(v)') => ModeOf(row)' = mode'
  BY DEF ModeKept
<1>0. Places /\ row \in Row /\ Fits
  BY DEF Typed
<1>1. CASE TransitionMode(t)
  <2>1. /\ at'[t] = "savemode" /\ to'[t] = mode'
        /\ \A u \in Thread \ {t} : at[u] # "savemode"
    BY <1>0, <1>1 DEF TransitionMode, Take, Goto, Places
  <2> QED
    BY <1>0, <2>1, Others DEF ModeBusy
<1>2. CASE SaveMode(t)
  <2>1. /\ at[t] = "savemode" /\ at'[t] # "savemode" /\ mode' = mode
        /\ ~modeLoose
    BY <1>0, <1>2 DEF SaveMode, Goto, Done, Places, plane
  <2>2. row' = [halt |-> row.halt, mode |-> to[t], run |-> row.run]
    BY <1>0, <1>2, PutMode DEF SaveMode
  <2>3. to[t] = mode /\ to[t] \in Mode /\ \A u \in Thread \ {t} : ~ModeBusy(u)
    BY <1>0, <2>1 DEF ModeKept, ModeBusy, Fits
  <2>4. row'.mode = mode
    BY <2>2, <2>3
  <2>5. ModeOf(row)' = mode
    BY <2>3, <2>4 DEF ModeOf, Mode
  <2> QED
    BY <1>0, <2>1, <2>3, <2>5, Others DEF ModeBusy
<1>3. CASE ~TransitionMode(t) /\ ~SaveMode(t)
  <2>1. mode' = mode /\ modeLoose' = modeLoose
    BY <1>3 DEF Step, Begin, BeginFlag, BeginAbnormal, BeginSet, BeginRun, PromoteConfig,
         Rollback, EnableLive, LeaveLive, Serve, HaltStep, SetHalt, Snapshot, SaveHalt,
         ReadHalt, SyncFlag, EmergencyStop, DisableLive, ReadRun, RunStep, CheckLocks,
         LiveStep, CheckLive, RecoverLive, StartWithLive, AfterLive, Resume, SaveRun,
         CycleStep, DailyLoss, AskHalt, AskFlag, plane
  <2>2. at[t] = "savemode" <=> at'[t] = "savemode"
    <3>1. CASE Begin(t)
      BY <1>0, <1>3, <3>1 DEF Begin, BeginFlag, BeginAbnormal, BeginSet, BeginRun,
           PromoteConfig, Rollback, EnableLive, LeaveLive, Take, Goto, Places, locals
    <3>2. CASE Serve(t)
      BY <1>0, <1>3, <3>2 DEF Serve, HaltStep, SetHalt, Snapshot, SaveHalt, ReadHalt,
           SyncFlag, EmergencyStop, DisableLive, ReadRun, Goto, Done, Places
    <3>3. CASE RunStep(t)
      BY <1>0, <3>3 DEF RunStep, CheckLocks, LiveStep, CheckLive, RecoverLive,
           StartWithLive, AfterLive, Resume, SaveRun, Goto, Done, Places
    <3>4. CASE CycleStep(t)
      BY <1>0, <3>4 DEF CycleStep, DailyLoss, AskHalt, AskFlag, Goto, Places
    <3> QED
      BY <3>1, <3>2, <3>3, <3>4 DEF Step
  <2>3. at[t] = "savemode" => to'[t] = to[t]
    <3>1. CASE Begin(t)
      BY <1>0, <1>3, <3>1 DEF Begin, BeginFlag, BeginAbnormal, BeginSet, BeginRun,
           PromoteConfig, Rollback, EnableLive, LeaveLive, Take, locals
    <3>2. CASE Serve(t)
      BY <1>0, <1>3, <3>2 DEF Serve, HaltStep, SetHalt, Snapshot, SaveHalt, ReadHalt,
           SyncFlag, EmergencyStop, DisableLive, ReadRun
    <3>3. CASE RunStep(t)
      BY <1>0, <3>3 DEF RunStep, CheckLocks, LiveStep, CheckLive, RecoverLive,
           StartWithLive, AfterLive, Resume, SaveRun
    <3>4. CASE CycleStep(t)
      BY <1>0, <3>4 DEF CycleStep, DailyLoss, AskHalt, AskFlag
    <3> QED
      BY <3>1, <3>2, <3>3, <3>4 DEF Step
  <2>4. ModeOf(row)' = ModeOf(row)
    <3>1. \/ row' = row
          \/ row' = [halt |-> held[t], mode |-> row.mode, run |-> row.run]
          \/ row' = [halt |-> row.halt, mode |-> row.mode, run |-> held[t]]
      BY <1>3, RowMoves
    <3>2. row'.mode = row.mode
      BY <3>1
    <3> QED
      BY <3>2 DEF ModeOf
  <2>5. \A u \in Thread : /\ ModeBusy(u)' <=> ModeBusy(u)
                          /\ ModeBusy(u) => to'[u] = to[u]
    BY <1>0, <2>2, <2>3, Others DEF ModeBusy
  <2>6. ~modeLoose
    BY <2>1, Zenon
  <2>7. /\ \A v, u \in Thread : ModeBusy(v)' /\ ModeBusy(u)' => v = u
        /\ \A v \in Thread : ModeBusy(v)' => to'[v] = mode'
    BY <2>1, <2>5, <2>6 DEF ModeKept
  <2>8. (\A v \in Thread : ~ModeBusy(v)') => ModeOf(row)' = mode'
    BY <2>1, <2>4, <2>5, <2>6, Zenon DEF ModeKept
  <2> QED
    BY <2>7, <2>8
<1> QED
  BY <1>1, <1>2, <1>3

-----------------------------------------------------------------------------
(* Run state and row.                                                        *)

RunAlone == \A t, u \in Thread : RunBusy(t) /\ RunBusy(u) => t = u
RunCarried(t) ==
    /\ at[t] = "saverun" => held[t] = run
    /\ op[t] = "abnormal" /\ HaltBusy(t) => run = "stopped"
RunRest == (\A t \in Thread : ~RunBusy(t)) => row.run = run

RunKept == ~runLoose => RunAlone /\ RunRest /\ \A t \in Thread : RunCarried(t)

(* Who writes the run state, and who ends the writing.                       *)
Writes(t) == BeginAbnormal(t) \/ BeginRun(t) \/ Resume(t)

LEMMA RunQuiet ==
    ASSUME Typed, NEW t \in Thread, Step(t), ~Writes(t), ~SaveRun(t), ~EmergencyStop(t),
           ~StartWithLive(t)
    PROVE  /\ run' = run /\ runLoose' = runLoose /\ row'.run = row.run
           /\ RunBusy(t)' <=> RunBusy(t)
           /\ op'[t] = "abnormal" /\ HaltBusy(t)' => op[t] = "abnormal" /\ HaltBusy(t)
           /\ at'[t] = "saverun" =>
                  \/ at[t] = "readrun" /\ held'[t] = run
                  \/ op[t] = "abnormal" /\ HaltBusy(t) /\ held'[t] = "stopped"
<1>0. Places /\ row \in Row
  BY DEF Typed
<1>1. run' = run /\ runLoose' = runLoose
  BY DEF Step, Begin, BeginFlag, BeginSet, TransitionMode, Writes, PromoteConfig, Rollback,
       EnableLive, LeaveLive, Serve, HaltStep, SetHalt, Snapshot, SaveHalt, ReadHalt,
       SyncFlag, DisableLive, SaveMode, ReadRun, RunStep, CheckLocks, LiveStep, CheckLive,
       RecoverLive, CycleStep, DailyLoss, AskHalt, AskFlag, plane, runHist
<1>2. row'.run = row.run
  <2>1. \/ row' = row
        \/ row' = [halt |-> held[t], mode |-> row.mode, run |-> row.run]
        \/ row' = [halt |-> row.halt, mode |-> to[t], run |-> row.run]
    BY RowMoves
  <2> QED
    BY <2>1
<1>3. CASE Begin(t)
  <2>1. CASE BeginFlag(t) \/ BeginSet(t)
    BY <1>0, <1>1, <1>2, <2>1 DEF BeginFlag, BeginSet, Take, Goto, Places, RunBusy,
         HaltBusy, HaltSteps
  <2>2. CASE TransitionMode(t) \/ PromoteConfig(t) \/ Rollback(t) \/ EnableLive(t)
             \/ LeaveLive(t)
    BY <1>0, <1>1, <1>2, <2>2 DEF TransitionMode, PromoteConfig, Rollback, EnableLive,
         LeaveLive, Take, Goto, Places, RunBusy, HaltBusy, HaltSteps, locals
  <2> QED
    BY <1>3, <2>1, <2>2 DEF Begin, Writes
<1>4. CASE SetHalt(t) \/ Snapshot(t) \/ SaveHalt(t) \/ ReadHalt(t)
  <2>1. at[t] \in HaltSteps /\ at'[t] \in HaltSteps /\ op'[t] = op[t]
    BY <1>0, <1>4 DEF SetHalt, Snapshot, SaveHalt, ReadHalt, Goto, Places, HaltSteps
  <2> QED
    BY <1>1, <1>2, <2>1 DEF RunBusy, HaltBusy, HaltSteps
<1>5. CASE SyncFlag(t)
  <2>1. /\ at[t] = "sync"
        /\ op[t] = "abnormal" => at'[t] = "saverun" /\ held'[t] = "stopped"
        /\ op[t] # "abnormal" => at'[t] \in {"idle", "daily", "stop"}
    BY <1>0, <1>5 DEF SyncFlag, Goto, Hold, Done, Places
  <2> QED
    BY <1>1, <1>2, <2>1 DEF RunBusy, HaltBusy, HaltSteps
<1>6. CASE SaveMode(t) \/ DisableLive(t)
  BY <1>0, <1>1, <1>2, <1>6 DEF SaveMode, DisableLive, Goto, Done, Places, RunBusy,
       HaltBusy, HaltSteps
<1>7. CASE ReadRun(t)
  BY <1>0, <1>1, <1>2, <1>7 DEF ReadRun, Goto, Hold, Places, RunBusy, HaltBusy, HaltSteps
<1>8. CASE CheckLocks(t) \/ CheckLive(t) \/ RecoverLive(t)
  <2>1. /\ at[t] \in {"idle", "ask", "liveon"}
        /\ at'[t] \in {"resume", "daily", "idle", "ask", "liveon", "liverun"}
    BY <1>0, <1>8 DEF CheckLocks, CheckLive, RecoverLive, AfterLive, Goto, Places
  <2> QED
    BY <1>1, <1>2, <2>1 DEF RunBusy, HaltBusy, HaltSteps
<1>9. CASE CycleStep(t)
  BY <1>0, <1>1, <1>2, <1>9 DEF CycleStep, DailyLoss, AskHalt, AskFlag, Goto, Places,
       RunBusy, HaltBusy, HaltSteps
<1> QED
  BY <1>3, <1>4, <1>5, <1>6, <1>7, <1>8, <1>9
     DEF Step, Serve, HaltStep, RunStep, LiveStep, Writes

(* The start that comes with live trading.                                   *)
LEMMA StartMakes ==
    ASSUME Typed, NEW t \in Thread, StartWithLive(t)
    PROVE  /\ UNCHANGED <<halt, flag, live, row, stop, op, to, held>>
           /\ at[t] = "liverun" /\ at'[t] \in {"ask", "idle"}
           /\ run' = "running" /\ runLoose' = (runLoose \/ run # "running")
           /\ overtaken' = (overtaken \/ stop \in {"memory", "saved"})
           /\ ~RunBusy(t) /\ ~RunBusy(t)' /\ ~HaltBusy(t) /\ ~HaltBusy(t)'
BY DEF StartWithLive, AfterLive, Goto, Typed, Places, RunBusy, HaltBusy, HaltSteps

LEMMA RunKeptStep ==
    ASSUME Typed, RunKept, NEW t \in Thread, Step(t) PROVE RunKept'
<1> SUFFICES ASSUME ~runLoose' PROVE (RunAlone /\ RunRest /\ \A u \in Thread : RunCarried(u))'
  BY DEF RunKept
<1>0. Places /\ row \in Row
  BY DEF Typed
<1>1. CASE Writes(t)
  <2>1. \A u \in Thread \ {t} : ~RunBusy(u)
    BY <1>1 DEF Writes, BeginAbnormal, BeginRun, Resume, NoteRun
  <2>2. \A u \in Thread \ {t} : ~RunBusy(u)'
    BY <1>0, <2>1, Others DEF RunBusy, HaltBusy
  <2>3. RunBusy(t)'
    BY <1>0, <1>1 DEF Writes, BeginAbnormal, BeginRun, Resume, Take, Goto, Places, RunBusy,
         HaltBusy, HaltSteps
  <2>4. RunCarried(t)'
    <3>1. CASE BeginAbnormal(t)
      BY <1>0, <3>1 DEF BeginAbnormal, Take, Goto, Places, RunCarried
    <3>2. CASE BeginRun(t)
      BY <1>0, <3>2 DEF BeginRun, Take, Goto, Places, RunCarried
    <3>3. CASE Resume(t)
      BY <1>0, <3>3 DEF Resume, Hold, Goto, Places, RunCarried
    <3> QED
      BY <1>1, <3>1, <3>2, <3>3 DEF Writes
  <2>5. \A u \in Thread \ {t} : RunCarried(u)'
    BY <2>2 DEF RunCarried, RunBusy, HaltBusy
  <2>6. RunAlone' /\ RunRest'
    BY <2>2, <2>3 DEF RunAlone, RunRest
  <2> QED
    BY <2>4, <2>5, <2>6
<1>2. CASE SaveRun(t)
  <2>1. at[t] = "saverun" /\ at'[t] \in {"idle", "daily"} /\ run' = run /\ ~runLoose
    BY <1>0, <1>2 DEF SaveRun, Goto, Done, Places, plane
  <2>2. row' = [halt |-> row.halt, mode |-> row.mode, run |-> held[t]]
    BY <1>0, <1>2, PutRun DEF SaveRun
  <2>3. RunCarried(t) /\ RunAlone /\ RunBusy(t)
    BY <2>1 DEF RunKept, RunBusy
  <2>4. row'.run = run'
    BY <2>1, <2>2, <2>3 DEF RunCarried
  <2>5. \A u \in Thread : ~RunBusy(u)'
    BY <1>0, <2>1, <2>3, Others DEF RunAlone, RunBusy, HaltBusy, HaltSteps
  <2> QED
    BY <2>4, <2>5 DEF RunAlone, RunRest, RunCarried, RunBusy, HaltBusy
<1>3. CASE EmergencyStop(t)
  BY <1>3 DEF EmergencyStop, DisableLive
<1>4. CASE StartWithLive(t)
  <2>1. ~runLoose /\ run = "running"
    BY <1>4, StartMakes, Zenon
  <2>2. UNCHANGED <<run, row, op, held>> /\ ~RunBusy(t) /\ ~RunBusy(t)'
    BY <1>4, <2>1, StartMakes
  <2>3. RunAlone /\ RunRest /\ \A u \in Thread : RunCarried(u)
    BY <2>1 DEF RunKept
  <2>4. \A u \in Thread : RunBusy(u)' <=> RunBusy(u)
    BY <1>0, <2>2, Others DEF RunBusy, HaltBusy
  <2>5. RunCarried(t)'
    BY <2>2 DEF RunCarried, RunBusy
  <2>6. \A u \in Thread \ {t} : RunCarried(u)'
    BY <1>0, <2>2, <2>3, Others DEF RunCarried, HaltBusy
  <2>7. RunRest'
    BY <2>2, <2>3, <2>4, Zenon DEF RunRest
  <2> QED
    BY <2>3, <2>4, <2>5, <2>6, <2>7 DEF RunAlone
<1>5. CASE ~Writes(t) /\ ~SaveRun(t) /\ ~EmergencyStop(t) /\ ~StartWithLive(t)
  <2>1. /\ run' = run /\ ~runLoose /\ row'.run = row.run
        /\ RunBusy(t)' <=> RunBusy(t)
        /\ op'[t] = "abnormal" /\ HaltBusy(t)' => op[t] = "abnormal" /\ HaltBusy(t)
        /\ at'[t] = "saverun" =>
               \/ at[t] = "readrun" /\ held'[t] = run
               \/ op[t] = "abnormal" /\ HaltBusy(t) /\ held'[t] = "stopped"
    BY <1>5, RunQuiet
  <2>2. RunAlone /\ RunRest /\ \A u \in Thread : RunCarried(u)
    BY <2>1 DEF RunKept
  <2>3. \A u \in Thread : RunBusy(u)' <=> RunBusy(u)
    BY <1>0, <2>1, Others DEF RunBusy, HaltBusy
  <2>4. RunCarried(t)'
    BY <2>1, <2>2 DEF RunCarried
  <2>5. \A u \in Thread \ {t} : RunCarried(u)'
    BY <1>0, <2>1, <2>2, Others DEF RunCarried, HaltBusy
  <2>6. RunRest'
    BY <2>1, <2>2, <2>3, Zenon DEF RunRest
  <2> QED
    BY <2>2, <2>3, <2>4, <2>5, <2>6 DEF RunAlone
<1> QED
  BY <1>1, <1>2, <1>3, <1>4, <1>5

LEMMA KeptStep ==
    Typed /\ ModeKept /\ RunKept /\ [Next]_vars => ModeKept' /\ RunKept'
<1> SUFFICES ASSUME Typed, ModeKept, RunKept, [Next]_vars PROVE ModeKept' /\ RunKept'
  OBVIOUS
<1>1. ASSUME NEW t \in Thread, Step(t) PROVE ModeKept' /\ RunKept'
  BY <1>1, ModeKeptStep, RunKeptStep
<1>2. CASE Restart
  <2>1. ModeOf(row') = ModeOf(row) /\ BootRow(row).run = RunOf(row)
    BY <1>2, RestartMakes, BootReads DEF Typed
  <2>2. ModeOf(row)' = mode' /\ row'.run = run'
    BY <1>2, <2>1, RestartMakes
  <2>3. \A u \in Thread : ~ModeBusy(u)' /\ ~RunBusy(u)' /\ ~HaltBusy(u)' /\ at'[u] = "idle"
    BY <1>2, RestartMakes DEF ModeBusy, RunBusy, HaltBusy, HaltSteps
  <2> QED
    BY <2>2, <2>3 DEF ModeKept, RunKept, RunAlone, RunRest, RunCarried
<1>3. CASE PauseLive \/ UNCHANGED vars
  <2>1. UNCHANGED <<at, op, to, held, mode, run, row, modeLoose, runLoose>>
    BY <1>3, PauseMoves DEF vars, plane, locals, runHist
  <2> QED
    BY <2>1 DEF ModeKept, ModeBusy, ModeOf, RunKept, RunAlone, RunRest, RunCarried, RunBusy,
         HaltBusy
<1> QED
  BY <1>1, <1>2, <1>3, NextIsStep

LEMMA InitKept == Init => ModeKept /\ RunKept
BY InitMakes DEF ModeKept, ModeBusy, RunKept, RunAlone, RunRest, RunCarried, RunBusy,
     HaltBusy, HaltSteps

LEMMA AllKept == Spec => [](Typed /\ Aligned /\ ModeKept /\ RunKept)
BY InitTyped, InitAligned, InitKept, TypedStep, AlignedStep, KeptStep, PTL DEF Spec

(* What the row holds would restore the plane as it is, whenever nothing is  *)
(* under way: halt, mode and run state, each until two of its writers        *)
(* overlapped or one wrote that saves nothing: a rollback, an emergency      *)
(* stop, a start that came with live trading.                                *)
THEOREM RowRestores == Spec => []RowRestoresPlane
<1>1. Aligned /\ ModeKept /\ RunKept => RowRestoresPlane
  BY DEF Aligned, HaltRest, ModeKept, ModeBusy, RunKept, RunRest, RowRestoresPlane
<1> QED
  BY <1>1, AllKept, PTL

-----------------------------------------------------------------------------
(* A stopped robot.                                                          *)

Halted == flag /\ (run = "running" => overtaken)

(* A stop that is saved stands in every place a boot would read, and nobody  *)
(* is about to write past it.                                                *)
SavedThread(t) ==
    /\ at[t] = "save" => held[t] = ALL
    /\ at[t] = "saverun" /\ held[t] = "running" => overtaken
    /\ at[t] # "readrun"
Saved ==
    /\ halt = ALL /\ HaltOf(row) = ALL
    /\ row.run = "stopped" \/ overtaken
    /\ \A t \in Thread : SavedThread(t)

(* A stop on its way to the row, while nobody else writes the run state.     *)
Way == {"snap", "save", "read", "sync", "saverun", "readrun"}
OnTheWay(t) == op[t] = "abnormal" /\ at[t] \in Way => halt = ALL

Stopping ==
    /\ stop # "none" => Halted
    /\ stop = "saved" => Saved
    /\ stop = "memory" /\ ~runLoose => \A t \in Thread : OnTheWay(t)

(* Nobody is past the checks of a resume but who was so at the stop.         *)
Past ==
    stop # "none" /\ ~overtaken =>
        /\ \A t \in Thread : at[t] # "resume"
        /\ stop = "emergency" =>
               live = "off" /\ \A t \in Thread : at[t] \notin {"liveon", "liverun"}

LEMMA StoppingHalt ==
    ASSUME Typed, Stopping, NEW t \in Thread, Step(t),
           HaltStep(t) \/ BeginFlag(t) \/ BeginSet(t)
    PROVE  Stopping'
<1>0. Places /\ row \in Row /\ Fits
  BY DEF Typed
<1>1. overtaken' = overtaken /\ run' = run /\ runLoose' = runLoose /\ stop' \in {stop, "none"}
  BY DEF HaltStep, BeginFlag, BeginSet, SetHalt, Snapshot, SaveHalt, ReadHalt, SyncFlag,
       plane, runHist
<1>2. stop' # "none" => flag' /\ (run' = "running" => overtaken')
  <2>1. \/ flag' = flag /\ stop' \in {stop, "none"}
        \/ stop' = stop /\ flag' = TRUE
        \/ stop' = "none"
    BY DEF HaltStep, BeginFlag, BeginSet, SetHalt, Snapshot, SaveHalt, ReadHalt, SyncFlag,
         plane, runHist
  <2>2. stop' # "none" => stop' = stop /\ flag'
    BY <2>1, <1>1 DEF Stopping, Halted
  <2>3. stop' # "none" => (run = "running" => overtaken)
    BY <2>2 DEF Stopping, Halted
  <2> QED
    BY <1>1, <2>2, <2>3
<1>3. CASE BeginFlag(t) \/ BeginSet(t)
  <2>1. /\ at'[t] = "halt" /\ halt' = halt /\ row' = row
    BY <1>0, <1>3 DEF BeginFlag, BeginSet, Take, Goto, Places, plane
  <2>2. HaltOf(row)' = HaltOf(row)
    BY <2>1
  <2>3. stop' = "saved" => Saved'
    <3>1. stop' = "saved" => Saved
      BY <1>1 DEF Stopping
    <3> QED
      BY <1>0, <1>1, <2>1, <2>2, <3>1, Others DEF Saved, SavedThread
  <2>4. stop' = "memory" /\ ~runLoose' => \A u \in Thread : OnTheWay(u)'
    BY <1>0, <1>1, <2>1, Others DEF Stopping, OnTheWay, Way
  <2> QED
    BY <1>2, <2>3, <2>4 DEF Stopping, Halted
<1>4. CASE SetHalt(t)
  <2>1. /\ at[t] = "halt" /\ at'[t] = "snap" /\ halt' = to[t] /\ row' = row
        /\ stop' # "none" => to[t] = ALL
        /\ HaltBusy(t)
    BY <1>0, <1>4 DEF SetHalt, Goto, Places, ALL, HaltBusy, HaltSteps
  <2>2. HaltOf(row)' = HaltOf(row)
    BY <2>1
  <2>3. stop' = "saved" => Saved'
    <3>1. stop' = "saved" => Saved
      BY <1>1 DEF Stopping
    <3> QED
      BY <1>0, <1>1, <2>1, <2>2, <3>1, Others DEF Saved, SavedThread
  <2>4. stop' = "memory" /\ ~runLoose' => \A u \in Thread : OnTheWay(u)'
    BY <1>0, <1>1, <2>1, Others DEF Stopping, OnTheWay, Way
  <2> QED
    BY <1>2, <2>3, <2>4 DEF Stopping, Halted
<1>5. CASE Snapshot(t)
  <2>1. /\ at[t] = "snap" /\ at'[t] = "save" /\ halt' = halt /\ row' = row
        /\ held'[t] = halt /\ op' = op
    BY <1>0, <1>5 DEF Snapshot, Goto, Hold, Places, plane
  <2>2. HaltOf(row)' = HaltOf(row)
    BY <2>1
  <2>3. stop' = "saved" => Saved'
    <3>1. stop' = "saved" => Saved
      BY <1>1 DEF Stopping
    <3> QED
      BY <1>0, <1>1, <2>1, <2>2, <3>1, Others DEF Saved, SavedThread
  <2>4. stop' = "memory" /\ ~runLoose' => \A u \in Thread : OnTheWay(u)'
    BY <1>0, <1>1, <2>1, Others DEF Stopping, OnTheWay, Way
  <2> QED
    BY <1>2, <2>3, <2>4 DEF Stopping, Halted
<1>6. CASE SaveHalt(t)
  <2>1. /\ at[t] = "save" /\ at'[t] = "read" /\ halt' = halt /\ op' = op
    BY <1>0, <1>6 DEF SaveHalt, Goto, Places, plane
  <2>2. row' = [halt |-> held[t], mode |-> row.mode, run |-> row.run]
    BY <1>0, <1>6, PutHalt DEF SaveHalt
  <2>3. row'.halt = held[t] /\ row'.run = row.run
    BY <2>2
  <2>4. stop' = "saved" => Saved'
    <3>1. stop' = "saved" => Saved
      BY <1>1 DEF Stopping
    <3>2. stop' = "saved" => held[t] = ALL
      BY <2>1, <3>1 DEF Saved, SavedThread
    <3>3. held[t] = ALL => HaltOf(row)' = ALL
      BY <2>3 DEF HaltOf, ALL
    <3> QED
      BY <1>0, <1>1, <2>1, <2>3, <3>1, <3>2, <3>3, Others DEF Saved, SavedThread
  <2>5. stop' = "memory" /\ ~runLoose' => \A u \in Thread : OnTheWay(u)'
    BY <1>0, <1>1, <2>1, Others DEF Stopping, OnTheWay, Way
  <2> QED
    BY <1>2, <2>4, <2>5 DEF Stopping, Halted
<1>7. CASE ReadHalt(t)
  <2>1. /\ at[t] = "read" /\ at'[t] = "sync" /\ halt' = halt /\ row' = row /\ op' = op
    BY <1>0, <1>7 DEF ReadHalt, Goto, Places, plane
  <2>2. HaltOf(row)' = HaltOf(row)
    BY <2>1
  <2>3. stop' = "saved" => Saved'
    <3>1. stop' = "saved" => Saved
      BY <1>1 DEF Stopping
    <3> QED
      BY <1>0, <1>1, <2>1, <2>2, <3>1, Others DEF Saved, SavedThread
  <2>4. stop' = "memory" /\ ~runLoose' => \A u \in Thread : OnTheWay(u)'
    BY <1>0, <1>1, <2>1, Others DEF Stopping, OnTheWay, Way
  <2> QED
    BY <1>2, <2>3, <2>4 DEF Stopping, Halted
<1>8. CASE SyncFlag(t)
  <2>1. /\ at[t] = "sync" /\ at'[t] \in {"idle", "daily", "stop", "saverun"}
        /\ halt' = halt /\ row' = row
        /\ at'[t] = "saverun" => held'[t] = "stopped" /\ op[t] = "abnormal"
    BY <1>0, <1>8 DEF SyncFlag, Goto, Hold, Done, Places
  <2>2. HaltOf(row)' = HaltOf(row)
    BY <2>1
  <2>3. stop' = "saved" => Saved'
    <3>1. stop' = "saved" => Saved
      BY <1>1 DEF Stopping
    <3> QED
      BY <1>0, <1>1, <2>1, <2>2, <3>1, Others DEF Saved, SavedThread
  <2>4. stop' = "memory" /\ ~runLoose' => \A u \in Thread : OnTheWay(u)'
    BY <1>0, <1>1, <2>1, Others DEF Stopping, OnTheWay, Way
  <2> QED
    BY <1>2, <2>3, <2>4 DEF Stopping, Halted
<1> QED
  BY <1>3, <1>4, <1>5, <1>6, <1>7, <1>8 DEF HaltStep

LEMMA StoppingWrites ==
    ASSUME Typed, Stopping, Past, NEW t \in Thread, Step(t),
           Writes(t) \/ EmergencyStop(t) \/ DisableLive(t) \/ StartWithLive(t)
    PROVE  Stopping'
<1>0. Places /\ Notes
  BY DEF Typed
<1>1. CASE BeginAbnormal(t)
  <2>1. /\ flag' = TRUE /\ run' = "stopped" /\ stop' = "memory" /\ at'[t] = "halt"
    BY <1>0, <1>1 DEF BeginAbnormal, Goto, Places
  <2>2. ~runLoose' => \A u \in Thread \ {t} : ~RunBusy(u)
    BY <1>1 DEF BeginAbnormal, NoteRun
  <2>3. ~runLoose' => \A u \in Thread : OnTheWay(u)'
    BY <1>0, <2>1, <2>2, Others DEF OnTheWay, Way, RunBusy, HaltBusy, HaltSteps
  <2> QED
    BY <2>1, <2>3 DEF Stopping, Halted
<1>2. CASE BeginRun(t)
  <2>1. stop' = "none"
    BY <1>2 DEF BeginRun
  <2> QED
    BY <2>1 DEF Stopping
<1>3. CASE Resume(t)
  <2>1. /\ flag' = flag /\ overtaken' = overtaken /\ stop' = stop
        /\ halt' = halt /\ row' = row /\ op'[t] = "resume" /\ at'[t] = "saverun"
        /\ at[t] = "resume"
    BY <1>0, <1>3 DEF Resume, Goto, Places
  <2>2. stop # "none" => overtaken'
    BY <2>1 DEF Past
  <2>3. HaltOf(row)' = HaltOf(row)
    BY <2>1
  <2>4. stop' # "none" => Halted'
    BY <2>1, <2>2 DEF Stopping, Halted
  <2>5. stop' = "saved" => Saved'
    <3>1. stop' = "saved" => Saved /\ overtaken'
      BY <2>1, <2>2 DEF Stopping
    <3> QED
      BY <1>0, <2>1, <2>3, <3>1, Others DEF Saved, SavedThread
  <2>6. ~runLoose' => \A u \in Thread \ {t} : ~RunBusy(u)
    BY <1>3 DEF Resume, NoteRun
  <2>7. ~runLoose' => \A u \in Thread : at'[u] \in {"saverun", "readrun"} => u = t
    BY <1>0, <2>6, Others DEF RunBusy
  <2>8. ~runLoose' => \A u \in Thread \ {t} : op'[u] = "abnormal" => at'[u] \notin HaltSteps
    BY <1>0, <2>6, Others DEF RunBusy, HaltBusy
  <2>9. ~runLoose' => \A u \in Thread : OnTheWay(u)'
    BY <2>1, <2>7, <2>8 DEF OnTheWay, Way, HaltSteps
  <2> QED
    BY <2>4, <2>5, <2>9 DEF Stopping
<1>4. CASE EmergencyStop(t)
  <2>1. /\ flag' = flag /\ run' = "stopped" /\ runLoose' /\ stop' = stop
        /\ overtaken' = overtaken /\ halt' = halt /\ row' = row
        /\ at[t] = "stop" /\ at'[t] = "disable"
    BY <1>0, <1>4 DEF EmergencyStop, Goto, Places
  <2>2. HaltOf(row)' = HaltOf(row)
    BY <2>1
  <2>3. stop' = "saved" => Saved'
    <3>1. stop' = "saved" => Saved
      BY <2>1 DEF Stopping
    <3> QED
      BY <1>0, <2>1, <2>2, <3>1, Others DEF Saved, SavedThread
  <2> QED
    BY <2>1, <2>3 DEF Stopping, Halted
<1>5. CASE DisableLive(t)
  <2>1. /\ flag' = flag /\ run' = run
        /\ stop' = IF flag THEN "emergency" ELSE "none"
        /\ run = "running" => overtaken'
    BY <1>5 DEF DisableLive
  <2> QED
    BY <2>1 DEF Stopping, Halted
<1>6. CASE StartWithLive(t)
  <2>1. /\ flag' = flag /\ halt' = halt /\ row' = row /\ stop' = stop
        /\ at[t] = "liverun" /\ at'[t] \in {"ask", "idle"}
        /\ overtaken' = (overtaken \/ stop \in {"memory", "saved"})
        /\ runLoose' = (runLoose \/ run # "running")
    BY <1>6, StartMakes
  <2>2. stop # "none" => overtaken'
    BY <2>1 DEF Past, Typed, Limits
  <2>3. HaltOf(row)' = HaltOf(row)
    BY <2>1
  <2>4. stop' = "saved" => Saved'
    <3>1. stop' = "saved" => Saved /\ overtaken'
      BY <2>1, <2>2 DEF Stopping
    <3> QED
      BY <1>0, <2>1, <2>3, <3>1, Others DEF Saved, SavedThread
  <2>5. ~runLoose' => ~runLoose
    BY <2>1, Zenon
  <2>6. stop' = "memory" /\ ~runLoose' => \A u \in Thread : OnTheWay(u)'
    BY <1>0, <2>1, <2>5, Others DEF Stopping, OnTheWay, Way
  <2>7. stop' # "none" => flag'
    BY <2>1 DEF Stopping, Halted
  <2> QED
    BY <2>1, <2>2, <2>4, <2>6, <2>7 DEF Stopping, Halted
<1> QED
  BY <1>1, <1>2, <1>3, <1>4, <1>5, <1>6 DEF Writes

LEMMA StoppingSave ==
    ASSUME Typed, Aligned, RunKept, Stopping, NEW t \in Thread, Step(t), SaveRun(t)
    PROVE  Stopping'
<1>0. Places /\ row \in Row
  BY DEF Typed
<1>1. /\ at[t] = "saverun" /\ at'[t] \in {"idle", "daily"}
      /\ halt' = halt /\ flag' = flag /\ run' = run /\ overtaken' = overtaken
      /\ runLoose' = runLoose
  BY <1>0 DEF SaveRun, Goto, Done, Places, plane
<1>2. row' = [halt |-> row.halt, mode |-> row.mode, run |-> held[t]]
  BY <1>0, PutRun DEF SaveRun
<1>3. row'.halt = row.halt /\ row'.run = held[t]
  BY <1>2
<1>4. HaltOf(row)' = HaltOf(row)
  BY <1>3 DEF HaltOf
<1>5. stop' = stop \/ (/\ op[t] = "abnormal" /\ stop = "memory" /\ stop' = "saved"
                       /\ ~runLoose /\ ~crossed /\ HaltOf(row) = ALL)
  BY DEF SaveRun, ALL
<1>6. CASE stop' = stop
  <2>1. stop' = "saved" => Saved /\ (held[t] = "running" => overtaken)
    BY <1>1, <1>6 DEF Stopping, Saved, SavedThread
  <2>2. held[t] \in Run
    BY <1>1 DEF Typed, Fits
  <2>3. stop' = "saved" => Saved'
    BY <1>0, <1>1, <1>3, <1>4, <2>1, <2>2, Others DEF Saved, SavedThread, Run
  <2>4. stop' = "memory" /\ ~runLoose' => \A u \in Thread : OnTheWay(u)'
    BY <1>0, <1>1, <1>6, Others DEF Stopping, OnTheWay, Way
  <2> QED
    BY <1>1, <1>6, <2>3, <2>4 DEF Stopping, Halted
<1>7. CASE /\ op[t] = "abnormal" /\ stop = "memory" /\ stop' = "saved"
           /\ ~runLoose /\ ~crossed /\ HaltOf(row) = ALL
  <2>1. halt = ALL /\ Halted
    BY <1>1, <1>7 DEF Stopping, OnTheWay, Way
  <2>2. /\ held[t] = run
        /\ \A u \in Thread \ {t} : at[u] \notin {"saverun", "readrun"}
    BY <1>1, <1>7 DEF RunKept, RunAlone, RunCarried, RunBusy
  <2>3. \A u \in Thread : at[u] = "save" => held[u] = ALL
    BY <1>7, <2>1 DEF Aligned, InLine
  <2>4. row'.run = "stopped" \/ overtaken
    BY <1>3, <2>1, <2>2 DEF Halted, Typed, Plane, Run
  <2>5. \A u \in Thread : SavedThread(u)'
    BY <1>0, <1>1, <2>2, <2>3, Others DEF SavedThread
  <2>6. Saved'
    BY <1>1, <1>4, <1>7, <2>1, <2>4, <2>5 DEF Saved
  <2> QED
    BY <1>1, <1>7, <2>1, <2>6 DEF Stopping, Halted
<1> QED
  BY <1>5, <1>6, <1>7

LEMMA StoppingOthers ==
    ASSUME Typed, Stopping, NEW t \in Thread, Step(t), ~HaltStep(t), ~Opens(t), ~Writes(t),
           ~EmergencyStop(t), ~DisableLive(t), ~StartWithLive(t), ~SaveRun(t)
    PROVE  Stopping'
<1>0. Places /\ row \in Row
  BY DEF Typed
<1>1. /\ halt' = halt /\ flag' = flag /\ HaltOf(row)' = HaltOf(row)
      /\ run' = run /\ row'.run = row.run /\ runLoose' = runLoose
      /\ at[t] \notin HaltSteps /\ at'[t] \notin HaltSteps
      /\ at'[t] = "saverun" => at[t] = "readrun" /\ held'[t] = run
  BY Quiet, RunQuiet DEF HaltBusy
<1>2. (overtaken => overtaken') /\ stop' = stop
  <2>1. /\ stop' = stop
        /\ overtaken' = overtaken \/ overtaken' = (overtaken \/ stop # "none")
    BY DEF Step, Begin, Opens, Writes, TransitionMode, PromoteConfig, Rollback, EnableLive,
       LeaveLive, Serve, HaltStep, SaveMode, ReadRun, RunStep, CheckLocks, LiveStep,
       CheckLive, RecoverLive, AfterLive, CycleStep, DailyLoss, AskHalt, AskFlag, runHist
  <2>2. CASE overtaken' = overtaken
    BY <2>1, <2>2
  <2>3. CASE overtaken' = (overtaken \/ stop # "none")
    BY <2>1, <2>3
  <2> QED
    BY <2>1, <2>2, <2>3
<1>3. at'[t] # "readrun"
  <2>1. CASE Begin(t)
    <3>1. CASE TransitionMode(t)
      BY <1>0, <3>1 DEF TransitionMode, Goto, Places
    <3>2. CASE PromoteConfig(t) \/ Rollback(t) \/ EnableLive(t) \/ LeaveLive(t)
      BY <1>0, <3>2 DEF PromoteConfig, Rollback, EnableLive, LeaveLive, Goto, Places, locals
    <3> QED
      BY <2>1, <3>1, <3>2 DEF Begin, Opens, Writes
  <2>2. CASE Serve(t)
    BY <1>0, <2>2 DEF Serve, SaveMode, ReadRun, Goto, Done, Places
  <2>3. CASE RunStep(t)
    BY <1>0, <2>3 DEF RunStep, Writes, CheckLocks, LiveStep, CheckLive, RecoverLive,
         AfterLive, Goto, Places
  <2>4. CASE CycleStep(t)
    BY <1>0, <2>4 DEF CycleStep, DailyLoss, AskHalt, AskFlag, Goto, Places
  <2> QED
    BY <2>1, <2>2, <2>3, <2>4 DEF Step
<1>4. op'[t] = "abnormal" /\ at'[t] = "saverun" => op[t] = "abnormal" /\ at[t] = "readrun"
  <2>1. at'[t] = "saverun" => ReadRun(t)
    <3>1. CASE Begin(t)
      BY <1>0, <3>1 DEF Begin, Opens, Writes, TransitionMode, PromoteConfig, Rollback,
           EnableLive, LeaveLive, Take, Goto, Places, locals
    <3>2. CASE Serve(t)
      BY <1>0, <3>2 DEF Serve, SaveMode, ReadRun, Goto, Done, Places
    <3>3. CASE RunStep(t)
      BY <1>0, <3>3 DEF RunStep, Writes, CheckLocks, LiveStep, CheckLive, RecoverLive,
           AfterLive, Goto, Places
    <3>4. CASE CycleStep(t)
      BY <1>0, <3>4 DEF CycleStep, DailyLoss, AskHalt, AskFlag, Goto, Places
    <3> QED
      BY <3>1, <3>2, <3>3, <3>4 DEF Step
  <2> QED
    BY <1>0, <1>1, <2>1 DEF ReadRun
<1>5. stop' = "saved" => Saved'
  <2>1. stop' = "saved" => Saved
    BY <1>2 DEF Stopping
  <2>2. stop' = "saved" => SavedThread(t)'
    BY <1>1, <1>3, <2>1 DEF Saved, SavedThread, HaltSteps
  <2> QED
    BY <1>0, <1>1, <1>2, <2>1, <2>2, Others DEF Saved, SavedThread
<1>6. stop' = "memory" /\ ~runLoose' => \A u \in Thread : OnTheWay(u)'
  <2>1. stop' = "memory" /\ ~runLoose' => \A u \in Thread : OnTheWay(u)
    BY <1>1, <1>2 DEF Stopping
  <2>2. stop' = "memory" /\ ~runLoose' => OnTheWay(t)'
    BY <1>1, <1>3, <1>4, <2>1 DEF OnTheWay, Way, HaltSteps
  <2> QED
    BY <1>0, <1>1, <2>1, <2>2, Others DEF OnTheWay
<1> QED
  BY <1>1, <1>2, <1>5, <1>6 DEF Stopping, Halted

(* What a thread does to the history of the stop and to live trading.        *)
LEMMA PastMoves ==
    ASSUME Typed, NEW t \in Thread, Step(t), ~BeginAbnormal(t), ~DisableLive(t)
    PROVE  /\ overtaken => overtaken'
           /\ stop' \in {stop, "none"} \/ (stop = "memory" /\ stop' = "saved")
           /\ at'[t] = "resume" => ~flag
           /\ at'[t] \in {"liveon", "liverun"} =>
                  live = "waiting" \/ at[t] = "liveon" \/ (stop # "none" => overtaken')
           /\ live' \in {live, "off"} \/ at[t] = "liveon" \/ (stop # "none" => overtaken')
<1>0. Places
  BY DEF Typed
<1>1. CASE Begin(t)
  <2>1. CASE EnableLive(t)
    <3>1. /\ stop' = stop /\ at'[t] = "liverun"
          /\ overtaken' = (overtaken \/ stop # "none")
      BY <1>0, <2>1 DEF EnableLive, Goto, Places
    <3> QED
      BY <3>1
  <2>2. CASE ~EnableLive(t)
    <3>1. overtaken' = overtaken /\ stop' \in {stop, "none"} /\ live' \in {live, "off"}
      BY <1>1, <2>2 DEF Begin, BeginFlag, BeginSet, BeginRun, TransitionMode,
           PromoteConfig, Rollback, LeaveLive, plane, runHist
    <3>2. at'[t] \in {"idle", "halt", "readrun", "savemode"}
      BY <1>0, <1>1, <2>2 DEF Begin, BeginFlag, BeginSet, BeginRun, TransitionMode,
           PromoteConfig, Rollback, LeaveLive, Take, Goto, Places, locals
    <3> QED
      BY <3>1, <3>2
  <2> QED
    BY <2>1, <2>2
<1>2. CASE Serve(t)
  <2>1. overtaken' = overtaken /\ stop' \in {stop, "none"} /\ live' = live
    BY <1>2 DEF Serve, HaltStep, SetHalt, Snapshot, SaveHalt, ReadHalt, SyncFlag,
         EmergencyStop, SaveMode, ReadRun, plane, runHist
  <2>2. at'[t] \in At \ {"resume", "liveon", "liverun"}
    BY <1>0, <1>2 DEF Serve, HaltStep, SetHalt, Snapshot, SaveHalt, ReadHalt, SyncFlag,
         EmergencyStop, SaveMode, ReadRun, Goto, Done, Places, At, HaltSteps
  <2> QED
    BY <2>1, <2>2
<1>3. CASE CheckLocks(t)
  BY <1>0, <1>3 DEF CheckLocks, LaunchLocksPass, Goto, Places, plane, runHist
<1>4. CASE Resume(t) \/ SaveRun(t)
  <2>1. at'[t] \in {"saverun", "idle", "daily"} /\ live' = live
    BY <1>0, <1>4 DEF Resume, SaveRun, Goto, Done, Places, plane
  <2>2. overtaken' = overtaken
    BY <1>4 DEF Resume, SaveRun
  <2>3. stop' = stop \/ (stop = "memory" /\ stop' = "saved")
    BY <1>4 DEF Resume, SaveRun
  <2> QED
    BY <2>1, <2>2, <2>3
<1>5. CASE CheckLive(t)
  BY <1>0, <1>5 DEF CheckLive, Goto, Places, plane, runHist
<1>6. CASE RecoverLive(t)
  BY <1>0, <1>6 DEF RecoverLive, AfterLive, Goto, Places, runHist
<1>7. CASE StartWithLive(t)
  BY <1>0, <1>7, StartMakes
<1>8. CASE t = Cycle /\ CycleStep(t)
  BY <1>0, <1>8 DEF CycleStep, DailyLoss, AskHalt, AskFlag, Goto, Places, plane, runHist
<1> QED
  BY <1>1, <1>2, <1>3, <1>4, <1>5, <1>6, <1>7, <1>8 DEF Step, RunStep, LiveStep

LEMMA PastStep == Typed /\ Stopping /\ Past /\ [Next]_vars => Past'
<1> SUFFICES ASSUME Typed, Stopping, Past, [Next]_vars, stop' # "none", ~overtaken'
             PROVE  /\ \A u \in Thread : at'[u] # "resume"
                    /\ stop' = "emergency" =>
                           /\ live' = "off"
                           /\ \A u \in Thread : at'[u] \notin {"liveon", "liverun"}
  BY DEF Past
<1>0. Places /\ Limits
  BY DEF Typed
<1>1. ASSUME NEW t \in Thread, BeginAbnormal(t), Step(t)
      PROVE  (\A u \in Thread : at'[u] # "resume") /\ stop' # "emergency"
  <2>1. /\ stop' = "memory" /\ at'[t] = "halt"
        /\ \A u \in Thread \ {t} : at[u] # "resume"
    BY <1>0, <1>1 DEF BeginAbnormal, Resuming, Goto, Places
  <2> QED
    BY <1>0, <1>1, <2>1, Others
<1>2. ASSUME NEW t \in Thread, DisableLive(t), Step(t)
      PROVE  /\ \A u \in Thread : at'[u] \notin {"resume", "liveon", "liverun"}
             /\ live' = "off"
  <2>1. /\ live' = "off" /\ at'[t] \in {"idle", "daily"}
        /\ \A u \in Thread : at[u] \notin {"resume", "liveon", "liverun"}
    BY <1>0, <1>2 DEF DisableLive, Resuming, Done, Goto, Places
  <2> QED
    BY <1>0, <1>2, <2>1, Others
<1>3. ASSUME NEW t \in Thread, Step(t), ~BeginAbnormal(t), ~DisableLive(t)
      PROVE  /\ \A u \in Thread : at'[u] # "resume"
             /\ stop' = "emergency" =>
                    /\ live' = "off"
                    /\ \A u \in Thread : at'[u] \notin {"liveon", "liverun"}
  <2>1. stop # "none" /\ ~overtaken /\ (stop' = "emergency" => stop = "emergency")
    BY <1>3, PastMoves
  <2>2. flag /\ \A u \in Thread : at[u] # "resume"
    BY <2>1 DEF Stopping, Halted, Past
  <2>3. at'[t] # "resume"
    BY <1>3, <2>2, PastMoves
  <2>4. stop' = "emergency" =>
            live = "off" /\ \A u \in Thread : at[u] \notin {"liveon", "liverun"}
    BY <2>1 DEF Past
  <2>5. stop' = "emergency" => live' = "off" /\ at'[t] \notin {"liveon", "liverun"}
    BY <1>3, <2>1, <2>4, PastMoves
  <2> QED
    BY <1>0, <1>3, <2>2, <2>3, <2>4, <2>5, Others
<1>4. CASE Restart
  <2>1. (\A u \in Thread : at'[u] = "idle") /\ stop' # "emergency"
    BY <1>4, RestartMakes DEF Restart
  <2> QED
    BY <2>1
<1>5. CASE PauseLive
  BY <1>5, PauseMoves DEF Past
<1>6. CASE UNCHANGED vars
  BY <1>6 DEF Past, vars, plane, locals, runHist
<1> QED
  BY <1>1, <1>2, <1>3, <1>4, <1>5, <1>6, NextIsStep

LEMMA StoppingStep ==
    Typed /\ Aligned /\ RunKept /\ Stopping /\ Past /\ [Next]_vars => Stopping'
<1> SUFFICES ASSUME Typed, Aligned, RunKept, Stopping, Past, [Next]_vars PROVE Stopping'
  OBVIOUS
<1>1. ASSUME NEW t \in Thread, Step(t) PROVE Stopping'
  BY <1>1, StoppingHalt, StoppingWrites, StoppingSave, StoppingOthers DEF Opens, Writes
<1>2. CASE Restart
  <2>1. /\ HaltOf(row') = HaltOf(row) /\ BootRow(row).run = RunOf(row)
    BY <1>2, RestartMakes, BootReads DEF Typed
  <2>2. /\ HaltOf(row)' = HaltOf(row) /\ halt' = HaltOf(row) /\ run' = RunOf(row)
        /\ flag' = (HaltOf(row) = ALL) /\ row'.run = run'
        /\ overtaken' = overtaken /\ stop' = IF stop = "saved" THEN "saved" ELSE "none"
        /\ \A u \in Thread : at'[u] = "idle"
    BY <1>2, <2>1, RestartMakes DEF Restart, ALL
  <2>3. stop = "saved" => Saved
    BY DEF Stopping
  <2>4. stop = "saved" => RunOf(row) = row.run
    BY <2>3 DEF Saved, RunOf, LaunchLocksPass, ALL
  <2>5. stop = "saved" => Halted' /\ Saved'
    BY <2>2, <2>3, <2>4 DEF Saved, SavedThread, Halted
  <2> QED
    BY <2>2, <2>5 DEF Stopping
<1>3. CASE PauseLive \/ UNCHANGED vars
  <2>1. UNCHANGED <<at, op, held, halt, flag, run, row, stop, runLoose, overtaken>>
    BY <1>3, PauseMoves DEF vars, plane, locals, runHist
  <2> QED
    BY <2>1 DEF Stopping, Halted, Saved, SavedThread, OnTheWay, HaltOf
<1> QED
  BY <1>1, <1>2, <1>3, NextIsStep

(* A robot stopped by an emergency stop or an abnormal execution stays       *)
(* stopped while the kill flag stands, over a restart too once an abnormal   *)
(* stop is saved.  Only who was past the checks of a resume at the stop gets *)
(* past it, the owner who enables live trading again and, after an abnormal  *)
(* execution, a recovery of live trading.                                    *)
THEOREM StoppedStays == Spec => []StoppedRobotStays
<1>1. Init => Stopping /\ Past
  BY DEF Init, Stopping, Past
<1>2. Stopping => StoppedRobotStays
  BY DEF Stopping, Halted, StoppedRobotStays
<1> QED
  BY <1>1, <1>2, InitTyped, InitAligned, InitKept, TypedStep, AlignedStep, KeptStep,
     StoppingStep, PastStep, PTL DEF Spec
=============================================================================
