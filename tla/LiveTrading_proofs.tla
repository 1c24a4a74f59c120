--------------------------- MODULE LiveTrading_proofs ---------------------------
(* What LiveTrading guarantees for any threads, old rows and bounds.         *)
EXTENDS LiveTrading, TLAPS

-----------------------------------------------------------------------------
(* Types.                                                                    *)

Controller ==
    state \in State /\ safety \in BOOLEAN /\ ownerPaused \in BOOLEAN /\ latched \in BOOLEAN

Places ==
    /\ at \in [Thread -> At] /\ snap \in [Thread -> Row]
    /\ facts \in [Cycle -> BOOLEAN] /\ acted \in [Cycle -> BOOLEAN]
    /\ row \in Row

Outside ==
    /\ env \in Env /\ hold \in Hold
    /\ ops \in 0..MaxOps /\ turns \in 0..MaxTurns /\ restarts \in 0..MaxRestarts

Notes == late \in BOOLEAN /\ killed \in BOOLEAN /\ loose \in BOOLEAN

Typed == Controller /\ Places /\ Outside /\ Notes

LEMMA TypedIsTypeOK == Typed => TypeOK
BY Zenon DEF Typed, Controller, Places, Outside, Notes, TypeOK

(* The two ways a controller moves, and the one that leaves it alone.        *)
LEMMA MoveTyped ==
    ASSUME Controller, NEW w \in State, Move(w)
    PROVE  Controller'
<1>1. state' \in State
  BY DEF Move
<1>2. latched' \in BOOLEAN
  BY Zenon DEF Move
<1>3. safety' \in BOOLEAN
  BY Zenon DEF Move
<1>4. ownerPaused' \in BOOLEAN
  BY DEF Move, Controller
<1> QED
  BY <1>1, <1>2, <1>3, <1>4, Zenon DEF Controller

LEMMA PauseTyped == ASSUME Controller, SafetyPause PROVE Controller'
<1>1. state' = "PAUSED" /\ safety' = TRUE
  BY DEF SafetyPause
<1>2. state' \in State
  BY <1>1 DEF State
<1>3. safety' \in BOOLEAN
  BY <1>1, Zenon
<1>4. ownerPaused' \in BOOLEAN /\ latched' \in BOOLEAN
  BY Zenon DEF SafetyPause, Controller
<1> QED
  BY <1>2, <1>3, <1>4, Zenon DEF Controller

LEMMA EmergencyTyped == ASSUME Controller, EmergencyDisable PROVE Controller'
<1>1. state' = "DISABLED" /\ safety' = FALSE /\ latched' = TRUE
  BY DEF EmergencyDisable
<1>2. state' \in State
  BY <1>1 DEF State
<1>3. safety' \in BOOLEAN /\ latched' \in BOOLEAN
  BY <1>1, Zenon
<1>4. ownerPaused' \in BOOLEAN
  BY Zenon DEF EmergencyDisable, Controller
<1> QED
  BY <1>2, <1>3, <1>4, Zenon DEF Controller

LEMMA CtrlStays == ASSUME Controller, UNCHANGED ctrl PROVE Controller'
<1>1. state' = state /\ safety' = safety /\ ownerPaused' = ownerPaused /\ latched' = latched
  BY DEF ctrl
<1> QED
  BY <1>1, Zenon DEF Controller

(* What a row restores.                                                      *)
LEMMA HydratedTyped ==
    ASSUME NEW r \in Row
    PROVE  /\ Hydrated(r).state \in State /\ Hydrated(r).safety \in BOOLEAN
           /\ Hydrated(r).ownerPaused \in BOOLEAN /\ Hydrated(r).latched \in BOOLEAN
           /\ HydratedRow(r) \in Row /\ HoldOf(r) \in Hold
<1>1. r.state \in State /\ r.latched \in BOOLEAN
  BY DEF Row
<1>2. /\ Hydrated(r).state = Recover(r.state) /\ Hydrated(r).safety = (r.state = "ENABLED")
      /\ Hydrated(r).ownerPaused = (r.state = "PAUSED")
      /\ Hydrated(r).latched = (r.latched /\ Recover(r.state) = "DISABLED")
  BY DEF Hydrated
<1>3. Recover(r.state) \in State
  BY <1>1 DEF Recover, State
<1>4. (r.state = "ENABLED") \in BOOLEAN /\ (r.state = "PAUSED") \in BOOLEAN
      /\ (r.latched /\ Recover(r.state) = "DISABLED") \in BOOLEAN
  BY Zenon
<1>5. Hydrated(r).safety \in BOOLEAN
  BY <1>2, <1>4, Zenon
<1>6. Hydrated(r).ownerPaused \in BOOLEAN
  BY <1>2, <1>4, Zenon
<1>7. Hydrated(r).latched \in BOOLEAN
  BY <1>2, <1>4, Zenon
<1>8. HydratedRow(r) \in Row
  BY <1>3, <1>7 DEF HydratedRow, Row
<1>9. HoldOf(r) \in Hold
  BY DEF HoldOf, Hold
<1> QED
  BY <1>2, <1>3, <1>5, <1>6, <1>7, <1>8, <1>9, Zenon

LEMMA DurableTyped == ASSUME Controller PROVE [state |-> Durable, latched |-> latched] \in Row
BY DEF Controller, Durable, State, Row

LEMMA NoRowTyped == NoRow \in Row
BY DEF NoRow, Row, State

(* A save replaces the whole row.                                            *)
LEMMA PutReplaces ==
    ASSUME NEW p \in Row, row \in Row, Store!Put(p)
    PROVE  row' = p
<1>1. p = [k \in {"state", "latched"} |-> p[k]]
  BY DEF Row
<1>2. DOMAIN p = {"state", "latched"}
  BY DEF Row
<1>3. row' = [k \in {"state", "latched"} |-> p[k]]
  BY <1>2 DEF Store!Put
<1> QED
  BY <1>1, <1>3

LEMMA NoteTyped ==
    ASSUME NEW h \in Hold, NoteHold(h)
    PROVE  hold' \in Hold /\ late' \in BOOLEAN /\ acted' \in [Cycle -> BOOLEAN]
<1>1. late' = FALSE /\ acted' = [c \in Cycle |-> TRUE] /\ hold' = h
  BY DEF NoteHold
<1>2. late' \in BOOLEAN
  BY <1>1, Zenon
<1> QED
  BY <1>1, <1>2

LEMMA GotoTyped ==
    ASSUME Typed, NEW t \in Thread, NEW l \in At, Goto(t, l)
    PROVE  at' \in [Thread -> At]
BY DEF Goto, Typed, Places

LEMMA TypedInit == Init => Typed
<1> SUFFICES ASSUME Init PROVE Typed
  OBVIOUS
<1>1. PICK r \in OldRows :
        /\ state = Hydrated(r).state /\ safety = Hydrated(r).safety
        /\ ownerPaused = Hydrated(r).ownerPaused /\ latched = Hydrated(r).latched
        /\ row = HydratedRow(r) /\ hold = HoldOf(r)
  BY DEF Init
<1>2. r \in Row
  BY <1>1, RowAssumption
<1>3. Controller
  BY <1>1, <1>2, HydratedTyped, Zenon DEF Controller
<1>4. row \in Row /\ hold \in Hold
  BY <1>1, <1>2, HydratedTyped
<1>5. /\ at = [t \in Thread |-> "idle"] /\ snap = [t \in Thread |-> NoRow]
      /\ facts = [c \in Cycle |-> FALSE] /\ acted = [c \in Cycle |-> FALSE]
      /\ env \in Env /\ ops = 0 /\ turns = 0 /\ restarts = 0
      /\ late = FALSE /\ killed = FALSE /\ loose = FALSE
  BY DEF Init
<1>6. Places
  BY <1>4, <1>5, NoRowTyped DEF Places, At
<1>7. Outside
  BY <1>4, <1>5, BoundAssumption DEF Outside
<1>8. Notes
  BY <1>5, Zenon DEF Notes
<1> QED
  BY <1>3, <1>6, <1>7, <1>8 DEF Typed

(* A step that leaves counters, environment and restarts alone but for one   *)
(* more operation.                                                           *)
Counts == env' \in Env /\ ops' \in 0..MaxOps /\ turns' \in 0..MaxTurns
          /\ restarts' \in 0..MaxRestarts

LEMMA OwnerCounts ==
    ASSUME Typed, NEW a \in Api, OwnerStep(a)
    PROVE  Counts /\ row' = row /\ snap' = snap /\ facts' = facts
BY BoundAssumption
   DEF OwnerStep, BeginArm, Review, Arm, BeginEnable, Enable, Pause, Disable, Kill,
       StopPlane, EmergencyStop, RefuseOrder, Take, bounds, Counts, Typed, Outside

LEMMA OwnerController ==
    ASSUME Typed, NEW a \in Api, OwnerStep(a)
    PROVE  Controller'
<1>0. Controller
  BY DEF Typed
<1>1. CASE BeginArm(a) \/ BeginEnable(a)
  BY <1>0, <1>1, CtrlStays DEF BeginArm, BeginEnable
<1>2. CASE Review(a)
  <2>1. Move("READY_FOR_REVIEW") \/ UNCHANGED ctrl
    BY <1>2 DEF Review
  <2> QED
    BY <1>0, <2>1, MoveTyped, CtrlStays DEF State
<1>3. CASE Arm(a)
  <2>1. Move("ARMED") \/ UNCHANGED ctrl
    BY <1>3 DEF Arm
  <2> QED
    BY <1>0, <2>1, MoveTyped, CtrlStays DEF State
<1>4. CASE Enable(a)
  <2>1. Move("ENABLED") \/ UNCHANGED ctrl
    BY <1>4 DEF Enable
  <2> QED
    BY <1>0, <2>1, MoveTyped, CtrlStays DEF State
<1>5. CASE Pause(a) \/ Disable(a)
  <2>1. Move("PAUSED") \/ Move("DISABLED")
    BY <1>5 DEF Pause, Disable
  <2> QED
    BY <1>0, <2>1, MoveTyped DEF State
<1>6. CASE Kill(a) \/ StopPlane(a) \/ EmergencyStop(a)
  <2>1. EmergencyDisable \/ UNCHANGED ctrl
    BY <1>6 DEF Kill, StopPlane, EmergencyStop
  <2> QED
    BY <1>0, <2>1, EmergencyTyped, CtrlStays
<1>7. CASE RefuseOrder(a)
  <2>1. SafetyPause \/ UNCHANGED ctrl
    BY <1>7 DEF RefuseOrder
  <2> QED
    BY <1>0, <2>1, PauseTyped, CtrlStays
<1> QED
  BY <1>1, <1>2, <1>3, <1>4, <1>5, <1>6, <1>7 DEF OwnerStep

LEMMA OwnerPlaces ==
    ASSUME Typed, NEW a \in Api, OwnerStep(a)
    PROVE  at' \in [Thread -> At]
<1>1. a \in Thread /\ at \in [Thread -> At]
  BY DEF Thread, Typed, Places
<1>2. at' = at \/ \E l \in At : Goto(a, l)
  BY DEF OwnerStep, BeginArm, Review, Arm, BeginEnable, Enable, Pause, Disable, Kill,
         StopPlane, EmergencyStop, RefuseOrder, At
<1> QED
  BY <1>1, <1>2, GotoTyped

LEMMA OwnerNotes ==
    ASSUME Typed, NEW a \in Api, OwnerStep(a)
    PROVE  hold' \in Hold /\ acted' \in [Cycle -> BOOLEAN] /\ Notes'
<1>1. hold \in Hold /\ acted \in [Cycle -> BOOLEAN] /\ late \in BOOLEAN
  BY DEF Typed, Outside, Places, Notes
<1>2. \/ \E h \in Hold : NoteHold(h)
      \/ hold' = hold /\ acted' = acted /\ late' = late
  BY DEF OwnerStep, BeginArm, Review, Arm, BeginEnable, Enable, Pause, Disable, Kill,
         StopPlane, EmergencyStop, RefuseOrder, Hold, history
<1>3. hold' \in Hold /\ acted' \in [Cycle -> BOOLEAN] /\ late' \in BOOLEAN
  BY <1>1, <1>2, NoteTyped
<1>4. killed' \in {killed, TRUE, FALSE}
  BY DEF OwnerStep, BeginArm, Review, Arm, BeginEnable, Enable, Pause, Disable, Kill,
         StopPlane, EmergencyStop, RefuseOrder, history
<1>5. loose' \in {loose, TRUE}
  BY DEF OwnerStep, BeginArm, Review, Arm, BeginEnable, Enable, Pause, Disable, Kill,
         StopPlane, EmergencyStop, RefuseOrder
<1>6. killed' \in BOOLEAN
  BY <1>4 DEF Typed, Notes
<1>7. loose' \in BOOLEAN
  BY <1>5 DEF Typed, Notes
<1> QED
  BY <1>3, <1>6, <1>7, Zenon DEF Notes

LEMMA OwnerTyped ==
    ASSUME Typed, NEW a \in Api, OwnerStep(a)
    PROVE  Typed'
<1>1. Places'
  BY OwnerPlaces, OwnerNotes, OwnerCounts DEF Typed, Places
<1>2. Outside'
  BY OwnerNotes, OwnerCounts DEF Outside, Counts
<1> QED
  BY <1>1, <1>2, OwnerNotes, OwnerController DEF Typed

LEMMA PersistTyped ==
    ASSUME Typed, NEW t \in Thread, Persist(t)
    PROVE  Typed'
<1>0. Controller /\ row \in Row /\ snap \in [Thread -> Row]
  BY DEF Typed, Places
<1>1. CASE Snapshot(t)
  <2>1. UNCHANGED ctrl /\ UNCHANGED <<env, row, facts, bounds, history>>
    BY <1>1 DEF Snapshot
  <2>2. Controller'
    BY <1>0, <2>1, CtrlStays
  <2>3. snap' \in [Thread -> Row]
    BY <1>0, <1>1, DurableTyped DEF Snapshot
  <2>4. \E l \in At : Goto(t, l)
    BY <1>1 DEF Snapshot, At
  <2>5. Places'
    BY <2>1, <2>3, <2>4, GotoTyped DEF Typed, Places, history
  <2>6. loose' \in BOOLEAN
    BY <1>1, Zenon DEF Snapshot
  <2>7. Outside' /\ late' = late /\ killed' = killed
    BY <2>1 DEF Typed, Outside, bounds, history
  <2>8. Notes'
    BY <2>6, <2>7 DEF Typed, Notes
  <2> QED
    BY <2>2, <2>5, <2>7, <2>8 DEF Typed
<1>2. CASE Save(t)
  <2>1. UNCHANGED ctrl /\ UNCHANGED <<env, facts, bounds, hold, acted, late, loose>>
    BY <1>2 DEF Save
  <2>2. Controller'
    BY <1>0, <2>1, CtrlStays
  <2>3. snap' \in [Thread -> Row] /\ row' \in Row
    BY <1>0, <1>2, PutReplaces, NoRowTyped DEF Save
  <2>4. \E l \in At : Goto(t, l)
    BY <1>2 DEF Save, At
  <2>5. Places'
    BY <2>1, <2>3, <2>4, GotoTyped DEF Typed, Places
  <2>6. killed' \in BOOLEAN
    BY <1>2, Zenon DEF Save
  <2>7. Outside' /\ late' = late /\ loose' = loose
    BY <2>1 DEF Typed, Outside, bounds
  <2>8. Notes'
    BY <2>6, <2>7 DEF Typed, Notes
  <2> QED
    BY <2>2, <2>5, <2>7, <2>8 DEF Typed
<1> QED
  BY <1>1, <1>2 DEF Persist

LEMMA CycleTyped ==
    ASSUME Typed, NEW c \in Cycle, CycleStep(c)
    PROVE  Typed'
<1>0. c \in Thread /\ Controller
  BY DEF Thread, Typed
<1>1. CASE Persist(c)
  BY <1>0, <1>1, PersistTyped
<1>2. CASE ~Persist(c)
  <2>1. /\ row' = row /\ snap' = snap /\ env' = env /\ hold' = hold /\ killed' = killed
        /\ loose' = loose /\ ops' = ops /\ turns' = turns /\ restarts' = restarts
    BY <1>2 DEF CycleStep, Check, Probe, Recheck, Resume, Guard, bounds, history
  <2>2. Move("ENABLED") \/ SafetyPause \/ UNCHANGED ctrl
    BY <1>2 DEF CycleStep, Check, Probe, Recheck, Resume, Guard
  <2>3. Controller'
    BY <1>0, <2>2, MoveTyped, PauseTyped, CtrlStays DEF State
  <2>4. \E l \in At : Goto(c, l)
    BY <1>2 DEF CycleStep, Check, Probe, Recheck, Resume, Guard, At
  <2>5. facts' \in [Cycle -> BOOLEAN]
    <3>1. facts' = facts \/ facts' = [facts EXCEPT ![c] = env # "down"]
      BY <1>2 DEF CycleStep, Check, Probe, Recheck, Resume, Guard
    <3>2. (env # "down") \in BOOLEAN
      BY Zenon
    <3> QED
      BY <3>1, <3>2, Zenon DEF Typed, Places
  <2>6. acted' \in [Cycle -> BOOLEAN]
    BY <1>2 DEF CycleStep, Check, Probe, Recheck, Resume, Guard, history, Typed, Places
  <2>7. Places'
    BY <1>0, <2>1, <2>4, <2>5, <2>6, GotoTyped DEF Typed, Places
  <2>8. late' \in BOOLEAN
    <3>1. late' = late \/ late' = (late \/ (hold # "none" /\ acted[c]))
      BY <1>2 DEF CycleStep, Check, Probe, Recheck, Resume, Guard, history
    <3> QED
      BY <3>1, Zenon DEF Typed, Notes
  <2>9. Outside' /\ Notes'
    BY <2>1, <2>8 DEF Typed, Outside, Notes
  <2> QED
    BY <2>3, <2>7, <2>9 DEF Typed
<1> QED
  BY <1>1, <1>2

LEMMA RestartTyped == ASSUME Typed, Restart PROVE Typed'
<1>0. row \in Row /\ hold \in Hold /\ restarts \in Nat
  BY DEF Typed, Places, Outside
<1>1. /\ state' = Hydrated(row).state /\ safety' = Hydrated(row).safety
      /\ ownerPaused' = Hydrated(row).ownerPaused /\ latched' = Hydrated(row).latched
      /\ row' = HydratedRow(row) /\ hold' \in {hold, HoldOf(row)}
      /\ at' = [t \in Thread |-> "idle"] /\ snap' = [t \in Thread |-> NoRow]
      /\ facts' = [c \in Cycle |-> FALSE] /\ acted' = [c \in Cycle |-> FALSE]
      /\ loose' = FALSE /\ late' = late /\ killed' = killed
      /\ env' = env /\ ops' = ops /\ turns' = turns
      /\ restarts < MaxRestarts /\ restarts' = restarts + 1
  BY DEF Restart
<1>2. Controller'
  BY <1>0, <1>1, HydratedTyped, Zenon DEF Controller
<1>3. Places'
  BY <1>0, <1>1, HydratedTyped, NoRowTyped DEF Places, At
<1>4. hold' \in Hold
  BY <1>0, <1>1, HydratedTyped
<1>5. Outside'
  BY <1>1, <1>4, BoundAssumption DEF Typed, Outside
<1>6. Notes'
  BY <1>1, Zenon DEF Typed, Notes
<1> QED
  BY <1>2, <1>3, <1>5, <1>6 DEF Typed

LEMMA TypedStep == Typed /\ [Next]_vars => Typed'
<1> SUFFICES ASSUME Typed, [Next]_vars PROVE Typed'
  OBVIOUS
<1>1. ASSUME NEW a \in Api, OwnerStep(a) \/ Persist(a) PROVE Typed'
  BY <1>1, OwnerTyped, PersistTyped DEF Thread
<1>2. CASE Turn
  <2>1. /\ UNCHANGED ctrl /\ UNCHANGED <<row, at, snap, facts, ops, restarts, history, loose>>
        /\ env' \in Env /\ turns < MaxTurns /\ turns' = turns + 1
    BY <1>2 DEF Turn
  <2>2. Controller'
    BY <2>1, CtrlStays DEF Typed
  <2>3. Outside'
    BY <2>1, BoundAssumption DEF Typed, Outside, history
  <2>4. Places' /\ Notes'
    BY <2>1 DEF Typed, Places, Notes, history
  <2> QED
    BY <2>2, <2>3, <2>4 DEF Typed
<1>3. CASE UNCHANGED vars
  <2>1. UNCHANGED ctrl
    BY <1>3 DEF vars
  <2>2. Controller'
    BY <2>1, CtrlStays DEF Typed
  <2>3. Outside' /\ Places' /\ Notes'
    BY <1>3 DEF Typed, Outside, Places, Notes, vars, history, bounds
  <2> QED
    BY <2>2, <2>3 DEF Typed
<1> QED
  BY <1>1, <1>2, <1>3, CycleTyped, RestartTyped DEF Next

(* Every variable stays in its set.                                          *)
THEOREM TypeCorrect == Spec => []TypeOK
BY TypedInit, TypedStep, TypedIsTypeOK, PTL DEF Spec

-----------------------------------------------------------------------------
(* The row restores the controller.  A save that is alone carries what the   *)
(* controller holds, unless somebody who is going to save as well has moved  *)
(* it since.                                                                 *)

Saving(t) == at[t] \in {"save", "saveResume"}

\* Somebody will read the controller for a save, or move it and then do so.
Pending ==
    \E t \in Thread :
        \/ at[t] \in {"snap", "snapResume", "stop"}
        \/ at[t] = "arm" /\ state \in {"DISABLED", "READY_FOR_REVIEW"}

Now == [state |-> Durable, latched |-> latched]
Restores(r) == Hydrated(r) = Hydrated(Now)

Kept ==
    /\ ~loose => \A t, u \in Thread : Saving(t) /\ Saving(u) => t = u
    /\ ~loose /\ ~Pending =>
        /\ \A t \in Thread : Saving(t) => Restores(snap[t])
        /\ (\A t \in Thread : ~Saving(t)) => Restores(row)

(* A step that moves nothing and leaves nobody's save out.                   *)
LEMMA KeptIdle ==
    ASSUME Kept, UNCHANGED ctrl, loose' = loose, snap' = snap, row' = row,
           \A t \in Thread : Saving(t)' <=> Saving(t), Pending => Pending'
    PROVE  Kept'
<1>1. Now' = Now
  BY DEF ctrl, Now, Durable
<1>2. Hydrated(Now)' = Hydrated(Now)
  BY <1>1 DEF Hydrated
<1>3. ~loose' => \A t, u \in Thread : Saving(t)' /\ Saving(u)' => t = u
  BY DEF Kept
<1>4. ASSUME ~loose', ~Pending'
      PROVE  /\ \A t \in Thread : Saving(t)' => Restores(snap[t])'
             /\ (\A t \in Thread : ~Saving(t)') => Restores(row)'
  BY <1>1, <1>4 DEF Kept, Restores, Hydrated
<1> QED
  BY <1>3, <1>4 DEF Kept

(* A step after which somebody is still going to save.                       *)
LEMMA KeptPending ==
    ASSUME Kept, loose => loose', \A t \in Thread : Saving(t)' <=> Saving(t), Pending'
    PROVE  Kept'
BY DEF Kept

LEMMA NotSaving ==
    ASSUME Typed, NEW t \in Thread, NEW l \in At, at' = [at EXCEPT ![t] = l],
           ~Saving(t), l \notin {"save", "saveResume"}
    PROVE  \A u \in Thread : Saving(u)' <=> Saving(u)
BY DEF Typed, Places, Saving

LEMMA KeptOwner ==
    ASSUME Typed, Kept, NEW a \in Api, OwnerStep(a)
    PROVE  Kept'
<1>0. a \in Thread /\ at \in [Thread -> At] /\ row' = row /\ snap' = snap
  BY OwnerCounts DEF Typed, Places, Thread
<1>1. CASE EmergencyStop(a)
  <2>1. at' = at /\ \A t \in Thread : Saving(t)' <=> Saving(t)
    BY <1>1 DEF EmergencyStop, Saving
  <2>2. CASE UNCHANGED ctrl /\ loose' = loose
    <3>1. Pending => Pending'
      BY <2>1, <2>2 DEF Pending, ctrl
    <3> QED
      BY <1>0, <2>1, <2>2, <3>1, KeptIdle
  <2>3. CASE loose' = TRUE
    BY <2>3 DEF Kept
  <2> QED
    BY <1>1, <2>2, <2>3 DEF EmergencyStop
<1>2. CASE ~EmergencyStop(a)
  <2>1. PICK l \in At \ {"save", "saveResume"} : at' = [at EXCEPT ![a] = l]
    BY <1>2 DEF OwnerStep, BeginArm, Review, Arm, BeginEnable, Enable, Pause, Disable,
            Kill, StopPlane, RefuseOrder, Goto, At
  <2>2. ~Saving(a) /\ loose' = loose
    BY <1>2 DEF OwnerStep, BeginArm, Review, Arm, BeginEnable, Enable, Pause, Disable,
            Kill, StopPlane, RefuseOrder, Take, Saving
  <2>3. \A t \in Thread : Saving(t)' <=> Saving(t)
    BY <1>0, <2>1, <2>2, NotSaving
  <2>4. at'[a] = l /\ \A t \in Thread : t # a => at'[t] = at[t]
    BY <1>0, <2>1
  <2>5. CASE Enable(a) \/ Arm(a) \/ Review(a)
    <3>1. CASE UNCHANGED ctrl
      <4>1. at[a] \notin {"snap", "snapResume", "stop"}
        BY <2>5 DEF Enable, Arm, Review
      <4>2. at[a] = "arm" /\ state \in {"DISABLED", "READY_FOR_REVIEW"} => at'[a] = "snap"
        BY <1>0, <2>5 DEF Enable, Arm, Review, Allowed, Goto
      <4>3. Pending => Pending'
        BY <1>0, <2>4, <3>1, <4>1, <4>2 DEF Pending, ctrl
      <4> QED
        BY <1>0, <2>2, <2>3, <3>1, <4>3, KeptIdle
    <3>2. CASE ~UNCHANGED ctrl
      <4>1. at'[a] = "snap" \/ (at'[a] = "arm" /\ state' = "READY_FOR_REVIEW")
        BY <1>0, <2>5, <3>2 DEF Enable, Arm, Review, Goto, Move
      <4>2. Pending'
        BY <1>0, <4>1 DEF Pending
      <4> QED
        BY <2>2, <2>3, <4>2, KeptPending
    <3> QED
      BY <3>1, <3>2
  <2>6. CASE BeginArm(a) \/ BeginEnable(a)
    <3>1. UNCHANGED ctrl /\ at[a] = "idle"
      BY <2>6 DEF BeginArm, BeginEnable, Take
    <3>2. Pending => Pending'
      BY <2>4, <3>1 DEF Pending, ctrl
    <3> QED
      BY <1>0, <2>2, <2>3, <3>1, <3>2, KeptIdle
  <2>7. CASE Pause(a) \/ Disable(a) \/ Kill(a) \/ StopPlane(a) \/ RefuseOrder(a)
    <3>1. at'[a] \in {"snap", "stop"}
      BY <1>0, <2>7 DEF Pause, Disable, Kill, StopPlane, RefuseOrder, Goto
    <3>2. Pending'
      BY <1>0, <3>1 DEF Pending
    <3> QED
      BY <2>2, <2>3, <3>2, KeptPending
  <2> QED
    BY <1>2, <2>5, <2>6, <2>7 DEF OwnerStep
<1> QED
  BY <1>1, <1>2

LEMMA KeptPersist ==
    ASSUME Typed, Kept, NEW t \in Thread, Persist(t)
    PROVE  Kept'
<1>0. at \in [Thread -> At] /\ snap \in [Thread -> Row] /\ row \in Row
  BY DEF Typed, Places
<1>1. UNCHANGED ctrl
  BY DEF Persist, Snapshot, Save
<1>2. Now' = Now
  BY <1>1 DEF ctrl, Now, Durable
<1>3. CASE Snapshot(t)
  <2>1. /\ snap' = [snap EXCEPT ![t] = Now] /\ row' = row
        /\ \A u \in Thread : u # t => at'[u] = at[u]
    BY <1>0, <1>3 DEF Snapshot, Now, Goto
  <2>2. ASSUME ~loose' PROVE \A u \in Thread : Saving(u)' => u = t
    BY <1>3, <2>1, <2>2 DEF Snapshot, Saving
  <2>3. snap'[t] = Now /\ Saving(t)'
    BY <1>0, <1>3, <2>1 DEF Snapshot, Goto, Saving
  <2>4. Restores(snap[t])'
    BY <1>2, <2>3 DEF Restores, Hydrated
  <2> QED
    BY <2>2, <2>3, <2>4 DEF Kept
<1>4. CASE Save(t)
  <2>1. /\ row' = snap[t] /\ loose' = loose /\ Saving(t)
        /\ at'[t] \in {"idle", "guard"} /\ \A u \in Thread : u # t => at'[u] = at[u]
    BY <1>0, <1>4, PutReplaces DEF Save, Saving, Goto
  <2>2. ~Pending' => ~Pending
    BY <1>1, <2>1 DEF Pending, ctrl, Saving
  <2>3. ASSUME ~loose' PROVE \A u \in Thread : ~Saving(u)'
    BY <2>1, <2>3 DEF Kept, Saving
  <2>4. ASSUME ~loose', ~Pending' PROVE Restores(row)'
    <3>1. Restores(snap[t])
      BY <2>1, <2>2, <2>4 DEF Kept
    <3> QED
      BY <1>2, <2>1, <3>1 DEF Restores, Hydrated
  <2> QED
    BY <2>3, <2>4 DEF Kept
<1> QED
  BY <1>3, <1>4 DEF Persist

LEMMA KeptCycle ==
    ASSUME Typed, Kept, NEW c \in Cycle, CycleStep(c)
    PROVE  Kept'
<1>0. c \in Thread /\ at \in [Thread -> At]
  BY DEF Thread, Typed, Places
<1>1. CASE Persist(c)
  BY <1>0, <1>1, KeptPersist
<1>2. CASE ~Persist(c)
  <2>1. /\ row' = row /\ snap' = snap /\ loose' = loose
        /\ at[c] \in {"idle", "probe", "recheck", "resume", "guard"}
    BY <1>2 DEF CycleStep, Check, Probe, Recheck, Resume, Guard
  <2>2. PICK l \in At \ {"save", "saveResume"} : at' = [at EXCEPT ![c] = l]
    BY <1>2 DEF CycleStep, Check, Probe, Recheck, Resume, Guard, Goto, At
  <2>3. \A t \in Thread : Saving(t)' <=> Saving(t)
    BY <1>0, <2>1, <2>2, NotSaving DEF Saving
  <2>4. at'[c] = l /\ \A t \in Thread : t # c => at'[t] = at[t]
    BY <1>0, <2>2
  <2>5. CASE UNCHANGED ctrl
    <3>1. Pending => Pending'
      BY <2>1, <2>4, <2>5 DEF Pending, ctrl
    <3> QED
      BY <2>1, <2>3, <2>5, <3>1, KeptIdle
  <2>6. CASE ~UNCHANGED ctrl
    <3>1. at'[c] \in {"snap", "snapResume"}
      BY <1>0, <1>2, <2>6 DEF CycleStep, Check, Probe, Recheck, Resume, Guard, Goto
    <3>2. Pending'
      BY <1>0, <3>1 DEF Pending
    <3> QED
      BY <2>1, <2>3, <3>2, KeptPending
  <2> QED
    BY <2>5, <2>6
<1> QED
  BY <1>1, <1>2

(* A controller hydrated from a row agrees with the row written back.        *)
LEMMA WakesAsSaved ==
    ASSUME NEW r \in Row, NEW s, NEW sf, NEW op, NEW la, s = Hydrated(r).state,
           sf = Hydrated(r).safety, op = Hydrated(r).ownerPaused, la = Hydrated(r).latched
    PROVE  Hydrated(HydratedRow(r)) =
           Hydrated([state |-> IF s = "PAUSED" /\ ~op /\ sf THEN "ENABLED" ELSE s,
                     latched |-> la])
<1>1. r.state \in State /\ r.latched \in BOOLEAN
  BY DEF Row
<1>2. /\ s = Recover(r.state) /\ (sf <=> r.state = "ENABLED") /\ (op <=> r.state = "PAUSED")
      /\ (la <=> r.latched /\ Recover(r.state) = "DISABLED")
  BY DEF Hydrated
<1>3. CASE r.state = "ENABLED"
  <2>1. HydratedRow(r) = r /\ s = "PAUSED" /\ ~op /\ sf /\ ~la
    BY <1>2, <1>3 DEF HydratedRow, Recover
  <2> QED
    BY <1>1, <1>3, <2>1 DEF Hydrated, Recover
<1>4. CASE r.state = "PAUSED"
  <2>1. s = "PAUSED" /\ op /\ HydratedRow(r) = [state |-> "PAUSED", latched |-> Hydrated(r).latched]
    BY <1>2, <1>4 DEF HydratedRow, Recover
  <2> QED
    BY <2>1
<1>5. CASE r.state \notin {"ENABLED", "PAUSED"}
  <2>1. s = "DISABLED" /\ HydratedRow(r) = [state |-> "DISABLED", latched |-> Hydrated(r).latched]
    BY <1>2, <1>5 DEF HydratedRow, Recover
  <2> QED
    BY <2>1
<1> QED
  BY <1>3, <1>4, <1>5

LEMMA KeptInit == Init => Kept
<1> SUFFICES ASSUME Init PROVE Kept
  OBVIOUS
<1>1. PICK r \in OldRows :
        /\ state = Hydrated(r).state /\ safety = Hydrated(r).safety
        /\ ownerPaused = Hydrated(r).ownerPaused /\ latched = Hydrated(r).latched
        /\ row = HydratedRow(r)
  BY DEF Init
<1>2. Restores(row)
  BY <1>1, RowAssumption, WakesAsSaved DEF Restores, Now, Durable
<1>3. \A t \in Thread : ~Saving(t)
  BY DEF Init, Saving
<1> QED
  BY <1>2, <1>3 DEF Kept

LEMMA KeptRestart == ASSUME Typed, Kept, Restart PROVE Kept'
<1>1. /\ state' = Hydrated(row).state /\ safety' = Hydrated(row).safety
      /\ ownerPaused' = Hydrated(row).ownerPaused /\ latched' = Hydrated(row).latched
      /\ row' = HydratedRow(row) /\ \A t \in Thread : at'[t] = "idle"
  BY DEF Restart
<1>2. Hydrated(row') =
      Hydrated([state |-> IF state' = "PAUSED" /\ ~ownerPaused' /\ safety'
                          THEN "ENABLED" ELSE state',
                latched |-> latched'])
  BY <1>1, WakesAsSaved DEF Typed, Places
<1>3. Restores(row)'
  BY <1>2 DEF Restores, Now, Durable, Hydrated
<1>4. \A t \in Thread : ~Saving(t)'
  BY <1>1 DEF Saving
<1> QED
  BY <1>3, <1>4 DEF Kept

LEMMA KeptStep == Typed /\ Kept /\ [Next]_vars => Kept'
<1> SUFFICES ASSUME Typed, Kept, [Next]_vars PROVE Kept'
  OBVIOUS
<1>1. ASSUME NEW a \in Api, OwnerStep(a) \/ Persist(a) PROVE Kept'
  BY <1>1, KeptOwner, KeptPersist DEF Thread
<1>2. CASE Turn \/ UNCHANGED vars
  <2>1. /\ UNCHANGED ctrl /\ at' = at /\ loose' = loose /\ snap' = snap /\ row' = row
    BY <1>2 DEF Turn, vars
  <2>2. (\A t \in Thread : Saving(t)' <=> Saving(t)) /\ (Pending => Pending')
    BY <2>1 DEF Saving, Pending, ctrl
  <2> QED
    BY <2>1, <2>2, KeptIdle
<1> QED
  BY <1>1, <1>2, KeptCycle, KeptRestart DEF Next

LEMMA SettledKept == Kept /\ Settled => Restores(row)
<1> SUFFICES ASSUME Kept, Settled PROVE Restores(row)
  OBVIOUS
<1>1. ~loose /\ ~Pending /\ \A t \in Thread : ~Saving(t)
  BY DEF Settled, Pending, Saving
<1> QED
  BY <1>1 DEF Kept

(* When nobody is between a transition and its save, and neither did the     *)
(* last two saves overlap nor came an emergency stop of the operations API   *)
(* after the last payload, the row restores the authorisation as it stands   *)
(* (persist_live_trading, hydrate): whatever moves, safety pauses, refused   *)
(* orders and restarts came before.                                          *)
THEOREM RowRestores == Spec => []RowRestoresAuthorisation
<1>1. Kept => RowRestoresAuthorisation
  BY SettledKept DEF RowRestoresAuthorisation, Restores, Now
<1> QED
  BY <1>1, TypedInit, TypedStep, KeptInit, KeptStep, PTL DEF Spec

-----------------------------------------------------------------------------
(* The owner's stop holds.  A pause that the desk may end by itself is not   *)
(* the owner's, and a resume that has passed its last check is only wrong    *)
(* about the owner if the owner has acted since.                             *)

Yields == hold = "none" \/ late

Held ==
    /\ state = "ENABLED" => Yields
    /\ state = "PAUSED" /\ ~ownerPaused => Yields
    /\ \A c \in Cycle : at[c] = "resume" /\ ~acted[c] => Yields

LEMMA HeldInit == Init => Held
<1> SUFFICES ASSUME Init PROVE Held
  OBVIOUS
<1>1. PICK r \in OldRows :
        /\ state = Hydrated(r).state /\ ownerPaused = Hydrated(r).ownerPaused
        /\ hold = HoldOf(r)
  BY DEF Init
<1>2. state = Recover(r.state) /\ (ownerPaused <=> r.state = "PAUSED")
  BY <1>1 DEF Hydrated
<1>3. state # "ENABLED"
  BY <1>2 DEF Recover
<1>4. state = "PAUSED" /\ ~ownerPaused => hold = "none"
  BY <1>1, <1>2 DEF Recover, HoldOf
<1>5. \A c \in Cycle : at[c] = "idle"
  BY DEF Init, Thread
<1> QED
  BY <1>3, <1>4, <1>5 DEF Held, Yields

(* Steps after which the owner has acted.                                    *)
LEMMA HeldNote ==
    ASSUME NEW h, NoteHold(h), \/ h = "none"
                               \/ state' # "ENABLED" /\ (state' = "PAUSED" => ownerPaused')
    PROVE  Held'
<1>1. /\ hold' = h /\ \A c \in Cycle : acted'[c] = TRUE
  BY DEF NoteHold
<1> QED
  BY <1>1 DEF Held, Yields

LEMMA HeldStays ==
    ASSUME Held, hold' = hold, late => late',
           state' = "ENABLED" => Yields,
           state' = "PAUSED" /\ ~ownerPaused' => Yields,
           \A c \in Cycle : at'[c] = "resume" /\ ~acted'[c] => Yields
    PROVE  Held'
BY DEF Held, Yields

LEMMA HeldOwner ==
    ASSUME Typed, Held, NEW a \in Api, OwnerStep(a)
    PROVE  Held'
<1>0. a \in Thread /\ Cycle \subseteq Thread /\ at \in [Thread -> At]
  BY DEF Typed, Places, Thread
<1>1. \A c \in Cycle : at'[c] = at[c]
  <2>1. at' = at \/ \E l \in At : at' = [at EXCEPT ![a] = l]
    BY DEF OwnerStep, BeginArm, Review, Arm, BeginEnable, Enable, Pause, Disable, Kill,
           StopPlane, EmergencyStop, RefuseOrder, Goto, At
  <2> QED
    BY <1>0, <2>1, ThreadAssumption
<1>2. CASE UNCHANGED ctrl /\ hold' = hold /\ late' = late /\ acted' = acted
  BY <1>1, <1>2, HeldStays DEF Held, ctrl
<1>3. CASE Review(a) /\ Move("READY_FOR_REVIEW")
  <2>1. state' = "READY_FOR_REVIEW" /\ hold' = hold /\ late' = late /\ acted' = acted
    BY <1>3 DEF Review, Move
  <2> QED
    BY <1>1, <2>1, HeldStays DEF Held
<1>4. CASE Arm(a) /\ Move("ARMED")
  <2>1. state' = "ARMED" /\ hold' = hold /\ late' = late /\ acted' = acted
    BY <1>4 DEF Arm, Move
  <2> QED
    BY <1>1, <2>1, HeldStays DEF Held
<1>5. CASE Enable(a) /\ NoteHold("none")
  BY <1>5, HeldNote
<1>6. CASE Pause(a) \/ Disable(a)
  <2>1. PICK h \in Hold : NoteHold(h)
    BY <1>6 DEF Pause, Disable, Hold
  <2>2. state' # "ENABLED" /\ (state' = "PAUSED" => ownerPaused')
    BY <1>6 DEF Pause, Disable, Move
  <2> QED
    BY <2>1, <2>2, HeldNote
<1>7. CASE EmergencyDisable /\ NoteHold("killed")
  <2>1. state' = "DISABLED"
    BY <1>7 DEF EmergencyDisable
  <2> QED
    BY <1>7, <2>1, HeldNote
<1>8. CASE RefuseOrder(a) /\ state = "ENABLED" /\ SafetyPause
  <2>1. state' = "PAUSED" /\ hold' = hold /\ late' = late /\ acted' = acted
    BY <1>8 DEF RefuseOrder, SafetyPause, history
  <2> QED
    BY <1>1, <1>8, <2>1, HeldStays DEF Held
<1> QED
  BY <1>2, <1>3, <1>4, <1>5, <1>6, <1>7, <1>8
     DEF OwnerStep, BeginArm, Review, Arm, BeginEnable, Enable, Kill, StopPlane,
         EmergencyStop, RefuseOrder, history

LEMMA HeldPersist ==
    ASSUME Typed, Held, NEW t \in Thread, Persist(t)
    PROVE  Held'
<1>1. UNCHANGED ctrl /\ hold' = hold /\ late' = late /\ acted' = acted
  BY DEF Persist, Snapshot, Save, history
<1>2. \E l \in At \ {"resume"} : at' = [at EXCEPT ![t] = l]
  BY DEF Persist, Snapshot, Save, Goto, At
<1>3. \A c \in Cycle : at'[c] = "resume" => at[c] = "resume"
  BY <1>2 DEF Typed, Places, Thread
<1> QED
  BY <1>1, <1>3, HeldStays DEF Held, ctrl

LEMMA HeldCycle ==
    ASSUME Typed, Held, NEW c \in Cycle, CycleStep(c)
    PROVE  Held'
<1>0. /\ c \in Thread /\ Cycle \subseteq Thread /\ at \in [Thread -> At]
      /\ acted \in [Cycle -> BOOLEAN]
  BY DEF Typed, Places, Thread
<1>1. CASE Persist(c)
  BY <1>0, <1>1, HeldPersist
<1>2. CASE Recheck(c)
  <2>1. /\ UNCHANGED ctrl /\ hold' = hold /\ late' = late
        /\ acted' = [acted EXCEPT ![c] = FALSE]
        /\ \A d \in Cycle : d # c => at'[d] = at[d] /\ acted'[d] = acted[d]
    BY <1>0, <1>2 DEF Recheck, Goto
  <2>2. at'[c] = "resume" => Yields
    BY <1>0, <1>2 DEF Recheck, Goto, MayResume, Held
  <2> QED
    BY <2>1, <2>2, HeldStays DEF Held, ctrl
<1>3. CASE Resume(c)
  <2>1. hold' = hold /\ acted' = acted /\ at[c] = "resume"
    BY <1>3 DEF Resume
  <2>2. \A d \in Cycle : at'[d] = "resume" => at[d] = "resume"
    BY <1>0, <1>3 DEF Resume, Goto
  <2>3. CASE Move("ENABLED") /\ late' = (late \/ (hold # "none" /\ acted[c]))
    <3>1. state' = "ENABLED"
      BY <2>3 DEF Move
    <3>2. Yields'
      BY <2>1, <2>3 DEF Held, Yields
    <3> QED
      BY <3>2 DEF Held
  <2>4. CASE UNCHANGED ctrl /\ late' = late
    BY <2>1, <2>2, <2>4, HeldStays DEF Held, ctrl
  <2> QED
    BY <1>3, <2>3, <2>4 DEF Resume
<1>4. CASE Check(c) \/ Probe(c) \/ Guard(c)
  <2>1. hold' = hold /\ late' = late /\ acted' = acted
    BY <1>4 DEF Check, Probe, Guard, history
  <2>2. \A d \in Cycle : at'[d] = "resume" => at[d] = "resume"
    BY <1>0, <1>4 DEF Check, Probe, Guard, Goto
  <2>3. CASE UNCHANGED ctrl
    BY <2>1, <2>2, <2>3, HeldStays DEF Held, ctrl
  <2>4. CASE state = "ENABLED" /\ SafetyPause
    <3>1. state' = "PAUSED"
      BY <2>4 DEF SafetyPause
    <3> QED
      BY <2>1, <2>2, <2>4, <3>1, HeldStays DEF Held
  <2> QED
    BY <1>4, <2>3, <2>4 DEF Check, Probe, Guard
<1> QED
  BY <1>1, <1>2, <1>3, <1>4 DEF CycleStep

(* A restart keeps the owner's stop because the row does: a row that wakes   *)
(* as a pause for safety was saved for a controller the desk could resume.   *)
LEMMA HeldRestart == ASSUME Typed, Kept, Held, Restart PROVE Held'
<1>1. /\ state' = Recover(row.state) /\ (ownerPaused' <=> row.state = "PAUSED")
      /\ hold' = (IF Settled THEN hold ELSE HoldOf(row)) /\ late' = late
      /\ \A c \in Cycle : at'[c] = "idle"
  BY DEF Restart, Hydrated, Thread
<1>2. state' # "ENABLED"
  BY <1>1 DEF Recover
<1>3. ASSUME state' = "PAUSED", ~ownerPaused' PROVE Yields'
  <2>1. row.state = "ENABLED"
    BY <1>1, <1>3 DEF Recover
  <2>2. CASE Settled
    <3>1. Hydrated(row).safety = Hydrated(Now).safety
      BY <2>2, SettledKept DEF Restores
    <3>2. (row.state = "ENABLED") = (Durable = "ENABLED")
      BY <3>1 DEF Hydrated, Now
    <3>3. Durable = "ENABLED"
      BY <2>1, <3>2
    <3>4. state = "ENABLED" \/ (state = "PAUSED" /\ ~ownerPaused)
      BY <3>3 DEF Durable
    <3> QED
      BY <1>1, <2>2, <3>4 DEF Held, Yields
  <2>3. CASE ~Settled
    <3>1. hold' = "none"
      BY <1>1, <2>1, <2>3 DEF HoldOf
    <3> QED
      BY <3>1 DEF Yields
  <2> QED
    BY <2>2, <2>3
<1> QED
  BY <1>1, <1>2, <1>3 DEF Held

LEMMA HeldStep == Typed /\ Kept /\ Held /\ [Next]_vars => Held'
<1> SUFFICES ASSUME Typed, Kept, Held, [Next]_vars PROVE Held'
  OBVIOUS
<1>1. ASSUME NEW a \in Api, OwnerStep(a) \/ Persist(a) PROVE Held'
  BY <1>1, HeldOwner, HeldPersist DEF Thread
<1>2. CASE Turn \/ UNCHANGED vars
  <2>1. UNCHANGED ctrl /\ at' = at /\ hold' = hold /\ late' = late /\ acted' = acted
    BY <1>2 DEF Turn, vars, history
  <2> QED
    BY <2>1, HeldStays DEF Held, ctrl
<1> QED
  BY <1>1, <1>2, HeldCycle, HeldRestart DEF Next

(* Live trading that the owner has paused, disabled or killed is enabled     *)
(* again by nobody else, but by a resume whose last check came before.       *)
THEOREM OwnerStop == Spec => []OwnerStopHolds
<1>1. Held => OwnerStopHolds
  BY DEF Held, Yields, OwnerStopHolds
<1> QED
  BY <1>1, TypedInit, TypedStep, KeptInit, KeptStep, HeldInit, HeldStep, PTL DEF Spec
-----------------------------------------------------------------------------
(* Of the liveness of a pause for safety, the part that is an invariant: who *)
(* paused is never in doubt, so that a resume is due for every pause that is *)
(* not the owner's, and for none that is.                                    *)

PauseHasOneReason ==
    /\ state = "PAUSED" => (ownerPaused <=> ~safety)
    /\ state = "ENABLED" => ~ownerPaused

LEMMA ReasonHydrated ==
    ASSUME NEW r \in Row
    PROVE  Hydrated(r).state = "PAUSED" => (Hydrated(r).ownerPaused <=> ~Hydrated(r).safety)
<1>1. /\ Hydrated(r).state = Recover(r.state)
      /\ Hydrated(r).safety = (r.state = "ENABLED")
      /\ Hydrated(r).ownerPaused = (r.state = "PAUSED")
  BY DEF Hydrated
<1>2. Recover(r.state) = "PAUSED" => r.state \in {"ENABLED", "PAUSED"}
  BY DEF Recover
<1>3. CASE r.state = "ENABLED"
  BY <1>1, <1>3
<1>4. CASE r.state = "PAUSED"
  BY <1>1, <1>4
<1>5. CASE r.state \notin {"ENABLED", "PAUSED"}
  BY <1>1, <1>2, <1>5
<1> QED
  BY <1>3, <1>4, <1>5

LEMMA NeverEnabled == \A r \in Row : Hydrated(r).state # "ENABLED"
BY DEF Hydrated, Recover

LEMMA ReasonMoves ==
    ASSUME Controller, PauseHasOneReason, NEW w \in State, Move(w)
    PROVE  PauseHasOneReason'
<1>1. state' = w /\ (w = "PAUSED" => ownerPaused' = TRUE /\ safety' = FALSE)
      /\ (w = "ENABLED" => ownerPaused' = FALSE)
  BY DEF Move
<1> QED
  BY <1>1 DEF PauseHasOneReason

LEMMA ReasonInit == Init => PauseHasOneReason
<1> SUFFICES ASSUME Init PROVE PauseHasOneReason
  OBVIOUS
<1>1. PICK r \in OldRows :
        /\ state = Hydrated(r).state /\ safety = Hydrated(r).safety
        /\ ownerPaused = Hydrated(r).ownerPaused
  BY DEF Init
<1>2. r \in Row
  BY RowAssumption
<1> QED
  BY <1>1, <1>2, ReasonHydrated, NeverEnabled DEF PauseHasOneReason

LEMMA ReasonStep == Typed /\ PauseHasOneReason /\ [Next]_vars => PauseHasOneReason'
<1> SUFFICES ASSUME Typed, PauseHasOneReason, [Next]_vars PROVE PauseHasOneReason'
  OBVIOUS
<1>1. Controller /\ row \in Row
  BY DEF Typed, Places
<1>2. ASSUME EmergencyDisable PROVE PauseHasOneReason'
  BY <1>2 DEF EmergencyDisable, PauseHasOneReason
<1>3. ASSUME SafetyPause, state = "ENABLED" PROVE PauseHasOneReason'
  <2>1. safety' = TRUE /\ ownerPaused' = ownerPaused /\ state' = "PAUSED"
    BY <1>3 DEF SafetyPause
  <2> QED
    BY <1>3, <2>1 DEF PauseHasOneReason
<1>4. ASSUME UNCHANGED ctrl PROVE PauseHasOneReason'
  BY <1>4 DEF ctrl, PauseHasOneReason
<1>5. ASSUME NEW w \in State, Move(w) PROVE PauseHasOneReason'
  BY <1>1, <1>5, ReasonMoves
<1>6. CASE Restart
  <2>1. /\ state' = Hydrated(row).state /\ safety' = Hydrated(row).safety
        /\ ownerPaused' = Hydrated(row).ownerPaused
    BY <1>6 DEF Restart
  <2> QED
    BY <1>1, <2>1, ReasonHydrated, NeverEnabled DEF PauseHasOneReason
<1>7. ASSUME NEW a \in Api, OwnerStep(a) PROVE PauseHasOneReason'
  <2>1. \/ UNCHANGED ctrl \/ EmergencyDisable
        \/ state = "ENABLED" /\ SafetyPause
        \/ Move("READY_FOR_REVIEW") \/ Move("ARMED") \/ Move("ENABLED")
        \/ Move("PAUSED") \/ Move("DISABLED")
    BY <1>7 DEF OwnerStep, BeginArm, Review, Arm, BeginEnable, Enable, Pause, Disable, Kill,
                StopPlane, EmergencyStop, RefuseOrder, ctrl
  <2> QED
    BY <1>2, <1>3, <1>4, <1>5, <2>1 DEF State
<1>8. ASSUME NEW t \in Thread, Persist(t) PROVE PauseHasOneReason'
  BY <1>4, <1>8 DEF Persist, Snapshot, Save
<1>9. ASSUME NEW c \in Cycle, CycleStep(c) PROVE PauseHasOneReason'
  <2>1. CASE Persist(c)
    BY <1>8, <2>1 DEF Thread
  <2>2. CASE ~Persist(c)
    <3>1. UNCHANGED ctrl \/ Move("ENABLED") \/ (state = "ENABLED" /\ SafetyPause)
      BY <1>9, <2>2 DEF CycleStep, Check, Probe, Recheck, Resume, Guard
    <3> QED
      BY <1>3, <1>4, <1>5, <3>1 DEF State
  <2> QED
    BY <2>1, <2>2
<1> QED
  BY <1>4, <1>6, <1>7, <1>8, <1>9 DEF Next, Turn, vars, Thread

(* What shows as the owner's pause is one the owner asked for.               *)
OwnerAsked == state = "PAUSED" /\ ownerPaused => hold = "paused"

LEMMA AskedInit == Init => OwnerAsked
<1> SUFFICES ASSUME Init PROVE OwnerAsked
  OBVIOUS
<1>1. PICK r \in OldRows : ownerPaused = Hydrated(r).ownerPaused /\ hold = HoldOf(r)
  BY DEF Init
<1>2. ownerPaused <=> r.state = "PAUSED"
  BY <1>1 DEF Hydrated
<1> QED
  BY <1>1, <1>2 DEF OwnerAsked, HoldOf

LEMMA AskedElsewhere == state' # "PAUSED" => OwnerAsked'
BY DEF OwnerAsked

LEMMA AskedOwner ==
    ASSUME OwnerAsked, PauseHasOneReason, NEW a \in Api, OwnerStep(a)
    PROVE  OwnerAsked'
<1>1. CASE UNCHANGED ctrl /\ hold' = hold
  BY <1>1 DEF OwnerAsked, ctrl
<1>2. CASE Move("READY_FOR_REVIEW") \/ Move("ARMED") \/ Move("ENABLED") \/ Move("DISABLED")
           \/ EmergencyDisable
  <2>1. state' # "PAUSED"
    BY <1>2 DEF Move, EmergencyDisable
  <2> QED
    BY <2>1, AskedElsewhere
<1>3. CASE Pause(a)
  BY <1>3 DEF Pause, NoteHold, OwnerAsked
<1>4. CASE state = "ENABLED" /\ SafetyPause
  <2>1. ~ownerPaused'
    BY <1>4 DEF SafetyPause, PauseHasOneReason
  <2> QED
    BY <2>1 DEF OwnerAsked
<1> QED
  BY <1>1, <1>2, <1>3, <1>4
     DEF OwnerStep, BeginArm, Review, Arm, BeginEnable, Enable, Disable, Kill, StopPlane,
         EmergencyStop, RefuseOrder, history, ctrl

LEMMA AskedCycle ==
    ASSUME OwnerAsked, PauseHasOneReason, NEW c \in Cycle, CycleStep(c)
    PROVE  OwnerAsked'
<1>1. hold' = hold
  BY DEF CycleStep, Check, Probe, Recheck, Resume, Guard, Persist, Snapshot, Save, history
<1>2. \/ UNCHANGED ctrl \/ Move("ENABLED") \/ (state = "ENABLED" /\ SafetyPause)
  BY DEF CycleStep, Check, Probe, Recheck, Resume, Guard, Persist, Snapshot, Save
<1>3. CASE UNCHANGED ctrl
  BY <1>1, <1>3 DEF OwnerAsked, ctrl
<1>4. CASE Move("ENABLED")
  <2>1. state' # "PAUSED"
    BY <1>4 DEF Move
  <2> QED
    BY <2>1, AskedElsewhere
<1>5. CASE state = "ENABLED" /\ SafetyPause
  <2>1. ~ownerPaused'
    BY <1>5 DEF SafetyPause, PauseHasOneReason
  <2> QED
    BY <2>1 DEF OwnerAsked
<1> QED
  BY <1>2, <1>3, <1>4, <1>5

(* Over a restart: a settled row wakes as the owner's pause only where the   *)
(* controller was in one, since a pause for safety is saved as ENABLED.      *)
LEMMA AskedRestart ==
    ASSUME Typed, Kept, OwnerAsked, PauseHasOneReason, Restart
    PROVE  OwnerAsked'
<1>1. /\ state' = Recover(row.state) /\ (ownerPaused' <=> row.state = "PAUSED")
      /\ hold' = (IF Settled THEN hold ELSE HoldOf(row))
  BY DEF Restart, Hydrated
<1> SUFFICES ASSUME row.state = "PAUSED" PROVE hold' = "paused"
  BY <1>1 DEF OwnerAsked
<1>2. CASE Settled
  <2>1. Hydrated(row).ownerPaused = Hydrated(Now).ownerPaused
    BY <1>2, SettledKept DEF Restores
  <2>2. (row.state = "PAUSED") = (Durable = "PAUSED")
    BY <2>1 DEF Hydrated, Now
  <2>3. state = "PAUSED" /\ ~(~ownerPaused /\ safety)
    BY <2>2 DEF Durable
  <2>4. ownerPaused
    BY <2>3 DEF PauseHasOneReason
  <2> QED
    BY <1>1, <1>2, <2>3, <2>4 DEF OwnerAsked
<1>3. CASE ~Settled
  BY <1>1, <1>3 DEF HoldOf
<1> QED
  BY <1>2, <1>3

LEMMA AskedStep ==
    Typed /\ Kept /\ PauseHasOneReason /\ OwnerAsked /\ [Next]_vars => OwnerAsked'
<1> SUFFICES ASSUME Typed, Kept, PauseHasOneReason, OwnerAsked, [Next]_vars PROVE OwnerAsked'
  OBVIOUS
<1>1. CASE Turn \/ UNCHANGED vars
  BY <1>1 DEF Turn, vars, ctrl, history, OwnerAsked
<1>2. ASSUME NEW a \in Api, Persist(a) PROVE OwnerAsked'
  BY <1>2 DEF Persist, Snapshot, Save, ctrl, history, OwnerAsked
<1> QED
  BY <1>1, <1>2, AskedOwner, AskedCycle, AskedRestart DEF Next

(* Every pause has one author.  Over restarts too, the desk may end a pause  *)
(* by itself exactly when the owner did not make it, and a pause it may not  *)
(* end is one the owner asked for (resume_after_safe_recovery, hydrate,      *)
(* durable_authorization_state).                                             *)
THEOREM PausesHaveAuthors ==
    Spec => [](/\ PauseHasOneReason
               /\ MayResume <=> state = "PAUSED" /\ ~ownerPaused
               /\ state = "PAUSED" /\ ~MayResume => hold = "paused")
<1>1. PauseHasOneReason /\ Typed => (MayResume <=> state = "PAUSED" /\ ~ownerPaused)
  BY DEF PauseHasOneReason, MayResume, Typed, Controller
<1>2. PauseHasOneReason /\ Typed /\ OwnerAsked => (state = "PAUSED" /\ ~MayResume => hold = "paused")
  BY <1>1 DEF OwnerAsked, Typed, Controller
<1> QED
  BY <1>1, <1>2, ReasonInit, ReasonStep, TypedInit, TypedStep, KeptInit, KeptStep,
     AskedInit, AskedStep, PTL DEF Spec
=============================================================================
