---------------------- MODULE PositionManagement_proofs ----------------------
(* What PositionManagement guarantees for every value of its constants.     *)
EXTENDS PositionManagement, TLAPS

USE DEF Level, Price, State

-----------------------------------------------------------------------------
(* The operators on rows, snapshots and the managed position.               *)

(* The largest of three levels is one of them.                              *)
LEMMA MaxOfThree ==
    ASSUME NEW a \in Level, NEW b \in Level
    PROVE  Max({1, a, b}) \in {1, a, b}
<1>1. \E x \in {1, a, b} : \A y \in {1, a, b} : x >= y
  OBVIOUS
<1> QED
  BY <1>1 DEF Max

(* A read of the book is a row of the stop there, or none at all.           *)
LEMMA ReadsAreTrue ==
    ASSUME TypeOK, NEW r, Reads(r) \/ (Fault /\ r \in Truth)
    PROVE  /\ r \in Row
           /\ r.sl >= 2 => sl >= 2
           /\ r = Absent => ~open
           /\ faults' \in 0..MaxFaults
<1> USE BoundAssumption DEF TypeOK, Row, At, Absent, Empty, Failed
<1>1. CASE r \in Truth /\ UNCHANGED faults
  BY <1>1 DEF Truth
<1>2. CASE Fault /\ r \in {Failed, Empty}
  BY <1>2 DEF Fault
<1>3. CASE Fault /\ r \in Truth
  BY <1>3 DEF Fault, Truth
<1> QED
  BY <1>1, <1>2, <1>3 DEF Reads

LEMMA PersistedIsSnapshot ==
    ASSUME NEW m \in Memory
    PROVE  Persisted(m) \in Snapshot
BY DEF Persisted, Memory, Snapshot, NoSnapshot

LEMMA RegisteredIsMemory ==
    ASSUME NEW s \in Level, NEW n \in Snapshot
    PROVE  Registered(s, n) \in Memory
<1>1. Max({1, s, n.stop}) \in Level
  BY MaxOfThree DEF Snapshot
<1>2. Nothing \in Plan
  BY DEF Nothing, Plan, Kind
<1> QED
  BY <1>1, <1>2 DEF Registered, Memory, Snapshot

LEMMA OverlaidIsMemory ==
    ASSUME NEW m \in Memory, NEW n \in Snapshot
    PROVE  Overlaid(m, n) \in Memory
BY DEF Overlaid, Memory, Snapshot

LEMMA CorrectedIsMemory ==
    ASSUME NEW m \in Memory, NEW r \in Row
    PROVE  Corrected(m, r) \in Memory
BY DEF Corrected, Memory, Row

LEMMA PlansArePlans ==
    ASSUME NEW m \in Memory, NEW r \in Row, NEW p \in Plans(m, r)
    PROVE  p \in Plan
<1>1. Protective(m) \in Level
  BY DEF Protective, Memory
<1>2. Progress(m) \in Plan
  BY DEF Progress, Do, Plan, Kind, Nothing
<1> QED
  BY <1>1, <1>2 DEF Plans, Do, Plan, Kind, Nothing

LEMMA UnknownIsMemory == Unknown \in Memory /\ NoSnapshot \in Snapshot
                            /\ Nothing \in Plan /\ Empty \in Row
BY DEF Unknown, Memory, Nothing, Plan, Kind, NoSnapshot, Snapshot, Empty, Row

-----------------------------------------------------------------------------
(* Type correctness.                                                        *)

LocalsOK ==
    /\ at \in [Thread -> {"idle", "file", "recover", "look", "evaluate", "send",
                          "confirm", "persist"}]
    /\ snap \in [Thread -> Snapshot] /\ row \in [Thread -> Row]
    /\ plan \in [Thread -> Plan] /\ held \in [Thread -> BOOLEAN]

(* The end of a ticket's turn leaves the locals of the round in their sets. *)
LEMMA DoneLocals ==
    ASSUME TypeOK, NEW t \in Thread, NEW l \in {"idle", "persist"}, Done(t, l)
    PROVE  LocalsOK'
<1>1. at' \in [Thread -> {"idle", "file", "recover", "look", "evaluate", "send",
                          "confirm", "persist"}]
  BY DEF Done, Goto, TypeOK
<1>2. row' \in [Thread -> Row] /\ plan' \in [Thread -> Plan]
  BY UnknownIsMemory DEF Done, TypeOK
<1>3. held' \in [Thread -> BOOLEAN] /\ snap' \in [Thread -> Snapshot]
  BY DEF Done, TypeOK
<1> QED
  BY <1>1, <1>2, <1>3 DEF LocalsOK

(* What happens at the broker leaves stop and history in their sets.        *)
LEMMA HappensTypes ==
    ASSUME TypeOK, NEW p \in Plan, Happens(p)
    PROVE  /\ open' \in BOOLEAN /\ sl' \in Level /\ price' = price
           /\ flatten' = flatten /\ beSeen' \in BOOLEAN /\ misled' = misled
<1>1. CASE IsStop(p)
  <2>1. sl' = p.sl /\ p.sl \in Level
    BY <1>1 DEF Happens, Plan
  <2>2. open' = open /\ price' = price /\ flatten' = flatten /\ misled' = misled
    BY <1>1 DEF Happens
  <2>3. beSeen' \in BOOLEAN
    BY <1>1 DEF Happens, TypeOK
  <2> QED
    BY <2>1, <2>2, <2>3 DEF TypeOK
<1>2. CASE ~IsStop(p)
  <2>1. open' = FALSE /\ sl' = 0 /\ price' = price /\ flatten' = flatten
        /\ beSeen' = beSeen /\ misled' = misled
    BY <1>2 DEF Happens, history
  <2>2. sl' \in Level
    BY <2>1
  <2>3. beSeen' \in BOOLEAN
    BY <2>1, Zenon DEF TypeOK
  <2>4. open' \in BOOLEAN
    BY <2>1
  <2> QED
    BY <2>1, <2>2, <2>3, <2>4
<1> QED
  BY <1>1, <1>2

(* An answer taken for success leaves memory and locals in their sets.      *)
LEMMA ApplyTypes ==
    ASSUME TypeOK, NEW t \in Thread, NEW s \in Level, Apply(t, s)
    PROVE  mem' \in Memory /\ LocalsOK'
<1>1. mem' \in Memory
  <2>1. Target(plan[t]) \in State
    BY DEF Target
  <2>2. plan[t] \in Plan /\ mem \in Memory
    BY DEF TypeOK
  <2> QED
    BY <2>1, <2>2 DEF Apply, Memory
<1>2. Done(t, "persist") \/ Done(t, "idle")
  BY DEF Apply
<1> QED
  BY <1>1, <1>2, DoneLocals

LEMMA TypeInit == Init => TypeOK
<1> SUFFICES ASSUME Init PROVE TypeOK
  OBVIOUS
<1> USE StartAssumption, BoundAssumption, UnknownIsMemory
<1>1. LocalsOK
  BY DEF Init, LocalsOK
<1>2. price \in Price /\ sl \in Level /\ turns \in 0..MaxTurns
      /\ faults \in 0..MaxFaults
  BY DEF Init
<1>3. mem \in Memory /\ file \in Snapshot
  BY DEF Init
<1>4. open \in BOOLEAN /\ flatten \in BOOLEAN /\ beSeen \in BOOLEAN
      /\ misled \in BOOLEAN
  BY DEF Init
<1> QED
  BY <1>1, <1>2, <1>3, <1>4 DEF TypeOK, LocalsOK

(* The steps of a round that read the book or the file.                     *)
LEMMA TypeReading ==
    ASSUME TypeOK, NEW t \in Thread,
           Sync(t) \/ LoadFile(t) \/ Recover(t) \/ Look(t) \/ Persist(t)
    PROVE  TypeOK'
<1> USE UnknownIsMemory
<1>1. CASE Sync(t)
  <2> PICK r \in Row : /\ Reads(r)
                       /\ IF r.seen \in {"absent", "empty"}
                          THEN mem' = Unknown /\ held' = [u \in Thread |-> FALSE]
                          ELSE UNCHANGED <<mem, held>>
    BY <1>1 DEF Sync
  <2>1. mem' \in Memory /\ held' \in [Thread -> BOOLEAN]
    BY DEF TypeOK
  <2>2. faults' \in 0..MaxFaults
    BY ReadsAreTrue
  <2> QED
    BY <1>1, <2>1, <2>2 DEF Sync, Goto, TypeOK, broker, history
<1>2. CASE LoadFile(t)
  <2>1. snap' \in [Thread -> Snapshot]
    BY <1>2 DEF LoadFile, TypeOK
  <2>2. faults' \in 0..MaxFaults
    BY <1>2, BoundAssumption DEF LoadFile, Fault, TypeOK
  <2> QED
    BY <1>2, <2>1, <2>2 DEF LoadFile, Goto, TypeOK, broker, history
<1>3. CASE Recover(t)
  <2> PICK r \in Row :
        /\ mem' = IF r.seen # "row" THEN mem
                  ELSE IF mem.known THEN Overlaid(mem, snap[t])
                  ELSE Registered(r.sl, snap[t])
        /\ \/ Reads(r) /\ file' = IF r = Failed THEN file ELSE Persisted(mem')
           \/ Fault /\ r \in Truth /\ UNCHANGED file
    BY <1>3 DEF Recover
  <2>1. snap[t] \in Snapshot /\ mem \in Memory /\ r.sl \in Level
    BY DEF TypeOK, Row
  <2>2. mem' \in Memory
    BY <2>1, OverlaidIsMemory, RegisteredIsMemory
  <2>3. file' \in Snapshot
    BY <2>2, PersistedIsSnapshot DEF TypeOK
  <2>4. faults' \in 0..MaxFaults
    BY ReadsAreTrue
  <2> QED
    BY <1>3, <2>2, <2>3, <2>4 DEF Recover, Goto, TypeOK, broker, history
<1>4. CASE Look(t)
  <2> PICK r \in Row :
        /\ row' = [row EXCEPT ![t] = IF r = Failed THEN Empty ELSE r]
        /\ \/ Reads(r) /\ UNCHANGED misled
           \/ Fault /\ open /\ r = Absent /\ misled' = TRUE
    BY <1>4 DEF Look
  <2>1. row' \in [Thread -> Row]
    BY DEF TypeOK
  <2>2. faults' \in 0..MaxFaults
    BY ReadsAreTrue, BoundAssumption DEF Fault, TypeOK
  <2>3. misled' \in BOOLEAN
    BY DEF TypeOK
  <2> QED
    BY <1>4, <2>1, <2>2, <2>3 DEF Look, Goto, TypeOK, broker
<1>5. CASE Persist(t)
  <2>1. file' \in Snapshot
    BY <1>5, PersistedIsSnapshot DEF Persist, TypeOK
  <2>2. faults' \in 0..MaxFaults
    BY <1>5, BoundAssumption DEF Persist, Fault, TypeOK
  <2> QED
    BY <1>5, <2>1, <2>2 DEF Persist, Goto, TypeOK, broker, locals, history
<1> QED
  BY <1>1, <1>2, <1>3, <1>4, <1>5

(* The steps that evaluate.                                                 *)
LEMMA TypeEvaluating ==
    ASSUME TypeOK, NEW t \in Thread, Settle(t) \/ Evaluate(t)
    PROVE  TypeOK'
<1> USE UnknownIsMemory
<1>0. mem \in Memory /\ row[t] \in Row
  BY DEF TypeOK
<1>1. CASE Settle(t)
  <2>1. mem' \in Memory
    BY <1>0, <1>1, CorrectedIsMemory DEF Settle, Memory
  <2>2. LocalsOK'
    BY <1>1, DoneLocals DEF Settle
  <2> QED
    BY <1>1, <2>1, <2>2 DEF Settle, LocalsOK, TypeOK, broker, history
<1>2. CASE Evaluate(t)
  <2> DEFINE m == Corrected(mem, row[t])
  <2>0. m \in Memory
    BY <1>0, CorrectedIsMemory
  <2> HIDE DEF m
  <2> PICK p \in Plans(m, row[t]) :
        IF p = Nothing \/ p = m.fp \/ IsLocal(p)
        THEN /\ mem' = IF p # m.fp /\ IsLocal(p)
                       THEN [m EXCEPT !.st = Target(p), !.fp = p] ELSE m
             /\ Done(t, "persist")
        ELSE /\ mem' = m
             /\ row' = [row EXCEPT ![t] = Empty]
             /\ plan' = [plan EXCEPT ![t] = p]
             /\ held' = [held EXCEPT ![t] = TRUE]
             /\ Goto(t, "send")
             /\ UNCHANGED snap
    BY <1>2 DEF Evaluate, m
  <2>1. p \in Plan
    BY <1>0, <2>0, PlansArePlans
  <2>2. Target(p) \in State
    BY DEF Target
  <2>3. mem' \in Memory
    BY <2>0, <2>1, <2>2 DEF Memory
  <2>4. LocalsOK'
    <3>1. CASE Done(t, "persist")
      BY <3>1, DoneLocals
    <3>2. CASE /\ row' = [row EXCEPT ![t] = Empty]
               /\ plan' = [plan EXCEPT ![t] = p]
               /\ held' = [held EXCEPT ![t] = TRUE]
               /\ Goto(t, "send")
               /\ UNCHANGED snap
      BY <2>1, <3>2 DEF Goto, TypeOK, LocalsOK
    <3> QED
      BY <3>1, <3>2
  <2> QED
    BY <1>2, <2>3, <2>4 DEF Evaluate, LocalsOK, TypeOK, broker, history
<1> QED
  BY <1>1, <1>2

(* A request and its answer.                                                *)
LEMMA TypeRequesting ==
    ASSUME TypeOK, NEW t \in Thread,
           Execute(t) \/ ExecuteFails(t) \/ ExecuteHollow(t) \/ Confirm(t)
    PROVE  TypeOK'
<1>0. plan[t] \in Plan /\ plan[t].sl \in Level
  BY DEF TypeOK, Plan
<1>1. CASE Execute(t)
  <2>1. /\ open' \in BOOLEAN /\ sl' \in Level /\ price' = price
        /\ flatten' = flatten /\ beSeen' \in BOOLEAN /\ misled' = misled
    BY <1>0, <1>1, HappensTypes DEF Execute
  <2> QED
    BY <1>1, <2>1 DEF Execute, Goto, TypeOK, locals
<1>2. CASE ExecuteFails(t)
  <2>1. LocalsOK'
    BY <1>2, DoneLocals DEF ExecuteFails
  <2>2. faults' \in 0..MaxFaults
    BY <1>2, BoundAssumption DEF ExecuteFails, Fault, TypeOK
  <2>3. UNCHANGED <<broker, history>> \/ Happens(plan[t])
    BY <1>2 DEF ExecuteFails
  <2>4. /\ open' \in BOOLEAN /\ sl' \in Level /\ price' \in Price
        /\ flatten' \in BOOLEAN /\ beSeen' \in BOOLEAN /\ misled' \in BOOLEAN
    <3>1. CASE UNCHANGED <<broker, history>>
      BY <3>1 DEF broker, history, TypeOK
    <3>2. CASE Happens(plan[t])
      BY <1>0, <3>2, HappensTypes DEF TypeOK
    <3> QED
      BY <2>3, <3>1, <3>2
  <2>5. mem' = mem /\ file' = file /\ turns' = turns
    BY <1>2 DEF ExecuteFails, AfterFailure
  <2> QED
    BY <2>1, <2>2, <2>4, <2>5 DEF LocalsOK, TypeOK
<1>3. CASE ExecuteHollow(t)
  <2>1. faults' \in 0..MaxFaults /\ misled' \in BOOLEAN
    BY <1>3, BoundAssumption DEF ExecuteHollow, Fault, TypeOK
  <2> QED
    BY <1>3, <2>1 DEF ExecuteHollow, Goto, TypeOK, broker, locals
<1>4. CASE Confirm(t)
  <2>1. mem' \in Memory /\ LocalsOK' /\ faults' \in 0..MaxFaults
    <3>1. CASE IsStop(plan[t])
      <4> PICK r \in Row :
            /\ Reads(r)
            /\ IF r.seen = "row" /\ r.sl > 0 /\ r.sl >= plan[t].sl
               THEN Apply(t, r.sl)
               ELSE UNCHANGED mem /\ Done(t, "persist")
        BY <1>4, <3>1 DEF Confirm
      <4>1. r.sl \in Level
        BY DEF Row
      <4>2. CASE Apply(t, r.sl)
        BY <4>1, <4>2, ApplyTypes, ReadsAreTrue
      <4>3. CASE UNCHANGED mem /\ Done(t, "persist")
        BY <4>3, DoneLocals, ReadsAreTrue DEF TypeOK
      <4> QED
        BY <4>2, <4>3
    <3>2. CASE ~IsStop(plan[t])
      BY <1>4, <3>2, ApplyTypes DEF Confirm, TypeOK
    <3> QED
      BY <3>1, <3>2
  <2> QED
    BY <1>4, <2>1 DEF Confirm, LocalsOK, TypeOK, broker, history
<1> QED
  BY <1>1, <1>2, <1>3, <1>4

(* The broker, the owner and the process.                                   *)
LEMMA TypeElsewhere ==
    ASSUME TypeOK, Move \/ CloseElsewhere \/ TouchStop \/ AskFlat \/ Restart
    PROVE  TypeOK'
<1>1. CASE Move
  <2>1. price' \in Price /\ turns' \in 0..MaxTurns
    BY <1>1, BoundAssumption DEF Move, Turn, TypeOK
  <2> QED
    BY <1>1, <2>1 DEF Move, TypeOK, locals, history
<1>2. CASE CloseElsewhere
  <2>1. open' = FALSE /\ sl' = 0
    BY <1>2 DEF CloseElsewhere
  <2>2. UNCHANGED <<price, flatten, mem, file, at, locals, turns, faults, history>>
    BY <1>2 DEF CloseElsewhere
  <2> QED
    <3>1. LocalsOK'
      BY <2>2 DEF LocalsOK, TypeOK, locals
    <3>2. price' \in Price /\ mem' \in Memory /\ file' \in Snapshot
          /\ turns' \in 0..MaxTurns /\ faults' \in 0..MaxFaults
      BY <2>2 DEF TypeOK
    <3>3. flatten' \in BOOLEAN /\ beSeen' \in BOOLEAN /\ misled' \in BOOLEAN
      BY <2>2 DEF TypeOK, history
    <3>4. open' \in BOOLEAN
      BY <2>1
    <3>5. sl' \in Level
      BY <2>1
    <3> QED
      BY <3>1, <3>2, <3>3, <3>4, <3>5 DEF TypeOK, LocalsOK
<1>3. CASE TouchStop
  <2>1. sl' \in Level /\ turns' \in 0..MaxTurns
    BY <1>3, BoundAssumption DEF TouchStop, Turn, TypeOK
  <2>2. beSeen' \in BOOLEAN
    BY <1>3 DEF TouchStop, TypeOK
  <2> QED
    BY <1>3, <2>1, <2>2 DEF TouchStop, TypeOK, locals
<1>4. CASE AskFlat
  <2>1. flatten' \in BOOLEAN /\ turns' \in 0..MaxTurns
    BY <1>4, BoundAssumption DEF AskFlat, Turn, TypeOK
  <2> QED
    BY <1>4, <2>1 DEF AskFlat, TypeOK, locals, history
<1>5. CASE Restart
  <2>1. LocalsOK'
    BY <1>5, UnknownIsMemory DEF Restart, LocalsOK
  <2>2. mem' \in Memory /\ file' \in Snapshot
    BY <1>5, UnknownIsMemory DEF Restart, TypeOK
  <2>3. faults' \in 0..MaxFaults
    BY <1>5, BoundAssumption DEF Restart, Fault, TypeOK
  <2> QED
    BY <1>5, <2>1, <2>2, <2>3 DEF Restart, LocalsOK, TypeOK, broker, history
<1> QED
  BY <1>1, <1>2, <1>3, <1>4, <1>5

LEMMA TypeStep == TypeOK /\ [Next]_vars => TypeOK'
<1> SUFFICES ASSUME TypeOK, [Next]_vars PROVE TypeOK'
  OBVIOUS
<1>1. CASE Next
  BY <1>1, TypeReading, TypeEvaluating, TypeRequesting, TypeElsewhere
     DEF Next, Round
<1>2. CASE UNCHANGED vars
  BY <1>2 DEF vars, broker, locals, history, TypeOK
<1> QED
  BY <1>1, <1>2

(* Every variable stays in its set: position, memory, file and rounds.      *)
THEOREM TypeCorrect == Spec => []TypeOK
BY TypeInit, TypeStep, PTL DEF Spec

-----------------------------------------------------------------------------
(* Break-even is real.  Whoever speaks of a stop at break-even or of a      *)
(* state past it, the memory, the file, a copy of the file or a row, does   *)
(* so because the broker's stop has been there.                             *)

Past(m) == m.st \in {"BE_MOVED", "PARTIAL", "TRAILING"} \/ m.stop >= 2

Known ==
    /\ sl >= 2 => beSeen
    /\ Past(mem) => beSeen
    /\ Past(file) => beSeen
    /\ \A t \in Thread : Past(snap[t]) => beSeen
    /\ \A t \in Thread : row[t].sl >= 2 => beSeen

\* A break-even that is asked of the broker is one.
Asked == \A t \in Thread : plan[t].kind = "be" => plan[t].sl >= 2

LEMMA PastUnknown == ~Past(Unknown) /\ ~Past(NoSnapshot) /\ Empty.sl = 0
BY DEF Past, Unknown, NoSnapshot, Empty

LEMMA PastPersisted ==
    ASSUME NEW m \in Memory, Past(Persisted(m))
    PROVE  Past(m)
BY PastUnknown DEF Past, Persisted

LEMMA PastRegistered ==
    ASSUME NEW s \in Level, NEW n \in Snapshot, Past(Registered(s, n))
    PROVE  s >= 2 \/ Past(n)
<1>1. Max({1, s, n.stop}) \in {1, s, n.stop}
  BY MaxOfThree DEF Snapshot
<1> QED
  BY <1>1 DEF Past, Registered, Snapshot

LEMMA PastOverlaid ==
    ASSUME NEW m \in Memory, NEW n \in Snapshot, Past(Overlaid(m, n))
    PROVE  Past(m) \/ Past(n)
BY DEF Past, Overlaid, Memory, Snapshot

LEMMA PastCorrected ==
    ASSUME NEW m \in Memory, NEW r \in Row, Past(Corrected(m, r))
    PROVE  Past(m) \/ r.sl >= 2
BY DEF Past, Corrected, Memory, Row

(* A plan of a break-even either carries the stop or follows one.           *)
LEMMA PlansOfBreakEven ==
    ASSUME NEW m \in Memory, NEW r \in Row, NEW p \in Plans(m, r)
    PROVE  /\ p.kind = "be" => p.sl >= 2 \/ Past(m)
           /\ p.kind = "be" /\ p.sl < 2 => IsLocal(p)
           /\ p.kind = "partial" => m.st = "BE_MOVED"
           /\ p.kind = "partial" => p.sl = 0
<1>1. Progress(m).kind = "be" =>
         /\ Progress(m) = Do("be", IF m.stop < 2 THEN 2 ELSE 0)
  BY DEF Progress, Do, Nothing
<1>2. Progress(m).kind = "partial" => m.st = "BE_MOVED" /\ Progress(m) = Do("partial", 0)
  BY DEF Progress, Do, Nothing
<1>3. CASE p = Progress(m)
  <2>1. m.stop \in Level
    BY DEF Memory
  <2> QED
    BY <1>1, <1>2, <1>3, <2>1 DEF Do, IsLocal, Past
<1>4. CASE p.kind \notin {"be", "partial"}
  BY <1>4
<1>5. p = Progress(m) \/ p.kind \in {"none", "shutdown", "exit", "restore"}
  BY DEF Plans, Do, Nothing
<1> QED
  BY <1>3, <1>4, <1>5

(* Whatever is applied with a stop the broker has shown speaks the truth.   *)
LEMMA PastApplied ==
    ASSUME TypeOK, NEW t \in Thread, NEW s \in Level, Apply(t, s), Past(mem')
    PROVE  \/ Past(mem) \/ s >= 2
           \/ IsStop(plan[t]) /\ plan[t].kind = "be"
<1>0. mem \in Memory /\ plan[t] \in Plan
  BY DEF TypeOK
<1>1. CASE mem' = mem
  BY <1>1
<1>2. CASE mem' = [mem EXCEPT !.stop = s]
  BY <1>0, <1>2 DEF Past, Memory
<1>3. CASE /\ Legal(mem.st, Target(plan[t]))
           /\ mem' = [mem EXCEPT !.st = Target(plan[t]), !.fp = plan[t],
                                 !.stop = IF IsStop(plan[t]) THEN s ELSE @]
  <2>1. mem'.st = Target(plan[t]) /\ mem'.stop \in {s, mem.stop}
    BY <1>0, <1>3 DEF Memory
  <2>2. \/ Target(plan[t]) = "EXITED"
        \/ plan[t].kind = "be"
        \/ mem.st \in {"BE_MOVED", "PARTIAL", "TRAILING"}
    BY <1>3 DEF Legal, Target
  <2> QED
    BY <2>1, <2>2 DEF Past, IsStop
<1> QED
  BY <1>1, <1>2, <1>3 DEF Apply

(* The stop's history only grows.                                           *)
LEMMA SeenStays ==
    ASSUME [Next]_vars, beSeen
    PROVE  beSeen'
<1>1. ASSUME NEW p, Happens(p) PROVE beSeen'
  BY <1>1 DEF Happens, history
<1>2. ASSUME NEW t \in Thread, Round(t) PROVE beSeen'
  BY <1>1, <1>2
     DEF Round, LoadFile, Recover, Look, Settle, Evaluate, Execute, ExecuteFails,
         ExecuteHollow, Confirm, Persist, history
<1>3. ASSUME NEW t \in Thread, Sync(t) PROVE beSeen'
  BY <1>3 DEF Sync, history
<1>4. CASE Move \/ CloseElsewhere \/ TouchStop \/ AskFlat \/ Restart
  BY <1>4 DEF Move, CloseElsewhere, TouchStop, AskFlat, Restart, history
<1>5. CASE UNCHANGED vars
  BY <1>5 DEF vars, history
<1> QED
  BY <1>2, <1>3, <1>4, <1>5 DEF Next

(* Before the stop has been at break-even nobody speaks of it, and nobody   *)
(* begins to.                                                               *)
Silent ==
    /\ sl < 2
    /\ ~Past(mem) /\ ~Past(file)
    /\ \A t \in Thread : ~Past(snap[t])
    /\ \A t \in Thread : row[t].sl < 2

LEMMA SilentReading ==
    ASSUME TypeOK, Silent, NEW t \in Thread,
           Sync(t) \/ LoadFile(t) \/ Recover(t) \/ Look(t) \/ Persist(t)
    PROVE  Silent'
<1> USE PastUnknown
<1>0. sl' = sl
  BY DEF Sync, LoadFile, Recover, Look, Persist, broker
<1>1. CASE Sync(t)
  <2>1. ~Past(mem')
    BY <1>1 DEF Sync, Silent
  <2>2. file' = file /\ snap' = snap /\ row' = row
    BY <1>1 DEF Sync
  <2> QED
    BY <1>0, <2>1, <2>2 DEF Silent
<1>2. CASE LoadFile(t)
  <2>1. snap' = [snap EXCEPT ![t] = file] \/ snap' = snap
    BY <1>2 DEF LoadFile
  <2>2. \A u \in Thread : ~Past(snap'[u])
    BY <2>1 DEF Silent, TypeOK
  <2>3. mem' = mem /\ file' = file /\ row' = row
    BY <1>2 DEF LoadFile
  <2> QED
    BY <1>0, <2>2, <2>3 DEF Silent
<1>3. CASE Recover(t)
  <2> PICK r \in Row :
        /\ mem' = IF r.seen # "row" THEN mem
                  ELSE IF mem.known THEN Overlaid(mem, snap[t])
                  ELSE Registered(r.sl, snap[t])
        /\ \/ Reads(r) /\ file' = IF r = Failed THEN file ELSE Persisted(mem')
           \/ Fault /\ r \in Truth /\ UNCHANGED file
    BY <1>3 DEF Recover
  <2>1. snap[t] \in Snapshot /\ mem \in Memory /\ r.sl \in Level /\ mem' \in Memory
    BY TypeReading, <1>3 DEF TypeOK, Row
  <2>2. ~(r.sl >= 2)
    BY ReadsAreTrue DEF Silent, TypeOK
  <2>3. ~Past(mem')
    BY <2>1, <2>2, PastOverlaid, PastRegistered DEF Silent
  <2>4. ~Past(file')
    BY <2>1, <2>3, PastPersisted DEF Silent
  <2>5. \A u \in Thread : ~Past(snap'[u])
    BY <1>3 DEF Recover, Silent, TypeOK
  <2>6. row' = row
    BY <1>3 DEF Recover
  <2> QED
    BY <1>0, <2>3, <2>4, <2>5, <2>6 DEF Silent
<1>4. CASE Look(t)
  <2> PICK r \in Row :
        /\ row' = [row EXCEPT ![t] = IF r = Failed THEN Empty ELSE r]
        /\ \/ Reads(r) /\ UNCHANGED misled
           \/ Fault /\ open /\ r = Absent /\ misled' = TRUE
    BY <1>4 DEF Look
  <2>1. r.sl < 2
    BY ReadsAreTrue DEF Silent, TypeOK, Absent, Row
  <2>2. \A u \in Thread : row'[u].sl < 2
    BY <2>1 DEF Silent, TypeOK
  <2>3. mem' = mem /\ file' = file /\ snap' = snap
    BY <1>4 DEF Look
  <2> QED
    BY <1>0, <2>2, <2>3 DEF Silent
<1>5. CASE Persist(t)
  <2>1. ~Past(file')
    BY <1>5, PastPersisted DEF Persist, Silent, TypeOK
  <2>2. mem' = mem /\ snap' = snap /\ row' = row
    BY <1>5 DEF Persist, locals
  <2> QED
    BY <1>0, <2>1, <2>2 DEF Silent
<1> QED
  BY <1>1, <1>2, <1>3, <1>4, <1>5

(* The end of a ticket's turn empties the row and leaves the snapshots.     *)
LEMMA SilentDone ==
    ASSUME TypeOK, Silent, NEW t \in Thread, NEW l, Done(t, l)
    PROVE  /\ \A u \in Thread : ~Past(snap'[u])
           /\ \A u \in Thread : row'[u].sl < 2
BY PastUnknown DEF Done, Silent, TypeOK

LEMMA SilentEvaluating ==
    ASSUME TypeOK, Silent, NEW t \in Thread, Settle(t) \/ Evaluate(t)
    PROVE  Silent'
<1>0. mem \in Memory /\ row[t] \in Row /\ mem' \in Memory
  BY TypeEvaluating DEF TypeOK
<1>1. sl' = sl /\ file' = file
  BY DEF Settle, Evaluate, broker
<1> DEFINE m == Corrected(mem, row[t])
<1>2. ~Past(m) /\ m \in Memory
  BY <1>0, PastCorrected, CorrectedIsMemory DEF Silent, Row
<1> HIDE DEF m
<1>3. CASE Settle(t)
  <2>1. mem' \in {mem, m, [mem EXCEPT !.st = "EXITED"]}
    BY <1>3 DEF Settle, m
  <2>2. ~Past([mem EXCEPT !.st = "EXITED"])
    BY <1>0 DEF Silent, Past, Memory
  <2>3. ~Past(mem')
    BY <1>2, <2>1, <2>2 DEF Silent
  <2>4. Done(t, "persist")
    BY <1>3 DEF Settle
  <2> QED
    BY <1>1, <2>3, <2>4, SilentDone DEF Silent
<1>4. CASE Evaluate(t)
  <2> PICK p \in Plans(m, row[t]) :
        IF p = Nothing \/ p = m.fp \/ IsLocal(p)
        THEN /\ mem' = IF p # m.fp /\ IsLocal(p)
                       THEN [m EXCEPT !.st = Target(p), !.fp = p] ELSE m
             /\ Done(t, "persist")
        ELSE /\ mem' = m
             /\ row' = [row EXCEPT ![t] = Empty]
             /\ plan' = [plan EXCEPT ![t] = p]
             /\ held' = [held EXCEPT ![t] = TRUE]
             /\ Goto(t, "send")
             /\ UNCHANGED snap
    BY <1>4 DEF Evaluate, m
  <2>1. ~IsLocal(p)
    BY <1>0, <1>2, PlansOfBreakEven DEF IsLocal, Do, Past
  <2>2. mem' = m
    BY <2>1
  <2>3. /\ \A u \in Thread : ~Past(snap'[u])
        /\ \A u \in Thread : row'[u].sl < 2
    <3>1. CASE Done(t, "persist")
      BY <3>1, SilentDone
    <3>2. CASE row' = [row EXCEPT ![t] = Empty] /\ UNCHANGED snap
      BY <3>2, PastUnknown DEF Silent, TypeOK
    <3> QED
      BY <3>1, <3>2
  <2> QED
    BY <1>1, <1>2, <2>2, <2>3 DEF Silent
<1> QED
  BY <1>3, <1>4

(* A request leaves the stop below break-even only if it asks for less, and *)
(* its answer is believed only as far as the stop that is read.             *)
LEMMA SilentRequesting ==
    ASSUME TypeOK, Silent, Asked, NEW t \in Thread, ~beSeen',
           Execute(t) \/ ExecuteFails(t) \/ ExecuteHollow(t) \/ Confirm(t)
    PROVE  Silent'
<1>0. plan[t] \in Plan /\ mem \in Memory
  BY DEF TypeOK
<1>1. ASSUME Happens(plan[t]) PROVE sl' < 2
  <2>1. plan[t].sl \in Level
    BY <1>0 DEF Plan
  <2>2. CASE IsStop(plan[t])
    <3>1. sl' = plan[t].sl /\ (plan[t].sl >= 2 => beSeen')
      BY <1>1, <2>2 DEF Happens
    <3> QED
      BY <2>1, <3>1
  <2>3. CASE ~IsStop(plan[t])
    BY <1>1, <2>3 DEF Happens
  <2> QED
    BY <2>2, <2>3
<1>2. CASE Execute(t)
  BY <1>1, <1>2 DEF Execute, Silent, locals
<1>3. CASE ExecuteFails(t)
  <2>1. sl' < 2
    BY <1>1, <1>3 DEF ExecuteFails, Silent, broker
  <2>2. mem' = mem /\ file' = file /\ Done(t, "persist")
    BY <1>3 DEF ExecuteFails, AfterFailure
  <2> QED
    BY <2>1, <2>2, SilentDone DEF Silent
<1>4. CASE ExecuteHollow(t)
  BY <1>4 DEF ExecuteHollow, Silent, broker, locals
<1>5. CASE Confirm(t)
  <2>1. sl' = sl /\ file' = file
    BY <1>5 DEF Confirm, broker
  <2>2. ~Past(mem') /\ (Done(t, "persist") \/ Done(t, "idle"))
    <3>1. CASE IsStop(plan[t])
      <4> PICK r \in Row :
            /\ Reads(r)
            /\ IF r.seen = "row" /\ r.sl > 0 /\ r.sl >= plan[t].sl
               THEN Apply(t, r.sl)
               ELSE UNCHANGED mem /\ Done(t, "persist")
        BY <1>5, <3>1 DEF Confirm
      <4>1. r.sl \in Level /\ ~(r.sl >= 2)
        BY ReadsAreTrue DEF Silent, TypeOK, Row
      <4>2. CASE r.sl >= plan[t].sl /\ Apply(t, r.sl)
        <5>1. plan[t].kind # "be"
          BY <1>0, <4>1, <4>2 DEF Asked, Plan
        <5>2. ~Past(mem')
          BY <4>1, <4>2, <5>1, PastApplied DEF Silent
        <5> QED
          BY <4>2, <5>2 DEF Apply
      <4>3. CASE UNCHANGED mem /\ Done(t, "persist")
        BY <4>3 DEF Silent
      <4> QED
        BY <4>2, <4>3
    <3>2. CASE ~IsStop(plan[t])
      <4>1. Apply(t, 0)
        BY <1>5, <3>2 DEF Confirm
      <4>2. ~Past(mem')
        BY <3>2, <4>1, PastApplied DEF Silent
      <4> QED
        BY <4>1, <4>2 DEF Apply
    <3> QED
      BY <3>1, <3>2
  <2> QED
    BY <2>1, <2>2, SilentDone DEF Silent
<1> QED
  BY <1>2, <1>3, <1>4, <1>5

LEMMA SilentElsewhere ==
    ASSUME TypeOK, Silent, ~beSeen',
           Move \/ CloseElsewhere \/ TouchStop \/ AskFlat \/ Restart
    PROVE  Silent'
<1>1. CASE Move \/ AskFlat
  BY <1>1 DEF Move, AskFlat, Silent, locals
<1>2. CASE CloseElsewhere
  BY <1>2 DEF CloseElsewhere, Silent, locals
<1>3. CASE TouchStop
  <2>1. sl' < 2
    <3>1. sl' \in Level
      BY TypeElsewhere DEF TypeOK
    <3>2. sl' >= 2 => beSeen'
      BY <1>3 DEF TouchStop
    <3> QED
      BY <3>1, <3>2
  <2> QED
    BY <1>3, <2>1 DEF TouchStop, Silent, locals
<1>4. CASE Restart
  BY <1>4, PastUnknown DEF Restart, Silent, broker
<1> QED
  BY <1>1, <1>2, <1>3, <1>4

(* Every plan of a break-even that is sent carries its stop.                *)
LEMMA AskedStep ==
    ASSUME TypeOK, Asked, [Next]_vars
    PROVE  Asked'
<1>0. Nothing.kind # "be"
  BY DEF Nothing
<1>1. ASSUME NEW t \in Thread, NEW l, Done(t, l) PROVE Asked'
  BY <1>0, <1>1 DEF Done, Asked, TypeOK
<1>2. ASSUME plan' = plan PROVE Asked'
  BY <1>2 DEF Asked
<1>3. ASSUME NEW t \in Thread, Evaluate(t) PROVE Asked'
  <2> DEFINE m == Corrected(mem, row[t])
  <2>0. m \in Memory /\ row[t] \in Row
    BY CorrectedIsMemory DEF TypeOK
  <2> HIDE DEF m
  <2> PICK p \in Plans(m, row[t]) :
        \/ Done(t, "persist")
        \/ ~IsLocal(p) /\ plan' = [plan EXCEPT ![t] = p]
    BY <1>3 DEF Evaluate, m
  <2>1. CASE Done(t, "persist")
    BY <1>1, <2>1
  <2>2. CASE ~IsLocal(p) /\ plan' = [plan EXCEPT ![t] = p]
    <3>1. p.kind = "be" => p.sl >= 2
      BY <2>0, <2>2, PlansOfBreakEven, PlansArePlans DEF Plan
    <3> QED
      BY <2>2, <3>1 DEF Asked, TypeOK
  <2> QED
    BY <2>1, <2>2
<1>4. ASSUME NEW t \in Thread, Settle(t) \/ ExecuteFails(t) \/ Confirm(t)
      PROVE  Asked'
  <2>1. Done(t, "persist") \/ Done(t, "idle")
    BY <1>4 DEF Settle, ExecuteFails, Confirm, Apply
  <2> QED
    BY <1>1, <2>1
<1>5. ASSUME NEW t \in Thread,
             \/ Sync(t) \/ LoadFile(t) \/ Recover(t) \/ Look(t) \/ Execute(t)
             \/ ExecuteHollow(t) \/ Persist(t)
      PROVE  Asked'
  BY <1>2, <1>5
     DEF Sync, LoadFile, Recover, Look, Execute, ExecuteHollow, Persist, locals
<1>6. ASSUME Move \/ CloseElsewhere \/ TouchStop \/ AskFlat PROVE Asked'
  BY <1>2, <1>6 DEF Move, CloseElsewhere, TouchStop, AskFlat, locals
<1>7. ASSUME Restart PROVE Asked'
  BY <1>0, <1>7 DEF Restart, Asked
<1>8. ASSUME UNCHANGED vars PROVE Asked'
  BY <1>2, <1>8 DEF vars, locals
<1> QED
  BY <1>3, <1>4, <1>5, <1>6, <1>7, <1>8 DEF Next, Round

SeenInv == TypeOK /\ Known /\ Asked

LEMMA KnownInit == Init => Known /\ Asked
<1> SUFFICES ASSUME Init PROVE Known /\ Asked
  OBVIOUS
<1>1. Known
  BY PastUnknown DEF Init, Known
<1>2. Asked
  BY DEF Init, Asked, Nothing
<1> QED
  BY <1>1, <1>2

LEMMA KnownStep ==
    ASSUME SeenInv, [Next]_vars
    PROVE  SeenInv'
<1>1. TypeOK' /\ Asked'
  BY TypeStep, AskedStep DEF SeenInv
<1>2. CASE beSeen'
  BY <1>1, <1>2 DEF SeenInv, Known
<1>3. CASE ~beSeen'
  <2>1. ~beSeen
    BY <1>3, SeenStays
  <2>2. TypeOK /\ Asked /\ Known
    BY DEF SeenInv
  <2>3. \A t \in Thread : row[t].sl \in Level
    BY <2>2 DEF TypeOK, Row
  <2>4. sl \in Level
    BY <2>2 DEF TypeOK
  <2>5. Silent
    BY <2>1, <2>2, <2>3, <2>4 DEF Known, Silent
  <2>6. Silent'
    <3>1. ASSUME NEW t \in Thread, Sync(t) \/ Round(t) PROVE Silent'
      BY <1>3, <2>2, <2>5, <3>1, SilentReading, SilentEvaluating, SilentRequesting
         DEF Round
    <3>2. CASE Move \/ CloseElsewhere \/ TouchStop \/ AskFlat \/ Restart
      BY <1>3, <2>2, <2>5, <3>2, SilentElsewhere
    <3>3. CASE UNCHANGED vars
      BY <2>5, <3>3 DEF vars, broker, locals, Silent
    <3> QED
      BY <3>1, <3>2, <3>3 DEF Next
  <2>7. \A t \in Thread : row'[t].sl \in Level
    BY <1>1 DEF TypeOK, Row
  <2>8. sl' \in Level
    BY <1>1 DEF TypeOK
  <2>9. Known'
    BY <2>6, <2>7, <2>8 DEF Silent, Known
  <2> QED
    BY <1>1, <2>9 DEF SeenInv
<1> QED
  BY <1>2, <1>3

(* However many rounds run beside the cycle, whatever is answered, lost,    *)
(* reloaded, overlaid or restarted: the engine says break-even or more only *)
(* after the broker's stop has been there.                                  *)
THEOREM BreakEvenHolds == Spec => []BreakEvenIsReal
<1>1. Init => SeenInv
  BY TypeInit, KnownInit DEF SeenInv
<1>2. SeenInv /\ [Next]_vars => SeenInv'
  BY KnownStep
<1>3. SeenInv => BreakEvenIsReal
  BY DEF SeenInv, Known, Past, BreakEvenIsReal
<1> QED
  BY <1>1, <1>2, <1>3, PTL DEF Spec

-----------------------------------------------------------------------------
(* No open position is given up.  An exit is in the memory, in the file, in *)
(* a copy of the file, in a row without the ticket or in a confirmed close  *)
(* only if the position is closed or somebody was misled.                   *)

Missed == open => misled

Gone ==
    /\ mem.st = "EXITED" => Missed
    /\ file.st = "EXITED" => Missed
    /\ \A t \in Thread : snap[t].st = "EXITED" => Missed
    /\ \A t \in Thread : row[t] = Absent => Missed
    /\ \A t \in Thread : at[t] = "confirm" /\ ~IsStop(plan[t]) => Missed

(* A closed position stays closed, and who was misled stays so.             *)
LEMMA MissedStays ==
    ASSUME [Next]_vars, Missed
    PROVE  Missed'
<1>1. ASSUME UNCHANGED <<open, misled>> PROVE Missed'
  BY <1>1 DEF Missed
<1>2. ASSUME NEW p, Happens(p) PROVE Missed'
  BY <1>2 DEF Happens, Missed, history
<1>3. ASSUME NEW t \in Thread,
             \/ Sync(t) \/ LoadFile(t) \/ Recover(t) \/ Settle(t) \/ Evaluate(t)
             \/ Confirm(t) \/ Persist(t)
      PROVE  Missed'
  BY <1>1, <1>3
     DEF Sync, LoadFile, Recover, Settle, Evaluate, Confirm, Persist, broker, history
<1>4. ASSUME NEW t \in Thread, Look(t) PROVE Missed'
  <2>1. open' = open
    BY <1>4 DEF Look, broker
  <2>2. misled' = misled \/ misled' = TRUE
    BY <1>4 DEF Look
  <2> QED
    BY <2>1, <2>2 DEF Missed
<1>5. ASSUME NEW t \in Thread, Execute(t) \/ ExecuteFails(t) PROVE Missed'
  BY <1>1, <1>2, <1>5 DEF Execute, ExecuteFails, broker, history
<1>6. ASSUME NEW t \in Thread, ExecuteHollow(t) PROVE Missed'
  BY <1>6 DEF ExecuteHollow, Missed, broker
<1>7. ASSUME Move \/ TouchStop \/ AskFlat \/ Restart PROVE Missed'
  BY <1>1, <1>7 DEF Move, TouchStop, AskFlat, Restart, broker, history
<1>8. ASSUME CloseElsewhere PROVE Missed'
  BY <1>8 DEF CloseElsewhere, Missed
<1>9. ASSUME UNCHANGED vars PROVE Missed'
  BY <1>1, <1>9 DEF vars, broker, history
<1> QED
  BY <1>3, <1>4, <1>5, <1>6, <1>7, <1>8, <1>9 DEF Next, Round

(* While an open position has not been missed, nothing says it is gone.     *)
Here ==
    /\ mem.st # "EXITED" /\ file.st # "EXITED"
    /\ \A t \in Thread : snap[t].st # "EXITED"
    /\ \A t \in Thread : row[t] # Absent
    /\ \A t \in Thread : ~(at[t] = "confirm" /\ ~IsStop(plan[t]))

LEMMA NotGone ==
    /\ Unknown.st # "EXITED" /\ NoSnapshot.st # "EXITED" /\ Empty # Absent
BY DEF Unknown, NoSnapshot, Empty, Absent

(* The end of a ticket's turn leaves no row and no answer to come.          *)
LEMMA HereDone ==
    ASSUME TypeOK, Here, NEW t \in Thread, NEW l \in {"idle", "persist"}, Done(t, l)
    PROVE  /\ \A u \in Thread : snap'[u].st # "EXITED"
           /\ \A u \in Thread : row'[u] # Absent
           /\ \A u \in Thread : ~(at'[u] = "confirm" /\ ~IsStop(plan'[u]))
<1>1. /\ \A u \in Thread : snap'[u].st # "EXITED"
      /\ \A u \in Thread : row'[u] # Absent
  BY NotGone DEF Done, Here, TypeOK
<1>2. ASSUME NEW u \in Thread
      PROVE  ~(at'[u] = "confirm" /\ ~IsStop(plan'[u]))
  <2>1. CASE u = t
    BY <2>1 DEF Done, Goto, TypeOK
  <2>2. CASE u # t
    BY <2>2 DEF Done, Goto, TypeOK, Here
  <2> QED
    BY <2>1, <2>2
<1> QED
  BY <1>1, <1>2

(* A step to a place other than the answer brings no answer.                *)
LEMMA HereGoto ==
    ASSUME TypeOK, Here, NEW t \in Thread, NEW l, l # "confirm", Goto(t, l),
           plan' = plan
    PROVE  \A u \in Thread : ~(at'[u] = "confirm" /\ ~IsStop(plan'[u]))
BY DEF Goto, Here, TypeOK

LEMMA HereReading ==
    ASSUME TypeOK, Here, NEW t \in Thread, ~Missed',
           Sync(t) \/ LoadFile(t) \/ Recover(t) \/ Look(t) \/ Persist(t)
    PROVE  Here'
<1> USE NotGone
<1>0. \A u \in Thread : ~(at'[u] = "confirm" /\ ~IsStop(plan'[u]))
  <2>1. plan' = plan
    BY DEF Sync, LoadFile, Recover, Look, Persist, locals
  <2>2. Goto(t, "file") \/ Goto(t, "recover") \/ Goto(t, "look")
          \/ Goto(t, "evaluate") \/ Goto(t, "idle")
    BY DEF Sync, LoadFile, Recover, Look, Persist
  <2> QED
    BY <2>1, <2>2, HereGoto
<1>1. CASE Sync(t)
  <2>1. mem'.st # "EXITED"
    BY <1>1 DEF Sync, Here
  <2>2. file' = file /\ snap' = snap /\ row' = row
    BY <1>1 DEF Sync
  <2> QED
    BY <1>0, <2>1, <2>2 DEF Here
<1>2. CASE LoadFile(t)
  <2>1. snap' = [snap EXCEPT ![t] = file] \/ snap' = snap
    BY <1>2 DEF LoadFile
  <2>2. \A u \in Thread : snap'[u].st # "EXITED"
    BY <2>1 DEF Here, TypeOK
  <2>3. mem' = mem /\ file' = file /\ row' = row
    BY <1>2 DEF LoadFile
  <2> QED
    BY <1>0, <2>2, <2>3 DEF Here
<1>3. CASE Recover(t)
  <2> PICK r \in Row :
        /\ mem' = IF r.seen # "row" THEN mem
                  ELSE IF mem.known THEN Overlaid(mem, snap[t])
                  ELSE Registered(r.sl, snap[t])
        /\ file' = file \/ file' = Persisted(mem')
    BY <1>3 DEF Recover
  <2>1. snap[t].st # "EXITED" /\ mem \in Memory
    BY DEF TypeOK, Here
  <2>2. mem'.st # "EXITED"
    BY <2>1 DEF Overlaid, Registered, Memory, Here
  <2>3. file'.st # "EXITED"
    BY <2>2 DEF Persisted, Here
  <2>4. \A u \in Thread : snap'[u].st # "EXITED"
    BY <1>3 DEF Recover, Here, TypeOK
  <2>5. row' = row
    BY <1>3 DEF Recover
  <2> QED
    BY <1>0, <2>2, <2>3, <2>4, <2>5 DEF Here
<1>4. CASE Look(t)
  <2> PICK r \in Row :
        /\ row' = [row EXCEPT ![t] = IF r = Failed THEN Empty ELSE r]
        /\ \/ Reads(r) /\ UNCHANGED misled
           \/ Fault /\ open /\ r = Absent /\ misled' = TRUE
    BY <1>4 DEF Look
  <2>1. open /\ ~misled'
    BY <1>4 DEF Look, Missed, broker
  <2>2. r # Absent
    BY <2>1, ReadsAreTrue
  <2>3. \A u \in Thread : row'[u] # Absent
    BY <2>2 DEF Here, TypeOK
  <2>4. mem' = mem /\ file' = file /\ snap' = snap
    BY <1>4 DEF Look
  <2> QED
    BY <1>0, <2>3, <2>4 DEF Here
<1>5. CASE Persist(t)
  <2>1. file'.st # "EXITED"
    BY <1>5 DEF Persist, Persisted, Here
  <2>2. mem' = mem /\ snap' = snap /\ row' = row
    BY <1>5 DEF Persist, locals
  <2> QED
    BY <1>0, <2>1, <2>2 DEF Here
<1> QED
  BY <1>1, <1>2, <1>3, <1>4, <1>5

LEMMA HereEvaluating ==
    ASSUME TypeOK, Here, NEW t \in Thread, Settle(t) \/ Evaluate(t)
    PROVE  Here'
<1> USE NotGone
<1>0. mem \in Memory /\ row[t] \in Row /\ row[t] # Absent
  BY DEF TypeOK, Here
<1>1. file' = file
  BY DEF Settle, Evaluate
<1> DEFINE m == Corrected(mem, row[t])
<1>2. m.st # "EXITED" /\ m \in Memory
  <2>1. m.st # "EXITED"
    BY <1>0 DEF Corrected, Memory, Here
  <2> QED
    BY <1>0, <2>1, CorrectedIsMemory
<1> HIDE DEF m
<1>3. CASE Settle(t)
  <2>1. mem' = mem
    BY <1>0, <1>3 DEF Settle, Here
  <2>2. Done(t, "persist")
    BY <1>3 DEF Settle
  <2> QED
    BY <1>1, <2>1, <2>2, HereDone DEF Here
<1>4. CASE Evaluate(t)
  <2> PICK p \in Plans(m, row[t]) :
        IF p = Nothing \/ p = m.fp \/ IsLocal(p)
        THEN /\ mem' = IF p # m.fp /\ IsLocal(p)
                       THEN [m EXCEPT !.st = Target(p), !.fp = p] ELSE m
             /\ Done(t, "persist")
        ELSE /\ mem' = m
             /\ row' = [row EXCEPT ![t] = Empty]
             /\ plan' = [plan EXCEPT ![t] = p]
             /\ held' = [held EXCEPT ![t] = TRUE]
             /\ Goto(t, "send")
             /\ UNCHANGED snap
    BY <1>4 DEF Evaluate, m
  <2>1. IsLocal(p) => Target(p) # "EXITED"
    BY DEF IsLocal, Do, Target
  <2>2. mem'.st # "EXITED"
    BY <1>2, <2>1 DEF Memory
  <2>3. /\ \A u \in Thread : snap'[u].st # "EXITED"
        /\ \A u \in Thread : row'[u] # Absent
        /\ \A u \in Thread : ~(at'[u] = "confirm" /\ ~IsStop(plan'[u]))
    <3>1. CASE Done(t, "persist")
      BY <3>1, HereDone
    <3>2. CASE /\ row' = [row EXCEPT ![t] = Empty]
               /\ plan' = [plan EXCEPT ![t] = p]
               /\ Goto(t, "send")
               /\ UNCHANGED snap
      BY <3>2 DEF Goto, Here, TypeOK
    <3> QED
      BY <3>1, <3>2
  <2> QED
    BY <1>1, <2>2, <2>3 DEF Here
<1> QED
  BY <1>3, <1>4

(* A close that has happened closes the position, and one that has not      *)
(* misleads; an answer about a stop leads to no exit.                       *)
LEMMA HereRequesting ==
    ASSUME TypeOK, Here, NEW t \in Thread, ~Missed',
           Execute(t) \/ ExecuteFails(t) \/ ExecuteHollow(t) \/ Confirm(t)
    PROVE  Here'
<1>0. open' /\ ~misled'
  BY DEF Missed
<1>1. CASE Execute(t) \/ ExecuteHollow(t)
  <2>1. IsStop(plan[t])
    BY <1>0, <1>1 DEF Execute, ExecuteHollow, Happens
  <2>2. mem' = mem /\ file' = file /\ snap' = snap /\ row' = row /\ plan' = plan
    BY <1>1 DEF Execute, ExecuteHollow, locals
  <2>3. Goto(t, "confirm")
    BY <1>1 DEF Execute, ExecuteHollow
  <2>4. \A u \in Thread : ~(at'[u] = "confirm" /\ ~IsStop(plan'[u]))
    BY <2>1, <2>2, <2>3 DEF Goto, Here, TypeOK
  <2> QED
    BY <2>2, <2>4 DEF Here
<1>2. CASE ExecuteFails(t)
  <2>1. mem' = mem /\ file' = file /\ Done(t, "persist")
    BY <1>2 DEF ExecuteFails, AfterFailure
  <2> QED
    BY <2>1, HereDone DEF Here
<1>3. CASE Confirm(t)
  <2>1. IsStop(plan[t])
    BY <1>3 DEF Confirm, Here
  <2>2. file' = file
    BY <1>3 DEF Confirm
  <2> PICK r \in Row : Apply(t, r.sl) \/ (UNCHANGED mem /\ Done(t, "persist"))
    BY <1>3, <2>1 DEF Confirm
  <2>3. mem'.st # "EXITED"
    <3>1. mem \in Memory
      BY DEF TypeOK
    <3>2. CASE UNCHANGED mem
      BY <3>2 DEF Here
    <3>3. CASE mem' = [mem EXCEPT !.stop = r.sl]
      BY <3>1, <3>3 DEF Here, Memory
    <3>4. CASE /\ plan[t].kind # "restore"
               /\ mem' = [mem EXCEPT !.st = Target(plan[t]), !.fp = plan[t],
                                     !.stop = IF IsStop(plan[t]) THEN r.sl ELSE @]
      BY <2>1, <3>1, <3>4 DEF Here, Memory, IsStop, Target
    <3> QED
      BY <3>2, <3>3, <3>4 DEF Apply
  <2>4. Done(t, "persist") \/ Done(t, "idle")
    BY DEF Apply
  <2> QED
    BY <2>2, <2>3, <2>4, HereDone DEF Here
<1> QED
  BY <1>1, <1>2, <1>3

LEMMA HereElsewhere ==
    ASSUME TypeOK, Here, Move \/ CloseElsewhere \/ TouchStop \/ AskFlat \/ Restart
    PROVE  Here'
<1>1. CASE Restart
  BY <1>1, NotGone DEF Restart, Here
<1>2. CASE Move \/ CloseElsewhere \/ TouchStop \/ AskFlat
  BY <1>2 DEF Move, CloseElsewhere, TouchStop, AskFlat, Here, locals
<1> QED
  BY <1>1, <1>2

LEMMA GoneStep ==
    ASSUME TypeOK, Gone, [Next]_vars
    PROVE  Gone'
<1>1. CASE Missed'
  BY <1>1 DEF Gone
<1>2. CASE ~Missed'
  <2>1. ~Missed
    BY <1>2, MissedStays
  <2>2. Here
    BY <2>1 DEF Gone, Here
  <2>3. Here'
    <3>1. ASSUME NEW t \in Thread, Sync(t) \/ Round(t) PROVE Here'
      BY <1>2, <2>2, <3>1, HereReading, HereEvaluating, HereRequesting DEF Round
    <3>2. CASE Move \/ CloseElsewhere \/ TouchStop \/ AskFlat \/ Restart
      BY <2>2, <3>2, HereElsewhere
    <3>3. CASE UNCHANGED vars
      BY <2>2, <3>3 DEF vars, locals, Here
    <3> QED
      BY <3>1, <3>2, <3>3 DEF Next
  <2> QED
    BY <2>3 DEF Here, Gone
<1> QED
  BY <1>1, <1>2

LEMMA GoneInit == Init => Gone
BY NotGone DEF Init, Gone

(* The engine gives up no open position, over any number of rounds beside   *)
(* the cycle, faults and restarts, unless rows older than the position or a *)
(* close that did not happen have misled it.                                *)
THEOREM NoneIsAbandoned == Spec => []NoneAbandoned
<1>1. Init => TypeOK /\ Gone
  BY TypeInit, GoneInit
<1>2. TypeOK /\ Gone /\ [Next]_vars => TypeOK' /\ Gone'
  BY TypeStep, GoneStep
<1>3. Gone => NoneAbandoned
  BY DEF Gone, Missed, NoneAbandoned
<1> QED
  BY <1>1, <1>2, <1>3, PTL DEF Spec
=============================================================================
