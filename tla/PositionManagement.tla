-------------------------- MODULE PositionManagement --------------------------
(***************************************************************************)
(* The management of one open position after its fill: the engine (PME),   *)
(* its snapshot file, and the rounds that drive it.                        *)
(*                                                                         *)
(* A round drops a ticket the broker no longer has, lays the file over the *)
(* engine's memory or registers the position from its broker row, writes   *)
(* the file, reads the book again, evaluates (at most one action), and     *)
(* writes the file.  The runtime's cycle runs one after the other; one     *)
(* started by hand, or left behind by a cycle that timed out, runs beside  *)
(* it on the same objects, without a lock.                                 *)
(*                                                                         *)
(* The position is a long of the smallest volume, the owner's limit: a     *)
(* partial close is an advance of the state alone.  be_moved and           *)
(* partial_done change together with the state and are read off it.        *)
(*                                                                         *)
(* Prices and stops are levels: 1 the initial stop, 2 break-even, 3 a      *)
(* trailed stop; at price p every stop up to p protects, break-even is due *)
(* from 2, partial and trail from 3.  A stop of 0 is a missing one.        *)
(***************************************************************************)
EXTENDS Integers, FiniteSetsExt

CONSTANTS
    Loop,           \* the thread of the runtime's cycle
    Beside,         \* threads of rounds beside it
    Start,          \* the prices at which management begins
    MayHold,        \* a closed market or momentum may hold the plan back
    MaxTurns,       \* bound on moves of price and stop, and on calls to go flat
    MaxFaults       \* bound on faults and restarts

ASSUME ThreadAssumption == Loop \notin Beside
ASSUME StartAssumption == Start \subseteq 0..3
ASSUME HoldAssumption == MayHold \in BOOLEAN
ASSUME BoundAssumption == MaxTurns \in Nat /\ MaxFaults \in Nat

Thread == Beside \cup {Loop}
Level == 0..3
Price == 0..3
State == {"OPEN", "BE_MOVED", "PARTIAL", "TRAILING", "EXITED"}

\* A planned action; also the fingerprint of the last one.
Kind == {"none", "restore", "be", "partial", "trail", "exit", "shutdown"}
Plan == [kind : Kind, sl : Level]
Nothing == [kind |-> "none", sl |-> 0]

\* What a read of the book says of the ticket.  An error of the terminal comes
\* as an empty book; one of the transport as a failure.
Row == [seen : {"row", "absent", "empty", "failed"}, sl : Level]
At(s) == [seen |-> "row", sl |-> s]
Absent == [seen |-> "absent", sl |-> 0]
Empty == [seen |-> "empty", sl |-> 0]
Failed == [seen |-> "failed", sl |-> 0]

\* A row of the snapshot file, or none.
Snapshot == [set : BOOLEAN, st : State, stop : Level]
NoSnapshot == [set |-> FALSE, st |-> "OPEN", stop |-> 0]

Memory == [known : BOOLEAN, st : State, stop : Level, fp : Plan]
Unknown == [known |-> FALSE, st |-> "OPEN", stop |-> 0, fp |-> Nothing]

VARIABLES
    open,           \* the position is open at the broker
    sl,             \* its stop there
    price,
    flatten,        \* daily loss, kill switch or news ask for a flat book
    mem,            \* the engine's managed position
    file,           \* its row in the snapshot file
    at,             \* where a thread is
    snap,           \* the row of the file a round has read
    row,            \* what its manage read saw
    plan,           \* what it has sent
    held,           \* its position object is still the engine's
    turns, faults,
    beSeen,         \* history: the broker's stop has been at break-even
    misled          \* history: a read has missed the open position, or a close
                    \* was confirmed that did not happen

broker == <<open, sl, price, flatten>>
locals == <<snap, row, plan, held>>
history == <<beSeen, misled>>
vars == <<broker, mem, file, at, locals, turns, faults, history>>

TypeOK ==
    /\ open \in BOOLEAN /\ sl \in Level /\ price \in Price /\ flatten \in BOOLEAN
    /\ mem \in Memory /\ file \in Snapshot
    /\ at \in [Thread -> {"idle", "file", "recover", "look", "evaluate", "send",
                          "confirm", "persist"}]
    /\ snap \in [Thread -> Snapshot] /\ row \in [Thread -> Row]
    /\ plan \in [Thread -> Plan] /\ held \in [Thread -> BOOLEAN]
    /\ turns \in 0..MaxTurns /\ faults \in 0..MaxFaults
    /\ beSeen \in BOOLEAN /\ misled \in BOOLEAN

\* The order has filled; the broker may not have kept its stop, and the price
\* may have run before the first round.
Init ==
    /\ open = TRUE /\ sl \in {0, 1} /\ price \in Start /\ flatten = FALSE
    /\ mem = Unknown /\ file = NoSnapshot
    /\ at = [t \in Thread |-> "idle"]
    /\ snap = [t \in Thread |-> NoSnapshot]
    /\ row = [t \in Thread |-> Empty]
    /\ plan = [t \in Thread |-> Nothing]
    /\ held = [t \in Thread |-> FALSE]
    /\ turns = 0 /\ faults = 0
    /\ beSeen = FALSE /\ misled = FALSE

Fault == faults < MaxFaults /\ faults' = faults + 1
Goto(t, l) == at' = [at EXCEPT ![t] = l]

\* The ticket is done with: l is the last write of the file, or "idle" when an
\* exception ends the round.
Done(t, l) ==
    /\ Goto(t, l)
    /\ row' = [row EXCEPT ![t] = Empty]
    /\ plan' = [plan EXCEPT ![t] = Nothing]
    /\ held' = [held EXCEPT ![t] = FALSE]
    /\ UNCHANGED snap

-----------------------------------------------------------------------------
(* Reading the book, the file.                                             *)

\* An empty list is all there is when no other position is open.
Truth == IF open THEN {At(sl)} ELSE {Absent, Empty}

Reads(r) ==
    \/ r \in Truth /\ UNCHANGED faults
    \/ Fault /\ r \in {Failed, Empty}

Persisted(m) ==
    IF m.known THEN [set |-> TRUE, st |-> m.st, stop |-> m.stop] ELSE NoSnapshot

\* recover_positions_from_mt5 on a ticket the engine does not manage.
Registered(s, snapshot) ==
    [known |-> TRUE,
     st |-> IF snapshot.st = "OPEN" /\ s >= 2 THEN "BE_MOVED" ELSE snapshot.st,
     stop |-> IF s >= 2 THEN s ELSE Max({1, s, snapshot.stop}),
     fp |-> Nothing]

\* ... and on one that it does.
Overlaid(m, snapshot) == IF snapshot.set THEN [m EXCEPT !.st = snapshot.st] ELSE m

\* force_sync_positions: a ticket the book does not hold is dropped.
Sync(t) ==
    /\ at[t] = "idle"
    /\ \E r \in Row :
          /\ Reads(r)
          /\ IF r.seen \in {"absent", "empty"}
             THEN mem' = Unknown /\ held' = [u \in Thread |-> FALSE]
             ELSE UNCHANGED <<mem, held>>
    /\ Goto(t, "file")
    /\ UNCHANGED <<broker, turns, file, snap, row, plan, history>>

\* A file that is missing, torn or unreadable counts as none.
LoadFile(t) ==
    /\ at[t] = "file"
    /\ \/ snap' = [snap EXCEPT ![t] = file] /\ UNCHANGED faults
       \/ Fault /\ UNCHANGED snap
    /\ Goto(t, "recover")
    /\ UNCHANGED <<broker, turns, mem, file, row, plan, held, history>>

\* The second read, overlay or registration, and the first write of the file,
\* which may fail unnoticed.
Recover(t) ==
    /\ at[t] = "recover"
    /\ \E r \in Row :
          /\ mem' = IF r.seen # "row" THEN mem
                    ELSE IF mem.known THEN Overlaid(mem, snap[t])
                    ELSE Registered(r.sl, snap[t])
          /\ \/ Reads(r) /\ file' = IF r = Failed THEN file ELSE Persisted(mem')
             \/ Fault /\ r \in Truth /\ UNCHANGED file
    /\ snap' = [snap EXCEPT ![t] = NoSnapshot]
    /\ Goto(t, "look")
    /\ UNCHANGED <<broker, turns, row, plan, held, history>>

\* The manage read: a failure leaves an empty list.  Rows from before the fill, cached late, miss the ticket.
Look(t) ==
    /\ at[t] = "look"
    /\ \E r \in Row :
          /\ row' = [row EXCEPT ![t] = IF r = Failed THEN Empty ELSE r]
          /\ \/ Reads(r) /\ UNCHANGED misled
             \/ Fault /\ open /\ r = Absent /\ misled' = TRUE
    /\ Goto(t, "evaluate")
    /\ UNCHANGED <<broker, turns, mem, file, snap, plan, held, beSeen>>

-----------------------------------------------------------------------------
(* evaluate.                                                               *)

Legal(from, to) ==
    \/ to = "EXITED" /\ from # "EXITED"
    \/ <<from, to>> \in {<<"OPEN", "BE_MOVED">>, <<"BE_MOVED", "PARTIAL">>,
                         <<"PARTIAL", "TRAILING">>, <<"TRAILING", "TRAILING">>}

\* Mutant: the action is taken for the state.
TargetUnmapped(p) == p.kind

\* The state an action leads to.
Target(p) ==
    CASE p.kind = "be" -> "BE_MOVED"
      [] p.kind = "partial" -> "PARTIAL"
      [] p.kind = "trail" -> "TRAILING"
      [] OTHER -> "EXITED"

Do(kind, s) == [kind |-> kind, sl |-> s]
IsStop(p) == p.kind \in {"restore", "be", "trail"}

\* The position as the broker row corrects it: a stop past break-even, the stop.
Corrected(m, r) ==
    IF r.seen = "row" /\ r.sl > 0
    THEN [m EXCEPT !.stop = r.sl,
                   !.st = IF @ = "OPEN" /\ r.sl >= 2 THEN "BE_MOVED" ELSE @]
    ELSE m

\* _protective_local_stop: the current stop, or the initial one, or none.
Protective(m) ==
    CASE m.stop > 0 /\ m.stop <= price -> m.stop
      [] ~(m.stop > 0 /\ m.stop <= price) /\ 1 <= price -> 1
      [] OTHER -> 0

\* Break-even, partial, trail, in this order.
Progress(m) ==
    CASE m.st = "OPEN" /\ price >= 2 -> Do("be", IF m.stop < 2 THEN 2 ELSE 0)
      [] m.st = "BE_MOVED" /\ price >= 3 -> Do("partial", 0)
      [] m.st \in {"PARTIAL", "TRAILING"} /\ price >= 3 /\ m.stop < 3 -> Do("trail", 3)
      [] OTHER -> Nothing

\* plan_action.  Spread, structure, time and the rest may ask for an exit; a
\* closed market, a structure or trend exit that is switched off, or momentum
\* that puts the break-even off, for no action at all.
Plans(m, r) ==
    IF flatten THEN {Do("shutdown", 0)}
    ELSE IF r = At(0)
    THEN {IF Protective(m) > 0 THEN Do("restore", Protective(m)) ELSE Do("exit", 0)}
    ELSE {Progress(m), Do("exit", 0)} \cup {p \in {Nothing} : MayHold}

\* Done without the broker: a partial of the smallest volume, a break-even
\* that the stop already stands at.
IsLocal(p) == p.kind = "partial" \/ p = Do("be", 0)

\* Mutant: an empty book closes the position as well.
SettleEmptyIsClosed(t) ==
    /\ at[t] = "evaluate"
    /\ \/ ~mem.known /\ UNCHANGED mem
       \/ mem.known /\ mem.st = "EXITED" /\ mem' = Corrected(mem, row[t])
       \/ /\ mem.known /\ mem.st # "EXITED" /\ row[t].seen # "row"
          /\ mem' = [mem EXCEPT !.st = "EXITED"]
    /\ Done(t, "persist")
    /\ UNCHANGED <<broker, turns, file, faults, history>>

\* No action: not managed, exited, or gone from a book that holds others, which
\* is a local exit.  An empty book says nothing.
Settle(t) ==
    /\ at[t] = "evaluate"
    /\ \/ ~mem.known /\ UNCHANGED mem
       \/ mem.known /\ mem.st = "EXITED" /\ mem' = Corrected(mem, row[t])
       \/ /\ mem.known /\ mem.st # "EXITED" /\ row[t] = Absent
          /\ mem' = [mem EXCEPT !.st = "EXITED"]
    /\ Done(t, "persist")
    /\ UNCHANGED <<broker, turns, file, faults, history>>

Evaluate(t) ==
    /\ at[t] = "evaluate"
    /\ mem.known /\ mem.st # "EXITED" /\ row[t] # Absent
    /\ LET m == Corrected(mem, row[t])
       IN \E p \in Plans(m, row[t]) :
            IF p = Nothing \/ p = m.fp \/ IsLocal(p)
            THEN /\ mem' = IF p # m.fp /\ IsLocal(p)
                           THEN [m EXCEPT !.st = Target(p), !.fp = p] ELSE m
                 /\ Done(t, "persist")
            ELSE /\ mem' = m
                 /\ row' = [row EXCEPT ![t] = Empty]
                 /\ plan' = [plan EXCEPT ![t] = p]
                 /\ held' = [held EXCEPT ![t] = TRUE]
                 /\ Goto(t, "send")
                 /\ UNCHANGED snap
    /\ UNCHANGED <<broker, turns, file, faults, history>>

-----------------------------------------------------------------------------
(* The OMS, the gateway and the broker; then the answer.                   *)

\* The gateway lets a stop only tighten; the broker wants it below the price.
Accepts(p) ==
    /\ open
    /\ IsStop(p) => p.sl >= sl /\ p.sl <= price

Happens(p) ==
    IF IsStop(p)
    THEN /\ sl' = p.sl /\ beSeen' = (beSeen \/ p.sl >= 2)
         /\ UNCHANGED <<open, price, flatten, misled>>
    ELSE open' = FALSE /\ sl' = 0 /\ UNCHANGED <<price, flatten, history>>

\* Mutant: a failed request is remembered as well.
AfterFailureRemembers(t) ==
    mem' = IF held[t] THEN [mem EXCEPT !.fp = plan[t]] ELSE mem

\* A failed request is not remembered: the next round tries again.
AfterFailure(t) == UNCHANGED mem

Execute(t) ==
    /\ at[t] = "send"
    /\ Accepts(plan[t])
    /\ Happens(plan[t])
    /\ Goto(t, "confirm")
    /\ UNCHANGED <<mem, file, locals, turns, faults>>

\* Refused, failed on the way, or done while the answer was lost.
ExecuteFails(t) ==
    /\ at[t] = "send"
    /\ \/ /\ ~Accepts(plan[t]) \/ (IsStop(plan[t]) /\ plan[t].sl = sl)
          /\ UNCHANGED <<broker, faults, history>>
       \/ Fault /\ UNCHANGED <<broker, history>>
       \/ Fault /\ Accepts(plan[t]) /\ Happens(plan[t])
    /\ AfterFailure(t)
    /\ Done(t, "persist")
    /\ UNCHANGED <<file, turns>>

\* Answered as done, and not done.
ExecuteHollow(t) ==
    /\ at[t] = "send"
    /\ Accepts(plan[t])
    /\ Fault
    /\ misled' = (misled \/ ~IsStop(plan[t]))
    /\ Goto(t, "confirm")
    /\ UNCHANGED <<broker, turns, mem, file, locals, beSeen>>

\* _apply_success with the stop the broker shows; an illegal transition raises
\* out of the round.  The object may no longer be the engine's.
Apply(t, s) ==
    LET p == plan[t]
    IN  IF ~held[t] THEN UNCHANGED mem /\ Done(t, "persist")
        ELSE IF p.kind = "restore"
        THEN mem' = [mem EXCEPT !.stop = s] /\ Done(t, "persist")
        ELSE IF Legal(mem.st, Target(p))
        THEN /\ mem' = [mem EXCEPT !.st = Target(p), !.fp = p,
                                   !.stop = IF IsStop(p) THEN s ELSE @]
             /\ Done(t, "persist")
        ELSE UNCHANGED mem /\ Done(t, "idle")

\* Mutant: the answer is taken for the stop.
ConfirmUnread(t) ==
    /\ at[t] = "confirm"
    /\ Apply(t, plan[t].sl)
    /\ UNCHANGED <<broker, turns, file, faults, history>>

\* A stop is read again and has to be there before it is believed.
Confirm(t) ==
    /\ at[t] = "confirm"
    /\ IF IsStop(plan[t])
       THEN \E r \in Row :
              /\ Reads(r)
              /\ IF r.seen = "row" /\ r.sl > 0 /\ r.sl >= plan[t].sl
                 THEN Apply(t, r.sl)
                 ELSE UNCHANGED mem /\ Done(t, "persist")
       ELSE Apply(t, 0) /\ UNCHANGED faults
    /\ UNCHANGED <<broker, turns, file, history>>

\* The last write of the file, which may fail unnoticed.
Persist(t) ==
    /\ at[t] = "persist"
    /\ \/ file' = Persisted(mem) /\ UNCHANGED faults
       \/ Fault /\ UNCHANGED file
    /\ Goto(t, "idle")
    /\ UNCHANGED <<broker, turns, mem, locals, history>>

-----------------------------------------------------------------------------
(* The broker, the owner at the terminal, the process.                     *)

Turn == turns < MaxTurns /\ turns' = turns + 1

Move ==
    /\ Turn
    /\ price' \in Price \ {price}
    /\ UNCHANGED <<open, sl, flatten, mem, file, at, locals, faults, history>>

\* The stop is hit, or somebody closes the position.
CloseElsewhere ==
    /\ open /\ open' = FALSE /\ sl' = 0
    /\ UNCHANGED <<price, flatten, mem, file, at, locals, turns, faults, history>>

\* The owner moves or removes the stop.
TouchStop ==
    /\ Turn
    /\ open
    /\ sl' \in 0..price \ {sl}
    /\ beSeen' = (beSeen \/ sl' >= 2)
    /\ UNCHANGED <<open, price, flatten, mem, file, at, locals, faults, misled>>

AskFlat ==
    /\ Turn
    /\ flatten' = ~flatten
    /\ UNCHANGED <<open, sl, price, mem, file, at, locals, faults, history>>

Restart ==
    /\ Fault
    /\ mem' = Unknown
    /\ file' \in {file, NoSnapshot}
    /\ at' = [t \in Thread |-> "idle"]
    /\ snap' = [t \in Thread |-> NoSnapshot]
    /\ row' = [t \in Thread |-> Empty]
    /\ plan' = [t \in Thread |-> Nothing]
    /\ held' = [t \in Thread |-> FALSE]
    /\ UNCHANGED <<broker, turns, history>>

-----------------------------------------------------------------------------

\* A round once it has begun.
Round(t) ==
    \/ LoadFile(t) \/ Recover(t) \/ Look(t) \/ Settle(t) \/ Evaluate(t)
    \/ Execute(t) \/ ExecuteFails(t) \/ ExecuteHollow(t) \/ Confirm(t) \/ Persist(t)

Next ==
    \/ \E t \in Thread : Sync(t) \/ Round(t)
    \/ Move \/ CloseElsewhere \/ TouchStop \/ AskFlat
    \/ Restart

\* The cycle comes round again and again, timeouts end every call, and nobody
\* has to start a round by hand.
Fairness ==
    /\ \A t \in Thread : WF_vars(Round(t))
    /\ WF_vars(Sync(Loop))

Spec == Init /\ [][Next]_vars /\ Fairness

-----------------------------------------------------------------------------

\* The engine says break-even, or a state past it, only if the broker's stop
\* has been there: whatever was answered, dropped, reloaded or overlaid.
BreakEvenIsReal ==
    mem.known /\ mem.st \in {"BE_MOVED", "PARTIAL", "TRAILING"} => beSeen

\* The engine gives no open position up as exited, unless rows that are older
\* than the position say so or a close is confirmed that did not happen.
NoneAbandoned == open /\ mem.known /\ mem.st = "EXITED" => misled

\* What a refused, failed or unconfirmed request was for is asked again until it
\* is so: a position without a stop gets one or is closed, and one that is open
\* while a flat book is asked for gets closed ("Do NOT fingerprint failed
\* manages").
FailuresAreRetried ==
    /\ open /\ sl = 0 ~> ~open \/ sl > 0 \/ misled
    /\ <>[]flatten => <>(~open \/ misled)

\* "advance lifecycle locally so trail / time-stop remain reachable"
TrailReached ==
    <>[](open /\ sl \in {1, 2} /\ price = 3 /\ ~flatten /\ ~misled) =>
        <>(mem.st = "TRAILING")
=============================================================================
