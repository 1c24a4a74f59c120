--------------------------- MODULE ExecutionBridge ---------------------------
(***************************************************************************)
(* ExecutionBridge.handle, the last gate between a trading decision and    *)
(* the OMS, and the OMS ports behind it: the duplicate protection (the     *)
(* decision hashes, in memory and on disk), the kill switch, the Phase A   *)
(* ambiguity gate, the canary cap, and the port that submits again after   *)
(* a transient reject.                                                     *)
(*                                                                         *)
(* Calls of handle run in threads of a pool: the scheduler's cycle, a      *)
(* manual execute_now, and a cycle the watchdog gave up on but could not   *)
(* stop.  The bridge's lock protects single blocks of handle, never the    *)
(* whole of it, and disk and network are written outside it.               *)
(*                                                                         *)
(* The gateway and the broker are the environment: an order handed over is *)
(* executed or not, at any time, whatever its caller was told meanwhile.   *)
(* The gateway admits a request id once, for as long as it remembers it    *)
(* (GatewayOrderSend); every attempt of a call carries the same id.        *)
(***************************************************************************)
EXTENDS Integers, Sequences, FiniteSets, Functions

CONSTANTS
    Call,           \* calls of handle, each made once
    Hash,           \* decision hashes
    Mode,           \* the execution modes this instance visits
    Halt,           \* the positions of the kill switch it visits
    MaxHashes,      \* _max_executed_hashes
    CanaryCap,      \* canary_max_trades_per_day
    MaxDay,         \* bound on the days that pass
    MaxAttempts,    \* retry_max_attempts
    MaxRestarts,    \* bound on process restarts
    MaxFaults       \* bound on failed writes, lost disks, forgotten ids

Modes == {"shadow", "canary", "live"}

ASSUME HashAssumption == Hash # {}
ASSUME ModeAssumption == Mode \subseteq Modes /\ Mode # {}
ASSUME HaltAssumption == Halt \subseteq BOOLEAN /\ FALSE \in Halt
ASSUME LimitAssumption ==
    /\ MaxHashes \in Nat \ {0} /\ CanaryCap \in Nat /\ MaxDay \in Nat
    /\ MaxAttempts \in Nat \ {0} /\ MaxRestarts \in Nat /\ MaxFaults \in Nat

VARIABLES
    pc,             \* where a call is
    hash,           \* its decision hash
    mode,           \* the mode it read when it began
    on,             \* the day of its context
    outcome,        \* what became of it
    attempt,        \* how many times it has submitted, from 1
    snap,           \* the copy of the hash order it is about to write
    noted,          \* the copy of the ambiguous orders it is about to write
    executed,       \* _executed_hashes
    order,          \* _executed_hash_order, oldest first
    unverified,     \* _hashes_unverified, or never hydrated
    canary,         \* _canary_day, _canary_count
    opsMode,        \* the mode of the operations plane
    killed,         \* the kill switch: the halt mode is not ACTIVE
    ambiguous,      \* calls with an open record in the Phase A plane
    file, pg,       \* the durable copies of the hash order
    savedAmbiguous, \* the durable copy of the ambiguous orders
    today, restarts, faults,
    orders,         \* the order of each attempt of a call
    known,          \* what the gateway remembers of a call's request id
    kept,           \* history: calls that reserved their hash, not released
    lost,           \* history: hashes forgotten by eviction or by a restart
    restored,       \* history: hashes read back from the durable store
    before,         \* history: the ambiguous calls over when a call began
    lostMarks,      \* history: ambiguous calls whose record a restart lost
    atBroker,       \* history: calls past their last check when a halt came
    pastGuard       \* history: calls past the mode check when SHADOW came

callVars == <<pc, hash, mode, on, outcome, attempt, snap, noted>>
hashVars == <<executed, order, unverified>>
storeVars == <<file, pg, savedAmbiguous>>
planeVars == <<opsMode, killed, ambiguous>>
clockVars == <<today, restarts, faults>>
brokerVars == <<orders, known>>
history == <<kept, lost, restored, before, lostMarks, atBroker,
             pastGuard>>
vars == <<callVars, hashVars, canary, planeVars, storeVars, clockVars,
          brokerVars, history>>

Pc == {"idle", "load", "lookup", "gate", "canary", "reserve", "copy", "write",
       "recheck", "oms", "checks", "sending", "settle", "save", "keep", "count", "done"}
\* "blocked" is a refusal of the guarded port, which is never tried again;
\* "unknown" is an answer that _map_oms_outcome calls GATEWAY_FAILURE;
\* "raised" is a transport error that leaves handle as an exception.
Outcome == {"none", "shadow", "blocked", "refused", "filled", "unknown", "raised"}
Definite == {"blocked", "refused"}
Unclear == {"unknown", "raised"}
OrderState == {"none", "flight", "open", "dead"}
IdState == {"new", "known", "forgotten"}

TypeOK ==
    /\ pc \in [Call -> Pc]
    /\ hash \in [Call -> Hash]
    /\ mode \in [Call -> Modes]
    /\ on \in [Call -> 0 .. MaxDay]
    /\ outcome \in [Call -> Outcome]
    /\ attempt \in [Call -> 1 .. MaxAttempts]
    /\ snap \in [Call -> Seq(Hash)]
    /\ noted \in [Call -> SUBSET Call]
    /\ executed \subseteq Hash
    /\ order \in Seq(Hash)
    /\ unverified \in BOOLEAN
    /\ canary \in [day : 0 .. MaxDay, count : Nat]
    /\ opsMode \in Mode
    /\ killed \in BOOLEAN
    /\ ambiguous \subseteq Call
    /\ file \in Seq(Hash) /\ pg \in Seq(Hash)
    /\ savedAmbiguous \subseteq Call
    /\ today \in 0 .. MaxDay /\ restarts \in 0 .. MaxRestarts
    /\ faults \in 0 .. MaxFaults
    /\ orders \in [Call -> [1 .. MaxAttempts -> OrderState]]
    /\ known \in [Call -> IdState]
    /\ kept \subseteq Call
    /\ lost \subseteq Hash /\ restored \subseteq Hash
    /\ before \in [Call -> SUBSET Call]
    /\ lostMarks \subseteq Call
    /\ atBroker \subseteq Call /\ pastGuard \subseteq Call

\* The first start of the program, before anything is stored.
Init ==
    /\ pc = [c \in Call |-> "idle"]
    /\ hash = [c \in Call |-> CHOOSE h \in Hash : TRUE]
    /\ mode = [c \in Call |-> CHOOSE m \in Mode : TRUE]
    /\ on = [c \in Call |-> 0]
    /\ outcome = [c \in Call |-> "none"]
    /\ attempt = [c \in Call |-> 1]
    /\ snap = [c \in Call |-> <<>>]
    /\ noted = [c \in Call |-> {}]
    /\ executed = {} /\ order = <<>> /\ unverified = TRUE
    /\ canary = [day |-> 0, count |-> 0]
    /\ opsMode \in Mode
    /\ killed = FALSE
    /\ ambiguous = {} /\ savedAmbiguous = {}
    /\ file = <<>> /\ pg = <<>>
    /\ today = 0 /\ restarts = 0 /\ faults = 0
    /\ orders = [c \in Call |-> [i \in 1 .. MaxAttempts |-> "none"]]
    /\ known = [c \in Call |-> "new"]
    /\ kept = {} /\ lost = {} /\ restored = {}
    /\ before = [c \in Call |-> {}]
    /\ lostMarks = {} /\ atBroker = {} /\ pastGuard = {}

\* Mutant: an outcome handle does not have.
EndMisspelt(c, what) == outcome' = [outcome EXCEPT ![c] = "ended"]

\* Move a call from one point of handle to the next.
Step(c, from, to) == pc[c] = from /\ pc' = [pc EXCEPT ![c] = to]
End(c, what) == outcome' = [outcome EXCEPT ![c] = what]

-----------------------------------------------------------------------------
(* Up to the reservation of the hash. *)

\* handle reads the mode once.  What it needs later of its arguments is the
\* hash of the decision and the day of the context.
Begin(c, h) ==
    /\ Step(c, "idle", "load")
    /\ hash' = [hash EXCEPT ![c] = h]
    /\ mode' = [mode EXCEPT ![c] = opsMode]
    /\ on' = [on EXCEPT ![c] = today]
    /\ before' = [before EXCEPT ![c] =
                    {d \in Call : pc[d] = "done" /\ outcome[d] \in Unclear}]
    /\ UNCHANGED <<outcome, attempt, snap, noted, hashVars, canary, planeVars,
                   storeVars, clockVars, brokerVars, kept, lost, restored,
                   lostMarks, atBroker, pastGuard>>

LastOf(s, n) == SubSeq(s, IF Len(s) > n THEN Len(s) - n + 1 ELSE 1, Len(s))

\* s, then one by one the members of t that are not in it yet.
AddNew(s, t) ==
    LET all[i \in 0 .. Len(t)] ==
            IF i = 0 THEN s
            ELSE IF t[i] \in Range(all[i - 1]) THEN all[i - 1]
            ELSE Append(all[i - 1], t[i])
    IN  all[Len(t)]

\* list.remove, with the ValueError of an absent member suppressed.
Removed(s, h) ==
    IF h \notin Range(s) THEN s
    ELSE LET i == CHOOSE i \in DOMAIN s : s[i] = h /\ \A j \in 1 .. i - 1 : s[j] # h
         IN  SubSeq(s, 1, i - 1) \o SubSeq(s, i + 1, Len(s))

\* load_decision_hash_report: the file's hashes, then Postgres's new ones.
Loaded == LastOf(AddNew(AddNew(<<>>, file), pg), MaxHashes)

\* _ensure_hashes_loaded, under the bridge's lock; an unverified store is tried
\* again by every call, and refuses it while it stays so.
EnsureHashesLoaded(c) ==
    \/ /\ ~ unverified
       /\ Step(c, "load", "lookup")
       /\ UNCHANGED <<hashVars, lost, restored>>
    \/ /\ unverified
       /\ Step(c, "load", "done")
       /\ UNCHANGED <<hashVars, lost, restored>>
    \/ /\ unverified
       /\ Step(c, "load", "lookup")
       /\ executed' = executed \cup Range(Loaded)
       /\ order' = AddNew(order, Loaded)
       /\ unverified' = FALSE
       /\ lost' = lost \cup ({hash[d] : d \in kept} \ Range(Loaded))
       /\ restored' = restored \cup Range(Loaded)

Lookup(c) ==
    Step(c, "lookup", IF hash[c] \in executed THEN "done" ELSE "gate")

\* The gates that change nothing: the kill switch and the Phase A gate (halt,
\* open ambiguities), and those abstracted to a free choice: input hash, age,
\* eligibility, safety, burst latch, lots, zones.  Ambiguities are not resolved
\* within a process, so one step stands for reading them after the halt.
Gate(c) ==
    \/ Step(c, "gate", "done")
    \/ /\ ~ killed /\ ambiguous = {}
       /\ Step(c, "gate", IF mode[c] = "live" THEN "reserve" ELSE "canary")

\* Entering a day forgets the count of the other.
CanaryOn(day) == IF canary.day = day THEN canary ELSE [day |-> day, count |-> 0]

\* The canary cap, or, in shadow mode, the end: the hash is marked, in the set
\* only, and no order is made.  (Production validation ends a call likewise.)
CheckCanary(c) ==
    /\ mode[c] = "canary"
    /\ canary' = CanaryOn(on[c])
    /\ Step(c, "canary", IF canary'.count >= CanaryCap THEN "done" ELSE "reserve")
    /\ UNCHANGED <<executed, outcome>>

MarkExecuted(c) ==
    /\ mode[c] = "shadow"
    /\ Step(c, "canary", "done")
    /\ executed' = executed \cup {hash[c]}
    /\ End(c, "shadow")
    /\ UNCHANGED canary

\* Mutant: the hash is not looked up again when it is reserved.
ReserveUnchecked(c) ==
    /\ Step(c, "reserve", "copy")
    /\ LET longer == Append(order, hash[c])
           newOrder == LastOf(longer, MaxHashes)
           evicted == Range(longer) \ Range(newOrder) IN
       /\ order' = newOrder
       /\ executed' = (executed \cup {hash[c]}) \ evicted
       /\ lost' = lost \cup evicted
       /\ kept' = kept \cup {c}
       /\ canary' = IF mode[c] = "canary" THEN CanaryOn(on[c]) ELSE canary

\* The atomic reserve before the OMS.  The oldest hash makes room.
Reserve(c) ==
    \/ /\ hash[c] \in executed
       /\ Step(c, "reserve", "done")
       /\ UNCHANGED <<executed, order, canary, kept, lost>>
    \/ /\ hash[c] \notin executed
       /\ Step(c, "reserve", "copy")
       /\ LET longer == Append(order, hash[c])
              newOrder == LastOf(longer, MaxHashes)
              evicted == Range(longer) \ Range(newOrder) IN
          /\ order' = newOrder
          /\ executed' = (executed \cup {hash[c]}) \ evicted
          /\ lost' = lost \cup evicted
          /\ kept' = kept \cup {c}
          /\ canary' = IF mode[c] = "canary" THEN CanaryOn(on[c]) ELSE canary

-----------------------------------------------------------------------------
(* The durable copy, the second look at the kill switch, and the OMS. *)

\* _persist_hashes copies the order under the bridge's lock...
CopyOrder(c) ==
    /\ Step(c, "copy", "write")
    /\ snap' = [snap EXCEPT ![c] = order]

Fails(n) == faults' = faults + n /\ faults + n <= MaxFaults
\* A write that succeeds stores what is new, one that fails stores nothing.
Written(old, new, saved, n) ==
    \/ saved = new /\ n = 0
    \/ saved = old /\ n = 1

\* ... and persist_executed_hashes writes the copy, to the file and to Postgres,
\* after the lock is released; a failed write is only logged.
WriteCopy(c) ==
    /\ Step(c, "write", CASE outcome[c] = "none" -> "recheck"
                          [] outcome[c] = "filled" /\ mode[c] = "canary" -> "count"
                          [] OTHER -> "done")
    /\ \E n, m \in 0 .. 1 : /\ Written(file, snap[c], file', n)
                            /\ Written(pg, snap[c], pg', m)
                            /\ Fails(n + m)

\* A halt that arrived since the gate ends the call; its hash stays reserved.
Recheck(c) ==
    Step(c, "recheck", IF killed THEN "done" ELSE "oms")

\* Mutant: the mode is not read again.
GuardHaltOnly(c) ==
    \/ killed /\ Step(c, "oms", "settle") /\ End(c, "blocked")
    \/ ~ killed /\ Step(c, "oms", "checks") /\ UNCHANGED outcome

\* GuardedOmsSubmitPort reads the halt and the mode before anything else.
GuardSubmit(c) ==
    \/ /\ killed \/ opsMode = "shadow"
       /\ Step(c, "oms", "settle") /\ End(c, "blocked")
    \/ /\ ~ killed /\ opsMode # "shadow"
       /\ Step(c, "oms", "checks") /\ UNCHANGED outcome

\* run_submit stops before the broker: a check refuses, or a read failed in a
\* way the bridge takes for a gateway failure.
OmsRefuses(c) ==
    /\ Step(c, "checks", "settle")
    /\ \E o \in {"refused", "unknown"} : End(c, o)

SetOrder(c, i, to) == orders' = [orders EXCEPT ![c][i] = to]

\* Mutant: the OMS does not look at the kill switch again.
SubmitUnchecked(c) ==
    /\ Step(c, "checks", "sending") /\ UNCHANGED outcome
    /\ known' = [known EXCEPT ![c] = IF @ = "new" THEN "known" ELSE @]
    /\ SetOrder(c, attempt[c], "flight")

\* broker_submit_block_reason is clear: the order is handed over.  A request id
\* the gateway remembers is turned away with an error that raises.
Submit(c) ==
    /\ ~ killed
    /\ \/ /\ known[c] # "known"
          /\ Step(c, "checks", "sending") /\ UNCHANGED outcome
          /\ known' = [known EXCEPT ![c] = IF @ = "new" THEN "known" ELSE @]
          /\ SetOrder(c, attempt[c], "flight")
       \/ /\ known[c] = "known"
          /\ Step(c, "checks", "done") /\ End(c, "raised")
          /\ UNCHANGED brokerVars

\* gateway.submit returns, or raises through the OMS and the bridge.  A refused
\* order has opened nothing: the one answer for which that would be untrue, a
\* fill in part, takes a broker whose smallest lot is below the one lot of 0.01
\* that the gateway's guard lets in (order_guard.py:34, broker_min_lot).
Return(c) ==
    LET i == attempt[c] IN
    \/ /\ orders[c][i] = "open" /\ End(c, "filled")
       /\ Step(c, "sending", "settle") /\ UNCHANGED orders
    \/ /\ orders[c][i] = "flight" /\ End(c, "refused")
       /\ Step(c, "sending", "settle") /\ SetOrder(c, i, "dead")
    \/ /\ End(c, "unknown")
       /\ Step(c, "sending", "settle") /\ UNCHANGED orders
    \/ /\ End(c, "raised")
       /\ Step(c, "sending", "done") /\ UNCHANGED orders

\* RetryingOmsSubmitPort submits once more when the answer reads as transient:
\* its retcode is listed, or its message holds a token such as "requote" (the
\* message of a timeout does).
Retry(c) ==
    /\ outcome[c] \in {"refused", "unknown"} /\ attempt[c] < MaxAttempts
    /\ Step(c, "settle", "oms")
    /\ End(c, "none")
    /\ attempt' = [attempt EXCEPT ![c] = @ + 1]

-----------------------------------------------------------------------------
(* After the OMS has answered. *)

\* Mutant: an unclear answer is not recorded.
SettleUnmarked(c) ==
    /\ Step(c, "settle", IF outcome[c] = "unknown" THEN "save" ELSE "keep")
    /\ UNCHANGED <<ambiguous, noted>>

\* A GATEWAY_FAILURE opens an ambiguous order, and the plane saves a copy.
Settle(c) ==
    \/ /\ outcome[c] = "unknown"
       /\ Step(c, "settle", "save")
       /\ ambiguous' = ambiguous \cup {c}
       /\ noted' = [noted EXCEPT ![c] = ambiguous']
    \/ /\ outcome[c] # "unknown"
       /\ Step(c, "settle", "keep")
       /\ UNCHANGED <<ambiguous, noted>>

SaveAmbiguous(c) ==
    /\ Step(c, "save", "keep")
    /\ \E n \in 0 .. 1 : /\ Written(savedAmbiguous, noted[c], savedAmbiguous', n)
                         /\ Fails(n)

\* Mutant: a refused hash stays in the set.
KeepInSet(c) ==
    /\ Step(c, "keep", "copy")
    /\ IF outcome[c] \in Definite
       THEN /\ order' = Removed(order, hash[c])
            /\ kept' = kept \ {c} /\ UNCHANGED executed
       ELSE UNCHANGED <<executed, order, kept>>

\* A definite refusal releases the hash; then the order is written again.
KeepOrRelease(c) ==
    /\ Step(c, "keep", "copy")
    /\ IF outcome[c] \in Definite
       THEN /\ executed' = executed \ {hash[c]}
            /\ order' = Removed(order, hash[c])
            /\ kept' = kept \ {c}
       ELSE UNCHANGED <<executed, order, kept>>

CountCanary(c) ==
    /\ Step(c, "count", "done")
    /\ canary' = [CanaryOn(on[c]) EXCEPT !.count = @ + 1]

-----------------------------------------------------------------------------
(* The broker, the operators, the calendar, the process. *)

Execute(c, i) ==
    /\ orders[c][i] = "flight"
    /\ SetOrder(c, i, "open")
    /\ UNCHANGED <<callVars, hashVars, canary, planeVars, storeVars, clockVars,
                   known, history>>

\* The gateway restarts, or its registry evicts an id.
GatewayForgets(c) ==
    /\ known[c] = "known" /\ Fails(1)
    /\ known' = [known EXCEPT ![c] = "forgotten"]
    /\ UNCHANGED <<callVars, hashVars, canary, planeVars, storeVars, today,
                   restarts, orders, history>>

SetMode(m) ==
    /\ opsMode # m /\ opsMode' = m
    /\ pastGuard' = IF m = "shadow"
                    THEN {c \in Call : pc[c] \in {"checks", "sending"}} ELSE {}
    /\ UNCHANGED <<callVars, hashVars, canary, killed, ambiguous, storeVars,
                   clockVars, brokerVars, kept, lost, restored, before,
                   lostMarks, atBroker>>

SetHalt(halt) ==
    /\ killed # halt /\ killed' = halt
    /\ atBroker' = IF halt THEN {c \in Call : pc[c] = "sending"} ELSE {}
    /\ UNCHANGED <<callVars, hashVars, canary, opsMode, ambiguous, storeVars,
                   clockVars, brokerVars, kept, lost, restored, before, lostMarks,
                   pastGuard>>

NextDay ==
    /\ today < MaxDay
    /\ today' = today + 1
    /\ UNCHANGED <<callVars, hashVars, canary, planeVars, storeVars, restarts,
                   faults, brokerVars, history>>

\* The process dies in the middle of its calls.  The disk may be lost with it
\* (a container without a volume), and the plane's state may fail to load; the
\* mode and the halt that come back are left open here.
Restart ==
    /\ restarts < MaxRestarts /\ restarts' = restarts + 1
    /\ pc' = [c \in Call |-> IF pc[c] = "idle" THEN "idle" ELSE "done"]
    /\ executed' = {} /\ order' = <<>> /\ unverified' = TRUE
    /\ canary' = [day |-> 0, count |-> 0]
    /\ opsMode' \in Mode /\ killed' \in Halt
    /\ \E n, m \in 0 .. 1 : /\ Written(<<>>, file, file', n)
                            /\ Written({}, savedAmbiguous, ambiguous', m)
                            /\ Fails(n + m)
    /\ lostMarks' = lostMarks \cup ({c \in Call : outcome[c] = "unknown"} \ ambiguous')
    /\ atBroker' = {} /\ pastGuard' = {} /\ restored' = {}
    /\ UNCHANGED <<hash, mode, on, outcome, attempt, snap, noted, pg, savedAmbiguous, today,
                   brokerVars, kept, lost, before>>

-----------------------------------------------------------------------------
\* The steps of a call that touch only its own thread and the hashes.
HashStep(c) ==
    /\ \/ /\ EnsureHashesLoaded(c) /\ UNCHANGED <<canary, outcome, kept>>
       \/ /\ Lookup(c) \/ Gate(c)
          /\ UNCHANGED <<hashVars, canary, outcome, kept, lost, restored>>
       \/ /\ CheckCanary(c) \/ MarkExecuted(c)
          /\ UNCHANGED <<order, unverified, kept, lost, restored>>
       \/ /\ Reserve(c)
          /\ UNCHANGED <<unverified, outcome, restored>>
       \/ /\ KeepOrRelease(c)
          /\ UNCHANGED <<unverified, canary, outcome, lost, restored>>
       \/ /\ CountCanary(c)
          /\ UNCHANGED <<hashVars, outcome, kept, lost, restored>>
    /\ UNCHANGED <<hash, mode, on, attempt, snap, noted, planeVars, storeVars,
                   clockVars, brokerVars, before, lostMarks, atBroker, pastGuard>>

\* The steps of a call that reach the disk or the plane.
DurableStep(c) ==
    /\ \/ /\ CopyOrder(c)
          /\ UNCHANGED <<noted, ambiguous, storeVars, faults>>
       \/ /\ WriteCopy(c)
          /\ UNCHANGED <<snap, noted, ambiguous, savedAmbiguous>>
       \/ /\ Settle(c)
          /\ UNCHANGED <<snap, storeVars, faults>>
       \/ /\ SaveAmbiguous(c)
          /\ UNCHANGED <<snap, noted, ambiguous, file, pg>>
    /\ UNCHANGED <<hash, mode, on, outcome, attempt, hashVars, canary, opsMode,
                   killed, today, restarts, brokerVars, history>>

\* The steps of a call in the OMS and its ports.
OmsStep(c) ==
    /\ \/ Recheck(c) /\ UNCHANGED <<outcome, attempt, brokerVars>>
       \/ (GuardSubmit(c) \/ OmsRefuses(c)) /\ UNCHANGED <<attempt, brokerVars>>
       \/ Submit(c) /\ UNCHANGED attempt
       \/ Return(c) /\ UNCHANGED <<attempt, known>>
       \/ Retry(c) /\ UNCHANGED brokerVars
    /\ UNCHANGED <<hash, mode, on, snap, noted, hashVars, canary, planeVars,
                   storeVars, clockVars, history>>

Environment ==
    \/ \E c \in Call : GatewayForgets(c) \/ \E i \in 1 .. MaxAttempts : Execute(c, i)
    \/ \E m \in Mode : SetMode(m)
    \/ \E halt \in Halt : SetHalt(halt)
    \/ NextDay \/ Restart

Next ==
    \/ \E c \in Call : (\E h \in Hash : Begin(c, h)) \/ HashStep(c)
                       \/ DurableStep(c) \/ OmsStep(c)
    \/ Environment

Spec == Init /\ [][Next]_vars

-----------------------------------------------------------------------------
(* What the bridge guarantees. *)

Opened == {o \in Call \X (1 .. MaxAttempts) : orders[o[1]][o[2]] = "open"}
SubmittedAgain(o) == o[2] < attempt[o[1]]
Sent(c) == \E i \in 1 .. MaxAttempts : orders[c][i] \in {"flight", "open"}

\* One decision hash opens at most one order, over concurrent calls, repeated
\* attempts, unclear answers, late executions and restarts, unless the hash was
\* evicted or was missing from what a restart loaded ("Duplicate protection",
\* "Atomic reserve immediately before OMS"); unless one of the two orders was
\* submitted again before its fate was known, so that a refusal of the second
\* attempt released the hash of the first; and one call opens one order
\* unless the gateway forgot its request id between two attempts.
OneOrderPerDecision ==
    \A o, p \in Opened : o # p /\ hash[o[1]] = hash[p[1]] =>
        \/ hash[o[1]] \in lost
        \/ IF o[1] = p[1] THEN known[o[1]] = "forgotten"
                          ELSE SubmittedAgain(o) \/ SubmittedAgain(p)

\* A decision is blocked as a duplicate only for a reason: a call still holds
\* its hash, shadow mode marked it, or it was read from the durable store; a
\* definite refusal never blocks the retry ("Release on definitive broker/OMS
\* rejects so the next cycle can retry").
BlockedForAReason ==
    \A h \in executed \ restored :
        \E c \in Call : hash[c] = h /\ (c \in kept \/ outcome[c] = "shadow")

\* While the kill switch is armed, the only calls inside the broker's route are
\* those that had passed their last check when it was armed.
HaltAdmitsNoneNew ==
    killed => {c \in Call : pc[c] = "sending"} \subseteq atBroker

\* While the plane is in SHADOW, the only calls inside the OMS are those that
\* the guarded port had let in before.
ShadowAdmitsNoneNew ==
    opsMode = "shadow" => {c \in Call : pc[c] \in {"checks", "sending"}} \subseteq pastGuard

\* Neither closed door lets anyone through, whatever a call read before it was
\* closed.
ClosedDoorsAdmitNone == HaltAdmitsNoneNew /\ ShadowAdmitsNoneNew

\* A call that began after another was answered as a gateway failure does not
\* reach the broker, until a restart loses the record of the ambiguous order.
NoRiskAfterGatewayFailure ==
    \A c \in Call : Sent(c) =>
        \A d \in before[c] \ lostMarks : outcome[d] # "unknown"

-----------------------------------------------------------------------------
(* The gateway and the broker, as the bridge sees them.                        *)

Placed == {o \in Call \X (1 .. MaxAttempts) : orders[o[1]][o[2]] # "none"}
Passed == {[of |-> o, id |-> o[1], fate |-> orders[o[1]][o[2]]] : o \in Placed}

\* The order route of this module does nothing that OrderEntry rules out, which
\* GatewayOrderSend implements: each attempt is an order, under its call's id.
Gateway == INSTANCE OrderEntry WITH
    Order <- Call \X (1 .. MaxAttempts), Id <- Call, memory <- known, orders <- Passed
UsesOrderEntry == Gateway!Spec

-----------------------------------------------------------------------------
(* What the documentation says of the program, and the program does not do. *)

\* decision_hash_store.py: "prevent duplicate OMS submits after restart".
\* (Checked without any fault: every write succeeds, every load is complete.)
NoDuplicateAfterRestart ==
    \A o, p \in Opened : o[1] # p[1] => hash[o[1]] # hash[p[1]]

\* production_hardening/config.py: retcodes are retried that are "only
\* safe-to-retry (no ambiguous fill)": no attempt follows one whose order may
\* still be executed, or was.
RetriesAreSafe ==
    \A c \in Call : \A i \in 1 .. attempt[c] - 1 : orders[c][i] \in {"none", "dead"}

\* order_ambiguity.py: "When execution outcome is ambiguous, block NEW risk until
\* reconciled."
AmbiguousBlocksNewRisk ==
    \A c \in Call : pc[c] = "sending" => before[c] = {}
=============================================================================
