# TLA+ models of QuantForg's order path

QuantForg trades gold (XAUUSD) on a MetaTrader 5 account. A FastAPI platform
(`src/app`, `src/core`) decides, sizes, gates, submits and manages orders; a second small
FastAPI service on a Windows host (`src/services/mt5_gateway`) owns the MetaTrader 5
terminal and sends them to the broker. This directory models the part of the system
where a mistake costs money: the way of one decision from the last gate of the platform to
the broker's book, what manages the position afterwards, who may stop and start trading,
and the record of all this that has to survive a restart.

| module | models | checked with | proved in |
|---|---|---|---|
| `GatewayOrderSend` | the gateway's `/trade/order_send` and `/trade/order_cancel` | `MCGatewayOrderSend` | `GatewayOrderSend_proofs` |
| `GatewaySession` | the gateway's session requests and its heartbeat thread | `MCGatewaySession` | `GatewaySession_proofs` |
| `ExecutionBridge` | `ExecutionBridge.handle` and the OMS ports behind it | `MCExecutionBridge` | `ExecutionBridge_proofs` |
| `GatewayClient` | the platform's HTTP client: positions cache, shared reads, orders | `MCGatewayClient` | `GatewayClient_proofs` |
| `PositionManagement` | the management of a position from fill to close | `MCPositionManagement` | `PositionManagement_proofs` |
| `ControlPlane` | halt mode, kill flag, mode, run state, daily loss lock | `MCControlPlane` | `ControlPlane_proofs` |
| `LiveTrading` | the owner's authorisation of live trading | `MCLiveTrading` | `LiveTrading_proofs` |
| `OrderEntry` | what the order route promises (abstract) | implemented by `GatewayOrderSend`, kept to by the gateway in `ExecutionBridge` | |
| `DurableRecord` | what the operator state promises (abstract) | implemented by `OpsState` | |
| `OpsState` | the operator state: file, row, cached row | `MCOpsState` | `OpsState_proofs` |

The repository is large (some 340,000 lines; strategy, research, user interface and reporting are
most of it) and the models cover a small share of it: the code with concurrency, failure and
recovery on the way of an order.

## 1. Inventory

### The order pipeline

    market data -> ITE runtime (cycle) -> batch / position plan -> ExecutionBridge.handle
      -> RetryingOmsSubmitPort -> GuardedOmsSubmitPort -> InstitutionalOmsAdapter
      -> InstitutionalExecutionEngine.run_submit -> ExecutionGateway -> MT5Adapter
      -> gateway client (HTTP) -> MT5 gateway service -> MetaTrader5 -> broker

Calls are synchronous all the way down. What makes it concurrent is who calls: the
scheduler's `run_forever`, a manual `execute_now` (`institutional_ite_runtime.py:7500`) and a
cycle whose task the watchdog cancelled (`app/main.py:515-560`) but whose thread runs on
all reach the same bridge, engine and stores, on threads of a pool, beside the API's own
threads. The gateway handles each HTTP request in a thread of its own, and leaves a worker
thread behind whenever a MetaTrader5 call exceeds its time limit, because the library has
no cancel.

### Components

| component | state it keeps | operations | interacts with | what is hard | what makes it correct | module |
|---|---|---|---|---|---|---|
| Gateway order route (`order_guard.py`, `routers.py`, `runtime.py`) | id registry with TTL and capacity, `_mt5_ops_lock` | guard an order, claim its id, check, send, cancel | terminal, broker's book | reads and send not atomic, orphaned workers, registry lost in a restart | caps on positions and risk; an id opens one order; answers are true | `GatewayOrderSend` |
| Gateway session (`runtime.py`) | `_creds`, diagnostics, reconnect counters | connect, attach, disconnect, heartbeat, reconnect, late attach | terminal | heartbeat thread writes without `_lock`; calls left behind | what is shown is what the terminal is; the session comes back | `GatewaySession` |
| Execution bridge (`execution/bridge.py`, `decision_hash_store.py`) | executed hashes and their eviction order, canary counter; durable copy in a file and a row | handle | OMS port, control plane, Phase A plane | lock released between the steps, copy written after the lock, exceptions that skip the bookkeeping | one order per decision; halts and SHADOW admit nobody new | `ExecutionBridge` |
| OMS ports and engine (`retry.py`, `institutional_ops_guards.py`, `institutional_execution_engine.py`) | orders and executions | submit, retry, cancel | bridge, gateway client | retry of an unclear attempt | a retry never follows an attempt that may be executed | `ExecutionBridge` |
| Gateway client (`infrastructure/brokers/mt5/gateway_client.py`) | positions cache, reads in flight, slots | requests with retry, cycle pinning | gateway, OMS, position management | a read that began before an order fills the cache after it | a read after an order shows the order; an order is never repeated | `GatewayClient` |
| Position management (`management/`, `position_recovery.py`) | a state per ticket, snapshot file | sync, recover, evaluate, execute, confirm | OMS, gateway client | rounds that overlap on one engine and file, reads that miss a position, restart between the steps | no open position given up; failed requests repeated; states agree with the broker's stop | `PositionManagement` |
| Phase A plane (`phase_a/`) | halt mode, ambiguous orders, burst latch | set halt, record and resolve ambiguous orders, latch | bridge, control plane, persistence | snapshot persisted outside its lock | an armed halt survives; ambiguity blocks new risk | `ControlPlane`, `ExecutionBridge` |
| Control plane (`operations/control_plane.py`, `kill_state.py`, `daily_loss_lock.py`, `auto_trading_continuity.py`) | mode, run state, legacy kill flag, promoted configurations | arm, stop, resume, transition, promote, rollback | bridge, Phase A plane, ITE cycle | one fact written in three places, under different locks | flag, halt mode and row agree; a stopped robot stays stopped, an idle one comes back | `ControlPlane` |
| Live trading control (`live_trading_control.py` and its service, `auto_trading*.py`) | authorisation and its reasons | review, arm, enable, pause, disable, kill, pause and resume by itself | control plane, persistence | deciding reads before the transition, save after it | only the owner lifts an owner's stop; a pause for safety ends | `LiveTrading` |
| Operator state persistence (`ops_state_persistence.py`, `direct_postgres.py`) | file, row, cached row | load, merge, save | all of the above | one of two writes fails, a failed read looks empty, a late write | nothing an operator set is lost over a restart | `OpsState`, `DurableRecord` |
| Burst latch (`phase_a/burst_latch.py`) | windows over time | record, arm, release | bridge | asked before the order, recorded after it | arms at its threshold | - |
| Batch execution | planned orders | submit a batch | bridge | failure in the middle | no leg twice, cap over the batch | - |
| Notification, event bus, kernel | queues, offsets | publish, retry | everything | loss and duplication | each event at most once per subscriber | - |
| Strategy, scoring, risk numbers, analytics, research, paper trading | numbers | compute | inputs of the above | little: sequential computation | - | - |
| Identity, HTTP presentation, database adapters, frontend, core | - | - | - | delegated or pure I/O | - | - |

`PROJECT.json` lists every one with its sources and the reason for what is left out, and
the hazards of the code at the lines where they bite. No component is modelled to its last
operation, so all statuses read "partly" or "not modelled"; section 7 says what is missing.

### How the modules fit together

`ControlPlane` and `LiveTrading` save through `DurableRecord`: `Store == INSTANCE DurableRecord`,
and a save is its `Put`. `OpsState` implements `DurableRecord` (`ImplementsDurableRecord`, checked and
proved), which is what entitles the two to an atomic save, and names the cases in which they
are not (`spoilt`). `ExecutionBridge` sees the halt as one switch, armed and lifted at any moment:
`ReturnedHaltRefusesOrders` of `ControlPlane` is what an armed switch means there. The gateway
and broker that answer its calls are a few lines; that they are the right ones is what `OrderEntry` is for.
`OrderEntry` is the order route told without threads, locks and registry: an id lets one order pass while it is
remembered, an order that passed is executed or lost at any time, and its fate is final. `GatewayOrderSend`
implements it (`ImplementsOrderEntry`, checked and proved), and the gateway inside `ExecutionBridge` takes no step that
`OrderEntry` rules out (`UsesOrderEntry`, proved). So the two models agree on their interface. It is no theorem of
composition: nothing shows that the gateway inside `ExecutionBridge` can do all that `OrderEntry`, or the route,
may do; there it was kept as free as the code is (an attempt is executed or lost at any time, an id is forgotten
at any time).
`GatewayClient` justifies the one attempt per OMS call of `ExecutionBridge` (`OneExecutionPerCall`) and
supplies the rows older than a fill that mislead a round of `PositionManagement` (`old`, `misled`).

## 2. What is modelled

### GatewayOrderSend

One request is one thread with a program counter (`pc`), as the route's
`asyncio.to_thread` makes it. The route reads the price, positions and pending orders,
claims the id, selects the symbol, checks the order and sends it; each of these is an action,
because between any two of them `_mt5_ops_lock` is free and another thread may act:

    Arrive -> ReadPrice -> ReadPositions -> ReadOrders -> Claim -> EnsureSymbol
           -> CheckReturns -> (worker) TakeLock -> Execute -> Respond | TimeOut | Refuse

* `worker` is the thread that `call_mt5_bounded` starts. It takes the lock *inside* the
  worker, so a request that timed out may still have its order executed (`TimeOut`, then
  `TakeLock`, `Execute`), or the caller may be answered from it (`Respond`).
* `seen`, `FirstKept`, `Claim` are `ClientOrderIdRegistry.claim`: eviction by age and by
  capacity from the front, then the refusal or the new id.
* `ReadPositions` and `ReadOrders` contain the guard's decisions (`EntryFits`, `EntryAllowed`,
  `MayClose`, `MayMoveStop`, `MayCancel`) at the point where the code takes them. `RowRead` has
  the outcome the code produces when the terminal returns `None`: an empty list.
* `Execute`, `Fill`, `StopOut`, `OwnerOpens` are the broker and the account's owner.
* `Restart` kills every thread and the registry; an order the terminal has already been
  handed is still executed.
* `FateOf`, `Admitted`, `MemoryOf` read this state as `OrderEntry` does: the claimed entries with what became of them
  (in flight until the worker ends, dead when it was refused or the request ended without a worker), and the registry
  with the ids it has dropped.

The data is abstracted to what the properties tell apart. The gateway trades one symbol at one
lot size, so a position is a ticket and the distance of its stop, which is also its planned
loss. Prices stand still. What the guard checks about one field by itself (symbol, lot,
side, commission) is one Boolean of the payload, `valid`.

### ExecutionBridge

One call of `handle` is one thread. Its steps follow the code in order: load the durable
hashes, look the hash up, the read-only gates (a free choice of passing or refusing), the
canary cap, the reservation under the lock, the copy of the order and its write outside the
lock, the second halt check, the ports, the OMS, the broker, the answer, the retry, the
record of an unclear answer, the decision to keep or release the hash, the canary count.

* `executed` and `order` are `_executed_hashes` and `_executed_hash_order`; `file` and `pg`
  the two durable copies, written with `Written` (each write may fail on its own) and
  merged by `Loaded`, the file's order first, as `_union_order` does.
* `orders` and `known` are the environment: what the broker does with each attempt at any
  time, and what the gateway remembers of the request id. `Gateway` reads them as an `OrderEntry` whose orders are the
  attempts and whose ids are the calls.
* `SetMode`, `SetHalt`, `NextDay`, `Restart`, `GatewayForgets` are the operator, the clock, the
  process and the gateway, free to act between any two steps.
* Outcomes: `blocked` (an abort before the OMS), `refused` (a definite reject), `filled`,
  `unknown` (a gateway failure that was answered), `raised` (an exception that leaves `handle`).

### GatewaySession

`loop` is the session request of the event loop. The routes are `async def` and call the
runtime synchronously, so there is one at a time and it holds `_lock` to its end. `beat` is the
heartbeat thread, which calls the terminal without `_lock`, under `_mt5_ops_lock`, which the
session requests do not take. The two interleave between any two terminal calls; the
steps of the heartbeat thread that take `_lock` wait (`CanLock`). `Capture` reads `_creds`
without a lock, `Done` and `Failed` write the diagnostics without one. `current` says that
the credentials object of a reconnect is still the one in `_creds`: `Done` of an attached
session writes into the object, and only then is the write seen by others. `orphans` are
initialize and login calls whose caller timed out. The terminal is `healthy`, `started`,
`account`. Reconnecting is enabled, its default; `status`, `health` and the diagnostics only
read and are left out. Terminal calls of a session request have no time limit in the code;
the model lets them return.

### GatewayClient

`book` counts the orders the broker has executed, so rows read earlier are a smaller number. A
read (`BeginRead`) is answered from `cache` while it is valid, joins the request in `flight`, or leads
one: `Http`, `Reply`, `Retry` up to `Attempts`, `GiveUp`. Leader and followers then store the rows
and answer, each in steps of its own (`StoreRows`, `Answer`). `BeginCycle` and `EndCycle` pin and
release the cache (`_cycle_reads_active`), `Age` ends its validity outside a cycle, `Invalidate` is a caller
that drops it. A sender takes the slot for mutations, sends once (`Execute` at the gateway,
`SendReply` or `SendFails` back) and clears the cache afterwards (`ClearAfterSend`); `late` orders are executed
after their caller gave up. `floor` and `need` are history: what a read that begins after a
clear may expect. Guarding and sending at the gateway are one step here, `GatewayOrderSend` has the detail.

### PositionManagement

One long position of the smallest volume, the owner's limit, whose stop, price and targets are
four levels. A round is a thread that passes through the code's steps in order:

    Sync -> LoadFile -> Recover -> Look -> Settle | Evaluate -> Execute -> Confirm -> Persist

`Loop` runs round after round; `Beside` starts others on the same engine (`mem`) and snapshot
(`file`), without a lock. `Registered`, `Overlaid` and `Persisted` translate what goes from the broker's row and the
file into memory and back; `Plans` is the evaluation, at most one action: restore a missing stop,
break-even, partial (a local advance at this volume), trail, exit. `Execute`, `ExecuteFails` and
`ExecuteHollow` are the answers: done or refused, lost with or without effect, accepted without
effect; `Confirm` reads the stop again. `fp`, the fingerprint of the last action, makes an equal plan a
duplicate. `MayHold` lets a plan come to nothing though one is due (closed market, structure exits switched off,
momentum that defers the break-even). `Reads` gives the rows of a read: true, failed, empty (the gateway's `positions_get() or []`), or
without the ticket because they are older than the fill. `Move`, `CloseElsewhere`, `TouchStop`,
`AskFlat` and `Restart` are the market, the owner, the broker, the desk and the process.

### ControlPlane

Halt mode (`halt`), legacy flag (`flag`) and the saved row hold one fact, and run state and mode have a
copy in the row. No lock spans two of these writes, so each is a step: an operation of `SetHalt`
kind goes halt -> snapshot -> save -> read the halt -> write the flag; arming and the emergency stop
enter it with a flag that is already set; an abnormal execution also stops the robot. `TransitionMode`
obeys the table `Allowed` and saves, `Rollback` does neither, `PromoteConfig` makes a configuration
to roll back to. The cycle asks `CheckLocks` and then `Resume`s the robot (`ensure_auto_trading_running`), applies
the daily loss verdict (`DailyLoss`) and asks whether orders may go out (`AskHalt`, `AskFlag`:
`oms_orders_allowed`). `Restart` boots from the row, or from rows that earlier versions left (`OldRows`).
Paused, stopped and off are resumed alike and are one state.

The run state has two more writers, which belong to live trading: enabling it (`EnableLive`) and its recovery from
a pause (`CheckLive`, `RecoverLive`) both end in `StartWithLive`, which sets "running" without the plane's lock, the kill flag, the
launch locks or a save. Of `LiveTrading`'s state the plane keeps what decides this: `live` is on, waiting (it recovers
by itself) or off. The emergency stop disables live trading as its last step (`DisableLive`), an abnormal
execution does not; `LeaveLive` is the owner's pause, disable or kill, `PauseLive` a check that failed, and a
restart makes of an authorisation what `OldLive` allows.

### LiveTrading

`state`, `safety` (`paused_for_safety`), `ownerPaused` and `latched` are the controller. A transition holds
its lock and is one step; the probe that decides a resume (`Probe`), the recheck under the lock
(`Check`, `Recheck`) and the transition (`Resume`) are three, and a save is a snapshot and a write
(`Snapshot`, `Save`). The owner reviews, arms, enables, pauses, disables and kills; the operations API's
emergency stop (`EmergencyStop`) ends in memory, the kill saves after the plane's (`StopPlane`); a refused order and the cycle's guard pause for
safety (`SafetyPause`); `Restart` hydrates every authorisation as a pause for safety or less. `env` is what the
probes would find. The run state of the plane that `Enable` and `Resume` set is `ControlPlane`'s. `KILLED` is no state of the model: nothing in the service reaches it, a kill is
`emergency_disable`.

### OpsState and DurableRecord

A payload is a version per key. `save_ops_state` is a saver that holds `lock` over load, patch, file
write, row write and the clearing of the cached row; `load_ops_state` is a reader without the
lock. A load reads the file, then the cached row or the row itself (`ReadCache`, `Fetch`,
`FetchFails`), merges with the row winning (`Merged`) and stores the row in the cache. A failed read is an
empty payload, a failed write counts as done (`WriteRowFails`), a write whose caller
stopped waiting lands later (`orphans`, `Land`), and a restart may lose the file. `seen` records how a load learnt of the
row, `spoilt` that something happened which the store cannot hide. `DurableRecord` is the promise: a save
merges its patch into one record in one step, until the promise is withdrawn.

## 3. What the runs show

Every property of a passing run has a mutant, a plausible bug in the module that makes
TLC find it violated under the same configuration.

### Passing

| run | instance | properties |
|---|---|---|
| `order_entries` | 3 entries, 2 tickets, 2 ids, one position allowed, one ticket the owner may open, registry of 2; 1.0 M states | `TypeOK`, `CapHeldUnlessOvertaken`, `ImplementsOrderEntry` |
| `order_stops` | 3 requests out of entry, limit order, modify, cancel and two stop changes, 1 restart; 2.3 M states | `BookRiskUnlessOvertaken`, `OneEntryPerId`, `AnswersAreTrue`, `WidenOnlyStale` |
| `order_liveness` | 2 requests over every route, owner, 1 restart, registry of 1 with TTL 0 and one tick, no symmetry | `EveryRequestAnswered` |
| `bridge_dedupe` | 2 calls, 2 hashes, 2 attempts, eviction order of 1, 1 restart, 1 fault; 2.0 M states | `TypeOK`, `OneOrderPerDecision`, `BlockedForAReason`, `NoRiskAfterGatewayFailure` |
| `bridge_halt` | 2 calls, canary and shadow, kill switch on and off, midnight; 1.3 M states | `ClosedDoorsAdmitNone` |
| `session` | 2 accounts, 3 session requests, 3 faults, bursts of 2; 0.5 M states | `TypeOK`, `ShownSessionIsReal`, `BurstsAreBounded`, `OnlyRequestsReplaceSessions`, `SessionComesBack` |
| `gateway_client` | 2 readers, 2 senders, 2 attempts, 2 reads, 2 orders, 1 clear, 2 faults; 0.4 M states | `TypeOK`, `ReadsFollowClears`, `OneExecutionPerCall`, `EveryReadEnds` |
| `position_management` | the loop and one round beside it, start at break-even, 1 move, 1 fault; 0.27 M states | `TypeOK`, `BreakEvenIsReal`, `NoneAbandoned`, `FailuresAreRetried` |
| `control_plane` | 2 operators and the cycle, 2 operations, 1 change of the daily verdict, 1 restart, rows of two older versions, live trading that waits at a boot; 1.4 M states | `TypeOK`, `FlagFollowsHalt`, `RowRestoresPlane`, `StoppedRobotStays`, `ReturnedHaltRefusesOrders`, `IdleDeskResumes` |
| `live_trading` | 2 API threads, 1 cycle, 3 operations, 1 change of what the probes see, 1 restart, every saved row; 0.8 M states | `TypeOK`, `OwnerStopHolds`, `RowRestoresAuthorisation`, `SafetyPauseEnds` |
| `ops_state` | 2 savers, 1 reader, 2 keys, 3 saves, 2 faults, 1 read outside the lock; 0.35 M states | `TypeOK`, `RowIsWhatWasSaved`, `RowGoesBackForCause`, `ImplementsDurableRecord` |

In words:

* **`CapHeldUnlessOvertaken`, `BookRiskUnlessOvertaken`.** The caps hold for every entry, except
  one that was judged on a book that another order changed before it was sent. This is the exact
  strength of a guard that reads first and sends later; `AtMostMaxPositions` below shows the
  exception is real. A pending order that fills between the two reads and is in neither, a read that failed
  and a stop that was widened later are among what is excepted.
* **`OneEntryPerId`.** An id opens one ticket over retries, timeouts and orphaned workers, while the
  registry has not dropped it (by eviction or in a restart). The run restarts the
  gateway and never fills the registry; the theorem covers a registry of any size.
* **`AnswersAreTrue`.** A caller told of a definite refusal never sees its order executed later; one
  told of a fill has it.
* **`ImplementsOrderEntry`.** Seen from its callers, the route with its threads, timeouts, left behind workers,
  registry and restarts is an `OrderEntry`. The run fills the registry of two and
  evicts from it; restarts, which lose entries, are in the theorem.
* **`WidenOnlyStale`.** A stop moves away from the price only when the guard compared with a stop
  that had changed since it was read.
* **`EveryRequestAnswered`.** A hung `order_send` never holds a request, nor those behind it.
* **`OneOrderPerDecision`.** A decision opens one order, and the three exceptions are named: the
  hash was forgotten, the attempt was submitted again, the gateway forgot the request id.
* **`BlockedForAReason`.** No decision is blocked that nobody holds.
* **`ClosedDoorsAdmitNone`.** After the kill switch is armed (`HaltAdmitsNoneNew`) or SHADOW is set
  (`ShadowAdmitsNoneNew`), only calls that had passed their last check are still inside.
* **`NoRiskAfterGatewayFailure`.** An answered gateway failure blocks later calls until it is lost.
* **`ShownSessionIsReal`.** At rest, a session shown as connected has credentials, and the account
  shown is theirs and the terminal's, unless a request met a reconnect or an abandoned
  call half way.
* **`BurstsAreBounded`.** At most `MaxAttempts + 1` reconnects fail in a row without a
  cool-down: the attempt after a failed heartbeat comes on top of a burst. The bound is tight.
* **`OnlyRequestsReplaceSessions`.** A late attach never takes over a session.
* **`SessionComesBack`.** Credentials and a working terminal suffice for the session to return
  and stay, though successful reconnects use the attempts up too.
* **`ReadsFollowClears`.** Who reads after an answered order, a cycle start or an invalidation sees at
  least the book of that moment, from the cache, a shared request or a pinned cycle, unless the
  rows were in the air at the clear. That exception is real (`ForcedReadIsFresh` below).
* **`OneExecutionPerCall`.** Whatever is lost on the way and however late it arrives, a call of `order_send`
  executes at most one order: reads are retried, mutations never.
* **`EveryReadEnds`.** A follower waits on the leader's future without a limit of its own, and still
  returns or raises, because every end of the leader resolves the future.
* **`BreakEvenIsReal`.** The engine says break-even, or a later state, only if the broker's stop has been
  there: over hollow answers, unread confirmations, reloads and rounds that overlap.
* **`NoneAbandoned`.** The engine drops no open position as exited, except after rows older than the
  fill, or a close that was answered as done and did not happen (never checked).
* **`FailuresAreRetried`.** A position without a stop gets one or is closed, and one that is open while a flat
  book is asked for gets closed, in spite of refusals, lost answers and the duplicate check.
* **`FlagFollowsHalt`.** Halt mode and legacy flag agree once the halt operations are over, unless two of
  them overlapped.
* **`RowRestoresPlane`.** With no operation under way the row would restore halt, mode and run state as they
  are. Excused are operations of one kind that overlapped, a rollback (it saves nothing) until
  the next transition, and two that change the run state and do not save it, until its next write: an emergency stop, and a start
  of the robot that came with live trading.
* **`ReturnedHaltRefusesOrders`.** A halt that was returned to its operator refuses every order asked for
  until somebody begins to lift it, through mode changes, resumes and restarts.
* **`StoppedRobotStays`.** A robot stopped by an emergency or abnormal execution stays stopped while the
  flag stands. Three things get past it: a resume that had passed its checks before the stop was complete and writes after it;
  the owner, who enables live trading again; and, after an abnormal execution, a recovery of live trading from a pause.
* **`IdleDeskResumes`.** Once mode, flag and daily loss allow it for good, the robot runs for good,
  whichever operation had left it stopped.
* **`OwnerStopHolds`.** What the owner paused, disabled or killed is enabled by nobody else, over restarts
  too once it is saved; only a resume whose last check came before the stop gets past.
* **`RowRestoresAuthorisation`.** With nobody saving, the row restores the authorisation as it stands, unless
  two saves overlapped or the operations API's emergency stop came last.
* **`SafetyPauseEnds`.** While the checks pass, the desk leaves a pause again and again, unless it is
  one the owner asked for; a pause for safety that a save and a restart made the owner's would not end, and is one
  the property forbids (its mutant saves pauses as they stand).
* **`RowIsWhatWasSaved`, `RowGoesBackForCause`.** Outside a save the row is what the finished saves made of
  it, key by key, and no key goes back to an older version, except for the named causes:
  a late write, a failed fetch, a copy that was cached late.
* **`ImplementsDurableRecord`.** The store refines `DurableRecord` with the row as the record: the row
  write is the save, the spoiling steps withdraw the promise, everything else is a stutter.

### The run that expects a violation

| run | statement | trace in short |
|---|---|---|
| `live_emergency_forgotten` | "Emergency KILLED recovers as DISABLED and requires re-arm." (`live_trading_control.py:196`) | one operation in all. Live trading was enabled before the process started (the row says ENABLED); the operations API's emergency stop (`institutional_ops.py:1931`) disables in memory and saves nothing; restart; the row still says ENABLED, which hydrates as a pause for safety; the checks pass and the cycle's `Resume` enables by itself, nobody having armed |

### Refuted statements, run by hand

These configurations are kept beside the others; each checks one statement of the repository
that the models refute. Run them as in section 9.

| configuration, property | statement | trace in short |
|---|---|---|
| `order_cap_overrun`, `AtMostMaxPositions` | "at most five Gold positions including working orders" (`order_guard.py:7`) | two entries read the same book, both open |
| `order_blind_entry`, `MissingReadRejectsEntry` | "A missing quote, equity read, or position read rejects the entry" (`order_guard.py:15`) | `positions_get` returns `None`, `runtime.py:1458` makes it `[]` |
| `bridge_dup_after_restart`, `NoDuplicateAfterRestart` | "prevent duplicate OMS submits after restart" (`decision_hash_store.py:1`) | two calls copy the order in one sequence and write it in the other; restart; the lost hash is submitted again. No write fails |
| `bridge_unmarked`, `AmbiguousBlocksNewRisk` | "When execution outcome is ambiguous, block NEW risk until reconciled" (`order_ambiguity.py:3`) | the transport error leaves `handle` as an exception, nothing is recorded |
| `bridge_unsafe_retry`, `RetriesAreSafe` | "only safe-to-retry (no ambiguous fill)" (`production_hardening/config.py`) | retcode 10012 carries a message with "requote" and is submitted again |
| `session_revived`, `DisconnectStopsReconnect` | "Intentional `disconnect()` still clears credentials and stops reconnect" (`SOAK_DISCONNECT_RCA.md:55`) | a reconnect in progress logs in after the disconnect and writes `connected = True` |
| `client_stale_read`, `ForcedReadIsFresh` | "Force next list_positions() to hit gateway GET /positions." (`gateway_client.py`) | a read whose rows were in the air at the clear stores them after it; the next read is answered from that cache |
| `live_pause_resumed`, `OwnerPauseHolds` | "Never resumes an operator-initiated PAUSE." (`live_trading_control.py`) | a resume passes its recheck and releases the lock; the owner enables and then pauses; the transition of the resume, legal from PAUSED, enables again |
| `pme_trail_lost`, `TrailReached` | "advance lifecycle locally so trail / time-stop remain reachable" (`management/engine.py:277`) | with a plan that is never held back (`MayHold` is false), a round beside the loop overlays an older file after the local partial; the fingerprint stays, the partial is a duplicate for ever, the trail is never planned |

### Observed and not run

Further disagreements that the models show or contain:

* a stop change can widen a stop it read as wider (`order_guard.py:491` against line 11); `WidenOnlyStale` gives the exact condition;
* `order_check` runs without `_mt5_ops_lock` (`runtime.py:1763` against 540) and without a time limit (against `settings.py:225`); the liveness run therefore assumes it returns;
* a filled order is answered as a timeout when the specification read after it times out: `except RuntimeError` at `runtime.py:1818` does not catch the `TimeoutError`;
* a full registry drops an id younger than its TTL (`order_guard.py:91` against 86);
* the canary cap is compared at `bridge.py:746` and counted at 975, so two concurrent calls pass it (against `execution/config.py:24`);
* a requote is submitted again under an id the gateway has spent (`retry.py:151`); the error keeps the hash of a decision that opened no order (`bridge.py:957` against 955);
* `_lock` is held over terminal calls in `connect` and `attach` (`runtime.py:690` against 538);
* a reconnect to account A that ends after a connect to B leaves the terminal on A while B is shown: the exception that `ShownSessionIsReal` names;
* two halt operations that overlap leave the flag of the older one: `KillFlagAligned` of `ControlPlane` states "kill_switch_armed and phase_a.halt stay aligned" and fails without the exception of `FlagFollowsHalt`;
* a rollback saves nothing, so "Restores official workflow state across process restarts" (`ModeRestored`) fails for the mode;
* enabling live trading and its recovery from a pause set the run state to "running" without the plane's lock, the kill flag, the
  launch locks or a save (`live_trading_control_service.py:1133` and `1445`): the row then brings "stopped" back (the exception in `RowRestoresPlane`);
* `halt_on_abnormal_execution` leaves live trading enabled or paused for safety, so that a recovery starts the robot while the kill flag stands, against
  its docstring "Fail-closed canary/live halt — arms kill + disables auto trading" (`control_plane.py:915`): the third exception in
  `StoppedRobotStays`. Orders stay refused (`ReturnedHaltRefusesOrders`);
* rows older than a fill make the engine mark an open position as exited; the mark is persisted and nothing takes it back;
* a close answered as done (10008) without closing is not checked;
* an empty positions list drops every managed ticket and its flags; the flag of a second partial is not in the snapshot at all;
* after the owner widens a trailed stop, the remembered fingerprint suppresses the equal trail;
* the burst latch is asked before the order and records the entry after it (`burst_latch.py:160`), so concurrent calls pass it together, and reads the time before it takes its lock.

## 4. Bounds

All bounds are constants: `MaxTime`, `MaxRestarts`, `MaxDay`, `MaxFaults`, `MaxAttempts`,
`MaxRequests`, `MaxSaves`, `MaxReads`, `MaxOrders`, `MaxClears`, `MaxOps`, `MaxSwings`, `MaxTurns`, the sets of
requests, tickets, calls, hashes, accounts, keys and threads. Every hazard of
the inventory needs two actors and one fault or restart; the third request of the order runs is
there for the effect of an orphan on the other two, and the instance sizes of the caps (one
position, a registry of one, an order of one hash) make the limit a case that happens in most
behaviours instead of a rare one. `Body` is the set of payloads of an instance, so each order
run concentrates on the routes that interact.

* `gateway_client` gives a read two attempts (the code three): one failed attempt that is repeated and one that
  is the last are the two cases the code distinguishes.
* `ops_state` has three saves for two savers, so one saver finishes twice while the other is inside, and two
  faults, the number a key needs to go back and be read.
* `position_management` was also run with two moves (0.9 M) and with two starting prices (0.8 M), before `MayHold` and a first write that may fail
  were added: the same properties hold; the smaller instance is kept for its time.
* `control_plane` counts operations of the plane, those on live trading and failed checks in one bound, two. It starts
  from two rows that earlier versions left (the legacy flag with no mode, a leaked pause with a mode); later rows come from the operations and a restart. `OldLive` is
  "waiting" alone: a recovery may be put off for ever, so live trading that waits can do all that live trading that is off can.
* `live_trading` starts from every row there can be. `live_emergency_forgotten` has one operation, so nothing of the owner's but the stop
  can be in its trace.

The theorems hold for all values of the constants.

Symmetry sets are `Request`, `Call`, and savers and keys of `OpsState`, whose members the
specifications treat alike. Hashes and bodies are not symmetric (a hash is chosen with
`CHOOSE`), and no run with a liveness property uses symmetry; the two temporal properties of `ops_state` are
safety properties of single steps.

`CHECK_DEADLOCK FALSE` is set where the system may stop: each request of `GatewayOrderSend` and
each call of `ExecutionBridge` is made once, and reads, orders and saves of `GatewayClient` and `OpsState` are
counted, so a finished instance has no step left. The
heartbeat of `GatewaySession`, the cycles of `ControlPlane` and `LiveTrading` and the rounds of
`PositionManagement` never end, and their passing runs check for deadlock; without
auto-attach (`session_revived`) a heartbeat without credentials only sleeps, which is no step.

## 5. Fairness

* `GatewayOrderSend!FairSpec`: weak fairness of every step of a request's own thread (threads are
  scheduled; a bounded wait ends, in an answer or a timeout) and of the return of `order_check`, an
  assumption on the terminal that the code does not bound. No fairness for the worker or the
  broker: an `order_send` may hang for ever.
* `GatewaySession!FairSpec`: weak fairness of the two threads, of time (the cool-down ends) and of
  calls left behind, which return in the end. Nothing makes the terminal recover or a login
  succeed: `SessionComesBack` assumes a terminal that is well from some point on, and faults are
  finite.
* `GatewayClient`: weak fairness of each reader's steps. An HTTP attempt has a time limit in the code, so it
  ends. No fairness for senders, cycles or the age of the cache.
* `ControlPlane`: weak fairness of the cycle alone (`run_forever`). An operator's request may stop anywhere.
* `LiveTrading`: weak fairness of each cycle's evaluation, which the runtime repeats. The owner need not act,
  and the outside need not get better: `SafetyPauseEnds` assumes checks that pass from some point on.
* `PositionManagement`: weak fairness of each thread's rounds (a round begun goes on) and of the loop's
  beginning a new one. Rounds beside it need never be begun; requests have a time limit, faults are
  finite.
* `ExecutionBridge` and `OpsState` state no liveness; their specifications have no fairness.

## 6. What is proved

TLAPS checks the proofs for every value of the constants that satisfies the named assumptions of
the modules (`BodyAssumption`, `TicketAssumption`, `NobodyAssumption`, `BoundsAssumption`,
`HashAssumption`, `ModeAssumption`, `HaltAssumption`, `LimitAssumption`, `AccountAssumption`,
`SettingAssumption`, `ThreadAssumption`, `StartAssumption`, `HoldAssumption`, `RowAssumption`, `BoundAssumption`), which say only that the
constants have their types, that live trading is not enabled at a boot, that sets of threads are disjoint, that a registry and an eviction order hold at least one
element, and that a call or a read makes at least one attempt.

| module | theorems |
|---|---|
| `GatewayOrderSend_proofs` | `TypeCorrect`: `TypeOK`; `OneEntry`: `OneEntryPerId`; `TrueAnswers`: `AnswersAreTrue`; `CapHeld`: `CapHeldUnlessOvertaken`; `BookRiskHeld`: `BookRiskUnlessOvertaken`; `WidensStale`: `WidenOnlyStale`; `RouteImplementsEntry`: `ImplementsOrderEntry`; from it alone `OneOrder`: `OneOrderPerId` and `FinalFates`: `FateIsFinal`, both of `OrderEntry`; `LockIsTheTerminal`: `OneSendInTerminal` |
| `ExecutionBridge_proofs` | `TypeCorrect`: `TypeOK`; `OneOrder`: `OneOrderPerDecision`; `DoorsHold`: `ClosedDoorsAdmitNone`; `ReasonHolds`: `BlockedForAReason`; `FailureBlocks`: `NoRiskAfterGatewayFailure`; `OrderMirrors`: `OrderMirrorsSet`; `BridgeUsesEntry`: `UsesOrderEntry` |
| `GatewaySession_proofs` | `TypeCorrect`: `TypeOK`; `BurstsBounded`: `BurstsAreBounded`; `RequestsReplace`: `OnlyRequestsReplaceSessions`; `ShownIsReal`: `ShownSessionIsReal` |
| `GatewayClient_proofs` | `TypeCorrect`: `TypeOK`; `OneExecution`: `OneExecutionPerCall`; `ReadsFollow`: `ReadsFollowClears`; `WaitersAreLed`: `WaitersHaveALeader` |
| `PositionManagement_proofs` | `TypeCorrect`: `TypeOK`; `BreakEvenHolds`: `BreakEvenIsReal`; `NoneIsAbandoned`: `NoneAbandoned` |
| `ControlPlane_proofs` | `TypeCorrect`: `TypeOK`; `FlagFollows`: `FlagFollowsHalt`; `HaltRefuses`: `ReturnedHaltRefusesOrders`; `RowRestores`: `RowRestoresPlane`; `StoppedStays`: `StoppedRobotStays` |
| `LiveTrading_proofs` | `TypeCorrect`: `TypeOK`; `RowRestores`: `RowRestoresAuthorisation`; `OwnerStop`: `OwnerStopHolds`; `PausesHaveAuthors`: `PauseHasOneReason` |
| `OpsState_proofs` | `TypeCorrect`: `TypeOK`; `RowGoesBack`: `RowGoesBackForCause`; `RowIsSavedState`: `RowIsWhatWasSaved`; `StoreImplementsRecord`: `ImplementsDurableRecord` |

No property but the types is inductive by itself. What each argument adds:

**Gateway route.** `IInv` adds four facts. `SentOnce`: no worker before the
send, and an entry is claimed before it is sent. `OneOpener`: a request that opened a ticket is a claimed entry
whose worker executed, and it opened no other. `IdsRemembered`: the id of a claimed entry is in the
registry or was forgotten, and two claimed entries with one id need the second. `AnswersFinal`: nothing is
answered before the end, and a request answered "refused" has no worker that could still execute. One
lemma treats the steps that only move a thread on (`MovesKeepIInv`), one each the claim, the arrival, the worker and
the environment. That eviction keeps a suffix of the registry comes from `FirstKeptInRange` and `KeptIsSeq`. For the
cap, `Countable` keeps the book and the reads finite, `Judged` says that a request past the guard still carries the rows it was
allowed on; an entry nothing overtook is sent to the very book it was judged on, and the rest is
cardinality (`FewerStayWithin`, `OpenedStaysWithin`). `Judged` serves `WidensStale` for stops too.

The risk of the book is a sum over a function, and the sum a fold that no prover unfolds by itself. What is needed of it
(it does not depend on the order, grows by what is added, and is monotone in tickets and stops) is proved by
the smallest counterexample over the naturals (`WFMin`) instead of an induction theorem. The invariant says that the rows a
request was judged on keep up with the book (`RowsKeepUp`): each row that is of a live ticket shows a stop at least as
wide as the one that stands, since stops only tighten but for those in `widened`. The sum after the send is then at most
the sum the guard compared.

For `RouteImplementsEntry`, `EInv` adds to `IInv` that only entries are claimed (`ClaimsAreEntries`). Then the
fate of an entry shows in its thread and its worker alone (`FateShows`), and each action falls into one of four
lemmas: it drops ids and adds none (`RegistryForgets`), only ends orders (`EndingLoses`), executes one, or is the claim,
which is the only step that admits. `OneOrder` and `FinalFates` use nothing of the route but that it implements `OrderEntry`:
`Once` is an invariant of the abstract specification. `OneOrder` is stronger than `OneEntry`, since it counts the entries
that have not been executed yet. `LockIsTheTerminal`: the lock of the terminal is taken exactly by the worker that is in it, and only
a restart detaches a worker from its owner.

**Bridge.** `Inv` is, besides the types the argument needs, a conjunction per call. `Holds`: a call has its hash
from the reservation on. `Makes`, `Waits`: the current attempt has no order before it is submitted, later attempts have
none. `Refuses`: a definite refusal leaves no live order of its attempt, and a live order of the current attempt means
the hash is kept. `Passes`: the gateway has let a remembered request id pass once. Over all calls: whoever
is past the load sees verified hashes (`VerifiedInside`), a kept hash is executed, lost or yet to be loaded (`HeldHash`),
and two calls keep one hash only if it was lost (`HeldOnce`). Two open orders of one hash are then two
keepers of it, an attempt that was submitted again, or two attempts of one call. `DoorsHold` is two
inductions of its own over the calls that are sending. `ReasonHolds` needs that a call that marked its hash in shadow mode
is over, `FailureBlocks` that a failure is recorded or about to be (`Recorded`), that a call past the ambiguity gate began
before every failure on record (`Cleared`), and that the failures before a call are of calls that are over (`OthersOver`).
`OrderMirrors` says that the order in which hashes are evicted lists the set of executed hashes, each once, and never more than the
limit; it needs the copies in the file, the row and every call's snapshot to be such lists too (`TidyOrders`), and lemmas on
what the recursive functions that add, remove and merge do to a list without repetitions. It gives the types of the sequences to `TypeCorrect`.
`BridgeUsesEntry` follows from `Inv`: each step changes the order of one attempt at most (`SetOrderPasses`), and an attempt
has no order before it is submitted (`Makes`), so that a submission the gateway lets pass is an `Admit`, an answered refusal a
`Lose`, and an execution, however late, an `Execute`.

**Session.** `Typed` carries what a thread hands to its next step (`Carried`). `Counted` bounds the failures in a row by
the attempts of the burst, one more after a lost ping. `Real` says, while nothing is disturbed, that the books (`Books`:
credentials, shown account, terminal) agree and that whatever a reconnect or an abandoned call
carries is the same account (`Baggage`).

**Client.** `Followed`: every cached row and every row a reader holds is at least as new as the last clear or marked as
in the air (`Fresh`). `Counted`: each executed, late or travelling order belongs to a call, and who sends holds the
slot. `Led`: the future in the table is the one of the reader that leads, and nobody waits without one.

**Position management.** `Known`: whatever says break-even (memory, file, a thread's snapshot, a row) says so of
a stop that was there; `Asked`: what is asked of the broker as break-even is one. For the other theorem, `Gone`: memory, file,
snapshot, row and an unconfirmed close each say "exited" only of a position that is closed, or missed by a misleading read.
`Silent` and `Here` are the contrapositives that most steps keep.

**Control plane.** `Aligned`: until two halt operations cross, there is one, and each of its steps has brought one more place
into line (`InLine`). `Stands`: while a halt stands, neither halt, row nor any write on its way would lift it; `Refused`: the
cycle's question then gets no. `ModeKept` and `RunKept` are the same idea for mode and run state. `Stopping`: a stop in
memory, and then in the row, with nobody about to write past it but a resume already under way. `Past`: such a resume, a
recovery of live trading or its last step is under way only where the stop counts as overtaken; after a complete emergency stop live
trading is off, so that only the owner can bring it back. What the two theorems exclude is in the properties by name: `RowRestores`
says nothing of the run state after an emergency stop or a start with live trading until its next write, nor of the
mode after a rollback until the next transition; `StoppedStays` nothing of the three ways past a stop.

**Live trading.** `Kept`: with nobody about to take a snapshot, every snapshot and else the row restores the controller.
`RowRestores` excludes two saves that overlapped, whose payloads may reach the row in the other order, and the operations API's
emergency stop, which makes none, each until a later payload.
`Held`: enabled, paused for safety, or about to be resumed by a cycle that the owner has not interrupted, each means that
the owner holds nothing, or was already overtaken. `PauseHasOneReason` is the safety half of `SafetyPauseEnds`: a pause is the
owner's or one for safety, never both, also when it was read back from any row; so a resume is due for exactly those the owner
did not make. `OwnerAsked` adds that an owner's pause is one the owner asked for, over settled restarts because a pause for safety is
saved as ENABLED.

**Operator state.** `Known`: one saver, who holds the lock (`Holder`); a cached copy not stored late follows the row
(`CacheFollowsRow`); a saver that saw the row works on the row (`SeenTrue`). While unspoilt, `Sound`: the row is the saves, the
file fills no gap of the row, a saver's payload is the row with its patch. The refinement maps the row write to `Save`,
spoiling steps to `Spoil` and all others to stutters.

**Only model-checked.** Every invariant, every action property and both refinements that a run checks are proved. What stays with TLC
is liveness under fairness: `EveryRequestAnswered`, `SessionComesBack`, `EveryReadEnds`, `FailuresAreRetried`,
`IdleDeskResumes`, `SafetyPauseEnds`. Their proofs need ENABLED and the rule for fairness, which the prover does not have.
Of three of them an invariant they rest on is proved (`LockIsTheTerminal`, `WaitersAreLed`, `PausesHaveAuthors`): no lock without
an owner in the terminal, no follower without a leader, no pause without an author.

**Checked beside the runs.** `UsesOrderEntry` and `OrderMirrorsSet` hold on the instance of `bridge_dedupe` (three minutes
for the former, too long for a listed run); both are theorems.

## 7. Not modelled

* **Burst latch.** One of the free refusals of `ExecutionBridge`: any call may be refused at the gates. Its windows, its arming
  and the race at `burst_latch.py:160` are not modelled.
* **ITE runtime, batch execution.** Market reading, scanning, scoring and planning are computations; the calls they
  make are in `ExecutionBridge`, the turns of the cycle in `ControlPlane`, `LiveTrading` and `PositionManagement`.
* **Gateway client and market data.** Account, symbol and tick caches, the read slots of the lanes (a wait that times out is
  one of the faults), the circuit breaker, metrics.
* **Position management.** Larger volumes with second partials, profit extension, reversals and their dedupe, the shadow
  book; news and model exits are one exit that may be due, and the reasons to plan nothing one that may hold (`MayHold`). Arithmetic of stops is reduced to levels. The kill switch check in front
  of a modification never blocks, since every modification the engine plans tightens.
* **Order bridge.** A fill in part (retcode 10010), which `map_retcode_to_outcome` makes a rejection that releases the hash, though
  something was opened. The one lot of 0.01 that the gateway's guard admits (`order_guard.py:34`) is the smallest a
  broker is taken to trade (`broker_min_lot`, `ai_scalping/config.py:244`), so a part of it cannot be filled; with a broker of smaller lots
  `OneOrderPerDecision` would need it as one more exception.
* **Live trading.** `LiveTrading` and `ControlPlane` are not composed: the plane's `live` follows the controller's transitions, not what
  its probes and rows say, which it leaves free. The bindings of user and account that enabling makes; consent texts, limits, and the checks behind the blockers.
* **Control plane.** Limits, audit trail, cycle statistics; the arithmetic of the daily loss, whose verdict is an input.
* **Operator state.** The digest that skips equal saves (every save ends by clearing the digest it would be compared
  with, so it holds nothing back) and the choice of the database driver.
* **OMS engine, Phase A plane.** The stores of orders and executions, `run_cancel`, reconciliation of ambiguous orders.
* **OMS execution gateway, runtime policy, trading session, risk engine.** Sequential validation whose outcome the bridge model takes as free.
* **Notification, event bus, kernel, identity, persistence adapters, HTTP presentation, frontend, research, shared core.**
  No effect on an order, or pure input and output.

## 8. Plan

Done: the nine modules of the system and the two abstract ones with their proofs, and the refinements of `DurableRecord` and `OrderEntry`.
What would add most next:

1. The abstract `AtMostOnceOrder` (a decision is idle, submitted, open or dead, and never goes back), implemented by
   `ExecutionBridge` without the named exceptions.
2. `ControlPlane` and `LiveTrading` over the withdrawn promise of `DurableRecord`: which of their theorems survive a
   save that is lost or comes late, and the refinement of the rest.
3. What the named exceptions cost: for each of the refuted statements of section 3, the weakest assumption on the environment under which
   it holds, proved.
4. `BurstLatch` (windows, arming, release), and reconciliation of ambiguous orders in `ExecutionBridge`.
5. `PositionManagement` with two positions and larger volumes; reversals (close, then open).
6. Batch execution over `ExecutionBridge`; notification outbox.

## 9. Running

    tlc -workers 2 -config order_entries.cfg MCGatewayOrderSend
    tlapm GatewayOrderSend_proofs.tla

A configuration belongs to the MC module of its prefix: `order_` to `MCGatewayOrderSend`, `bridge_` to
`MCExecutionBridge`, `session` to `MCGatewaySession`, `client_` and `gateway_client` to `MCGatewayClient`, `live_` to
`MCLiveTrading`, `control_plane` to `MCControlPlane`, `ops_state` to `MCOpsState`, `pme_` and
`position_management` to `MCPositionManagement`.
