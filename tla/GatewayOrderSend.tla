-------------------------- MODULE GatewayOrderSend --------------------------
(***************************************************************************)
(* POST /trade/order_send and /trade/order_cancel of the Windows MT5       *)
(* gateway: the order guard, the client_order_id registry, and the bounded *)
(* MetaTrader5 call that sends the order.                                  *)
(*                                                                         *)
(* Every HTTP request runs in a thread of its own (asyncio.to_thread).     *)
(* Only the MetaTrader5 calls are serialized, one by one, by _mt5_ops_lock;*)
(* nothing spans the guard's reads and the send it authorizes.  A send     *)
(* runs in a worker thread: when its caller times out the worker is left   *)
(* behind and sends the order later.                                       *)
(*                                                                         *)
(* The gateway trades one symbol (gold) at one lot size (0.01), so a       *)
(* position is its ticket and the distance of its stop, which is also its  *)
(* planned loss; a shorter distance is a tighter stop.  Prices stand still.*)
(***************************************************************************)
EXTENDS Integers, Sequences, FiniteSets, FiniteSetsExt

CONSTANTS
    Request,        \* HTTP requests, each made once
    Ticket,         \* broker tickets, never reused
    OwnerTicket,    \* the tickets the owner may open by hand, outside the gateway
    Cid,            \* client_order_id values
    Body,           \* the payloads the callers of this instance may post
    MaxStop,        \* the widest stop distance
    MaxPositions,   \* active_max_open_positions()
    TradeCap,       \* max_planned_risk_usd(equity)
    BookCap,        \* max_aggregate_risk_usd(equity)
    RegistryMax,    \* ClientOrderIdRegistry._max
    Ttl,            \* ClientOrderIdRegistry._ttl
    MaxTime,        \* bound on the clock
    MaxRestarts,    \* bound on gateway restarts
    Nobody          \* no thread; also: opened outside the gateway

Stop    == 1 .. MaxStop
NoStop  == 0                      \* a position without a protective stop
Kind    == {"entry", "limit", "close", "sltp", "modify_pending", "cancel"}

\* A payload.  cid is used by entries, ticket by the other kinds; valid is
\* FALSE when a field the guard checks by itself (symbol, lot, stops, side,
\* commission) is unacceptable.
BodyType == [kind : Kind, cid : Cid, ticket : Ticket, stop : Stop,
             valid : BOOLEAN]

ASSUME BodyAssumption == Body \subseteq BodyType /\ Body # {}
ASSUME TicketAssumption == OwnerTicket \subseteq Ticket
ASSUME NobodyAssumption == Nobody \notin Request
ASSUME BoundsAssumption ==
    /\ MaxStop \in Nat /\ MaxPositions \in Nat /\ TradeCap \in Nat
    /\ BookCap \in Nat /\ RegistryMax \in Nat \ {0} /\ Ttl \in Nat
    /\ MaxTime \in Nat /\ MaxRestarts \in Nat

VARIABLES
    pc,         \* where the thread of a request is
    body,       \* its payload
    answer,     \* what it told its caller
    rows,       \* the position and order rows it has read: ticket -> stop
    worker,     \* the thread call_mt5_bounded started for the send
    opsLock,    \* the request whose worker holds _mt5_ops_lock across the IPC
    seen,       \* ClientOrderIdRegistry._seen, oldest first
    now,        \* the registry's clock
    restarts,   \* gateway restarts so far
    book,       \* the broker's book: ticket -> [st, stop]
    openedBy,   \* the request that opened a ticket
    claimed,    \* history: the entries whose id was admitted
    forgot,     \* history: ids the registry dropped
    blind,      \* history: requests answered None by a row read
    overtaken,  \* history: tickets opened after the book outgrew what was read
    widened     \* history: tickets whose stop was moved away from the price

threadVars == <<pc, body, answer, rows, worker, opsLock>>
registryVars == <<seen, now>>
history == <<claimed, forgot, blind, overtaken, widened>>
vars == <<threadVars, registryVars, restarts, book, openedBy, history>>

Pc == {"idle", "price", "positions", "orders", "claim", "symbol", "checking",
       "sending", "answered"}
WorkerState == {"none", "waiting", "ipc", "detached", "executed", "rejected"}
\* "refused" and "filled" are definite; "unknown" is any other error.
AnswerType == {"none", "refused", "filled", "unknown"}
TicketState == {"free", "working", "open", "closed"}

NoRows == [t \in {} |-> NoStop]
Merged(f, g) == [t \in DOMAIN f \cup DOMAIN g |-> IF t \in DOMAIN f THEN f[t] ELSE g[t]]
IsEntry(r) == body[r].kind \in {"entry", "limit"}
Positions == {t \in Ticket : book[t].st = "open"}
Working == {t \in Ticket : book[t].st = "working"}
Live == Positions \cup Working
StopsOf(S) == [t \in S |-> book[t].stop]
PlannedRisk(stops) == MapThenSumSet(LAMBDA t : stops[t], DOMAIN stops)
Ids(registry) == {registry[i].id : i \in DOMAIN registry}

TypeOK ==
    /\ pc \in [Request -> Pc]
    /\ body \in [Request -> BodyType]
    /\ answer \in [Request -> AnswerType]
    /\ rows \in [Request -> UNION {[S -> 0 .. MaxStop] : S \in SUBSET Ticket}]
    /\ worker \in [Request -> WorkerState]
    /\ opsLock \in Request \cup {Nobody}
    /\ seen \in Seq([id : Cid, at : 0 .. MaxTime])
    /\ now \in 0 .. MaxTime
    /\ restarts \in 0 .. MaxRestarts
    /\ book \in [Ticket -> [st : TicketState, stop : 0 .. MaxStop]]
    /\ openedBy \in [Ticket -> Request \cup {Nobody}]
    /\ claimed \subseteq Request
    /\ forgot \subseteq Cid
    /\ blind \subseteq Request
    /\ overtaken \subseteq Ticket
    /\ widened \subseteq Ticket

\* The gateway has just started, attached to a terminal whose book is empty.
Init ==
    /\ pc = [r \in Request |-> "idle"]
    /\ body = [r \in Request |-> CHOOSE b \in Body : TRUE]
    /\ answer = [r \in Request |-> "none"]
    /\ rows = [r \in Request |-> NoRows]
    /\ worker = [r \in Request |-> "none"]
    /\ opsLock = Nobody
    /\ seen = <<>> /\ now = 0 /\ restarts = 0
    /\ book = [t \in Ticket |-> [st |-> "free", stop |-> NoStop]]
    /\ openedBy = [t \in Ticket |-> Nobody]
    /\ claimed = {} /\ forgot = {} /\ blind = {}
    /\ overtaken = {} /\ widened = {}

-----------------------------------------------------------------------------
(* The guard, in the HTTP thread. *)

Answer(r, a) ==
    /\ pc' = [pc EXCEPT ![r] = "answered"]
    /\ answer' = [answer EXCEPT ![r] = a]

\* Mutant: a refusal is reported with a status nobody knows.
GotoBadStatus(r, l) ==
    /\ pc' = [pc EXCEPT ![r] = l]
    /\ answer' = IF l = "answered" THEN [answer EXCEPT ![r] = "rejected"] ELSE answer
    /\ worker' = IF l = "sending" THEN [worker EXCEPT ![r] = "waiting"] ELSE worker

\* Move a thread on.  Reaching "sending" starts the worker of the send; going
\* straight to "answered" is a refusal.
Goto(r, l) ==
    /\ pc' = [pc EXCEPT ![r] = l]
    /\ answer' = IF l = "answered" THEN [answer EXCEPT ![r] = "refused"] ELSE answer
    /\ worker' = IF l = "sending" THEN [worker EXCEPT ![r] = "waiting"] ELSE worker

\* The request reaches trade_order_send or trade_order_cancel.
Arrive(r, b) ==
    /\ pc[r] = "idle"
    /\ body' = [body EXCEPT ![r] = b]
    /\ Goto(r, CASE b.kind \in {"entry", "limit"} -> "price"
                 [] b.kind \in {"close", "sltp"} -> "positions"
                 [] b.kind = "cancel" -> "orders"
                 [] b.kind = "modify_pending" /\ b.valid -> "symbol"
                 [] OTHER -> "answered")
    /\ UNCHANGED <<rows, opsLock, registryVars, restarts, book,
                   openedBy, history>>

\* A MetaTrader5 read happens under _mt5_ops_lock.  The terminal may be
\* disconnected at any time: then the step is a Refuse.
CanRead == opsLock = Nobody

\* account() and quote(): only whether they answer matters.
ReadPrice(r) ==
    /\ pc[r] = "price" /\ CanRead
    /\ Goto(r, IF body[r].valid THEN "positions" ELSE "answered")
    /\ UNCHANGED <<body, rows, opsLock, registryVars, restarts,
                   book, openedBy, history>>

\* positions_get() or [], orders_get() or []: a failed read is an empty book.
RowRead(r, S, got) ==
    \/ got = StopsOf(S) /\ UNCHANGED blind
    \/ got = NoRows /\ blind' = blind \cup {r}

\* Mutant: the cap is compared after the fact.
EntryFitsOneMore(r, got) == Cardinality(DOMAIN got) <= MaxPositions

EntryFits(r, got) == Cardinality(DOMAIN got) < MaxPositions
MayClose(r, got) == body[r].ticket \in DOMAIN got /\ body[r].valid
\* Mutant: the direction of the stop is not compared.
MayMoveStopAnywhere(r, got) == body[r].ticket \in DOMAIN got /\ body[r].valid

MayMoveStop(r, got) ==
    /\ body[r].ticket \in DOMAIN got /\ body[r].valid
    /\ \/ got[body[r].ticket] = NoStop
       \/ body[r].stop <= got[body[r].ticket]
MayCancel(r, got) ==
    body[r].ticket \notin DOMAIN got /\ body[r].ticket \in DOMAIN rows[r]

ReadPositions(r) ==
    /\ pc[r] = "positions" /\ CanRead
    /\ \E got \in {StopsOf(Positions), NoRows} :
        /\ RowRead(r, Positions, got)
        /\ rows' = [rows EXCEPT ![r] = IF body[r].kind = "cancel" THEN @ ELSE got]
        /\ Goto(r, CASE IsEntry(r) /\ EntryFits(r, got) -> "orders"
                     [] body[r].kind = "close" /\ MayClose(r, got) -> "symbol"
                     [] body[r].kind = "sltp" /\ MayMoveStop(r, got) -> "symbol"
                     [] body[r].kind = "cancel" /\ MayCancel(r, got) -> "sending"
                     [] OTHER -> "answered")
    /\ UNCHANGED <<body, opsLock, registryVars, restarts, book,
                   openedBy, claimed, forgot, overtaken, widened>>

\* Mutant: the aggregate risk is left out.
EntryAllowedAlone(r, all) ==
    /\ EntryFits(r, all)
    /\ \A t \in DOMAIN all : all[t] # NoStop
    /\ body[r].stop <= TradeCap

\* The checks _check_entry makes once the working orders are known too.
EntryAllowed(r, all) ==
    /\ EntryFits(r, all)
    /\ \A t \in DOMAIN all : all[t] # NoStop
    /\ PlannedRisk(all) + body[r].stop <= BookCap
    /\ body[r].stop <= TradeCap

ReadOrders(r) ==
    /\ pc[r] = "orders" /\ CanRead
    /\ \E got \in {StopsOf(Working), NoRows} :
        LET all == Merged(got, rows[r]) IN
        /\ RowRead(r, Working, got)
        /\ rows' = [rows EXCEPT ![r] = all]
        /\ Goto(r, CASE body[r].kind = "cancel" -> "positions"
                     [] IsEntry(r) /\ EntryAllowed(r, all) -> "claim"
                     [] OTHER -> "answered")
    /\ UNCHANGED <<body, opsLock, registryVars, restarts, book,
                   openedBy, claimed, forgot, overtaken, widened>>

\* ClientOrderIdRegistry.claim drops from the oldest while it is expired or
\* the registry is full; what is left starts at FirstKept.
FirstKept == Min({i \in 1 .. Len(seen) + 1 :
                    \/ i = Len(seen) + 1
                    \/ /\ now - seen[i].at <= Ttl
                       /\ Len(seen) - i + 1 < RegistryMax})
Kept == SubSeq(seen, FirstKept, Len(seen))

\* Mutant: the id is recorded but never looked up.
ClaimUnchecked(r) ==
    /\ pc[r] = "claim"
    /\ forgot' = forgot \cup (Ids(seen) \ Ids(Kept))
    /\ seen' = Append(Kept, [id |-> body[r].cid, at |-> now])
    /\ Goto(r, "symbol")
    /\ claimed' = claimed \cup {r}
    /\ UNCHANGED <<body, rows, opsLock, now, restarts, book, openedBy, blind,
                   overtaken, widened>>

Claim(r) ==
    /\ pc[r] = "claim"
    /\ forgot' = forgot \cup (Ids(seen) \ Ids(Kept))
    /\ IF body[r].cid \in Ids(Kept)
       THEN /\ seen' = Kept
            /\ Goto(r, "answered")
            /\ UNCHANGED claimed
       ELSE /\ seen' = Append(Kept, [id |-> body[r].cid, at |-> now])
            /\ Goto(r, "symbol")
            /\ claimed' = claimed \cup {r}
    /\ UNCHANGED <<body, rows, opsLock, now, restarts, book,
                   openedBy, blind, overtaken, widened>>

-----------------------------------------------------------------------------
(* runtime.order_send, in the HTTP thread. *)

\* _ensure_symbol; a stop change is sent without order_check.
EnsureSymbol(r) ==
    /\ pc[r] = "symbol" /\ CanRead
    /\ Goto(r, IF body[r].kind = "sltp" THEN "sending" ELSE "checking")
    /\ UNCHANGED <<body, rows, opsLock, registryVars, restarts,
                   book, openedBy, history>>

\* order_check answers, outside _mt5_ops_lock and without a time limit; the
\* symbol_specs read that follows a refusal may time out.
CheckReturns(r) ==
    /\ pc[r] = "checking"
    /\ \/ \E l \in {"sending", "answered"} : Goto(r, l)
       \/ Answer(r, "unknown") /\ UNCHANGED worker
    /\ UNCHANGED <<body, rows, opsLock, registryVars, restarts,
                   book, openedBy, history>>

\* A step that fails, times out, or finds the terminal disconnected.  A failed
\* read of the guard is a refusal, a failed _ensure_symbol any error.
Refuse(r) ==
    /\ pc[r] \in {"price", "positions", "orders", "symbol"}
    /\ Answer(r, IF pc[r] = "symbol" THEN "unknown" ELSE "refused")
    /\ UNCHANGED <<body, rows, worker, opsLock, registryVars, restarts,
                   book, openedBy, history>>

\* The caller of call_mt5_bounded returns the worker's result, unless the
\* symbol_specs read that follows a send times out...
Respond(r) ==
    /\ pc[r] = "sending" /\ worker[r] \in {"executed", "rejected"}
    /\ \/ Answer(r, IF worker[r] = "executed" THEN "filled" ELSE "refused")
       \/ body[r].kind # "cancel" /\ Answer(r, "unknown")
    /\ UNCHANGED <<body, rows, worker, opsLock, registryVars, restarts,
                   book, openedBy, history>>

\* Mutant: a timeout is reported as a rejection.
TimeOutRefused(r) ==
    /\ pc[r] = "sending" /\ worker[r] \in {"waiting", "ipc"}
    /\ Answer(r, "refused")
    /\ UNCHANGED <<body, rows, worker, opsLock, registryVars, restarts, book,
                   openedBy, history>>

\* Mutant: only the wait for the lock is bounded, not the call itself.
TimeOutWaiting(r) ==
    /\ pc[r] = "sending" /\ worker[r] = "waiting"
    /\ Answer(r, "unknown")
    /\ UNCHANGED <<body, rows, worker, opsLock, registryVars, restarts, book,
                   openedBy, history>>

\* ... or raises MT5CallTimeout and leaves the worker to finish.
TimeOut(r) ==
    /\ pc[r] = "sending" /\ worker[r] \in {"waiting", "ipc"}
    /\ Answer(r, "unknown")
    /\ UNCHANGED <<body, rows, worker, opsLock, registryVars, restarts,
                   book, openedBy, history>>

-----------------------------------------------------------------------------
(* The worker thread of a send. *)

TakeLock(r) ==
    /\ worker[r] = "waiting" /\ opsLock = Nobody
    /\ worker' = [worker EXCEPT ![r] = "ipc"]
    /\ opsLock' = r
    /\ UNCHANGED <<pc, body, answer, rows, registryVars, restarts,
                   book, openedBy, history>>

\* What the broker can do with a request: b is the new book, o the new openers.
Rejected(b, o) == b = book /\ o = openedBy

Opened(r, b, o) ==
    \E t \in Ticket :
        /\ IsEntry(r) /\ book[t].st = "free"
        /\ b = [book EXCEPT ![t] =
                  [st |-> IF body[r].kind = "entry" THEN "open" ELSE "working",
                   stop |-> body[r].stop]]
        /\ o = [openedBy EXCEPT ![t] = r]

Changed(r, b, o) ==
    LET t == body[r].ticket IN
    /\ o = openedBy
    /\ CASE body[r].kind = "close" ->
              t \in Positions /\ b = [book EXCEPT ![t].st = "closed"]
         [] body[r].kind = "sltp" ->
              t \in Positions /\ b = [book EXCEPT ![t].stop = body[r].stop]
         [] body[r].kind = "modify_pending" ->
              t \in Working /\ b = [book EXCEPT ![t].stop = body[r].stop]
         [] body[r].kind = "cancel" ->
              t \in Working /\ b = [book EXCEPT ![t].st = "closed"]
         [] OTHER -> FALSE

\* bridge.order_send returns: the broker has carried the request out, or not.
Execute(r) ==
    /\ worker[r] \in {"ipc", "detached"}
    /\ \/ /\ Rejected(book', openedBy')
          /\ worker' = [worker EXCEPT ![r] = "rejected"]
       \/ /\ Opened(r, book', openedBy') \/ Changed(r, book', openedBy')
          /\ worker' = [worker EXCEPT ![r] = "executed"]
    /\ opsLock' = IF opsLock = r THEN Nobody ELSE opsLock
    /\ overtaken' = IF Live \subseteq DOMAIN rows[r] THEN overtaken
                    ELSE overtaken \cup {t \in Ticket : openedBy'[t] # openedBy[t]}
    /\ widened' = widened \cup {t \in Live : book'[t].stop > book[t].stop}
    /\ UNCHANGED <<pc, body, answer, rows, registryVars, restarts,
                   claimed, forgot, blind>>

-----------------------------------------------------------------------------
(* The broker, the owner's own terminal, the clock and the process. *)

BookMoves(t, new) ==
    /\ book' = [book EXCEPT ![t] = new]
    /\ UNCHANGED <<threadVars, registryVars, restarts, openedBy, history>>

Fill(t) == book[t].st = "working" /\ BookMoves(t, [book[t] EXCEPT !.st = "open"])
StopOut(t) == book[t].st = "open" /\ BookMoves(t, [book[t] EXCEPT !.st = "closed"])
OwnerOpens(t) ==
    /\ t \in OwnerTicket /\ book[t].st = "free"
    /\ \E s \in {NoStop, MaxStop} : BookMoves(t, [st |-> "open", stop |-> s])

Tick ==
    /\ now < MaxTime
    /\ now' = now + 1
    /\ UNCHANGED <<threadVars, seen, restarts, book, openedBy, history>>

\* The process dies with its threads, its lock and the registry; a request the
\* terminal has already been handed runs to its end.
Restart ==
    /\ restarts < MaxRestarts
    /\ restarts' = restarts + 1
    /\ pc' = [r \in Request |-> IF pc[r] = "idle" THEN "idle" ELSE "answered"]
    /\ answer' = [r \in Request |-> IF pc[r] \in {"idle", "answered"}
                                   THEN answer[r] ELSE "unknown"]
    /\ worker' = [r \in Request |->
                    CASE worker[r] = "ipc" -> "detached"
                      [] worker[r] = "waiting" -> "none"
                      [] OTHER -> worker[r]]
    /\ opsLock' = Nobody
    /\ forgot' = forgot \cup Ids(seen)
    /\ seen' = <<>>
    /\ UNCHANGED <<body, rows, now, book, openedBy, claimed, blind,
                   overtaken, widened>>

-----------------------------------------------------------------------------
\* The steps of a request's own thread that a time limit bounds.
HttpStep(r) ==
    \/ ReadPrice(r) \/ ReadPositions(r) \/ ReadOrders(r) \/ Claim(r)
    \/ EnsureSymbol(r) \/ Refuse(r) \/ Respond(r) \/ TimeOut(r)

Environment ==
    \/ \E t \in Ticket : Fill(t) \/ StopOut(t) \/ OwnerOpens(t)
    \/ Tick \/ Restart

Next ==
    \/ \E r \in Request :
        \/ \E b \in Body : Arrive(r, b)
        \/ HttpStep(r) \/ CheckReturns(r) \/ TakeLock(r) \/ Execute(r)
    \/ Environment

Spec == Init /\ [][Next]_vars

\* Every bounded step of a request's thread is eventually taken, and the terminal
\* answers every order_check; nothing makes it answer an order_send.
FairSpec == Spec /\ \A r \in Request : WF_vars(HttpStep(r)) /\ WF_vars(CheckReturns(r))

-----------------------------------------------------------------------------
(* What the guard guarantees. *)

GatewayOpened == {t \in Live : openedBy[t] \in Request}

\* Entries the guard admitted on a complete view of the book never take it past
\* the position maximum: only an order that reached the book between the reads
\* of a request and its send (order_guard.py _check_entry, routers.py
\* _guarded_send) can.
CapHeldUnlessOvertaken ==
    Cardinality(GatewayOpened \ overtaken) <= MaxPositions

\* The same of the aggregate risk cap: the stops of such entries, as they stand
\* now, add up to at most max_aggregate_risk_usd, unless one was widened later.
BookRiskUnlessOvertaken ==
    PlannedRisk(StopsOf(GatewayOpened \ (overtaken \cup widened))) <= BookCap

\* One client_order_id opens at most one ticket, over every retry, timeout,
\* orphaned worker and restart, as long as the registry remembers the id
\* (ClientOrderIdRegistry.claim).
OneEntryPerId ==
    \A t, u \in Ticket :
        /\ t # u /\ openedBy[t] \in Request /\ openedBy[u] \in Request
        /\ body[openedBy[t]].cid = body[openedBy[u]].cid
        => body[openedBy[t]].cid \in forgot

\* A caller told of a definite failure will not see its order executed, however
\* late the worker that timed out runs; one told of a fill has its order.
AnswersAreTrue ==
    \A r \in Request :
        /\ answer[r] = "refused" => worker[r] \in {"none", "rejected"}
                                    /\ \A t \in Ticket : openedBy[t] # r
        /\ answer[r] = "filled" /\ IsEntry(r) => \E t \in Ticket : openedBy[t] = r

\* An open position's stop moves away from the price only when it moved between
\* the read of _check_sltp and the send, so that the guard compared with
\* another stop.
WidenOnlyStale ==
    [][\A t \in Positions :
        book[t].stop # NoStop /\ book'[t].stop > book[t].stop
        => \E r \in Request : /\ worker[r] \in {"ipc", "detached"}
                              /\ body[r].kind = "sltp" /\ t \in DOMAIN rows[r]
                              /\ rows[r][t] # book[t].stop]_vars

\* Every request is answered, even when the terminal never answers an
\* order_send, given that it answers every order_check.
EveryRequestAnswered ==
    \A r \in Request : pc[r] # "idle" ~> pc[r] = "answered"

-----------------------------------------------------------------------------
(* What the route promises its callers: OrderEntry, its orders the entries    *)
(* whose id was admitted and its memory the registry.                         *)

FateOf(r) ==
    CASE \E t \in Ticket : openedBy[t] = r -> "open"
      [] worker[r] = "rejected" \/ (worker[r] = "none" /\ pc[r] = "answered") -> "dead"
      [] OTHER -> "flight"
Admitted == {[of |-> r, id |-> body[r].cid, fate |-> FateOf(r)] : r \in claimed}
MemoryOf(i) ==
    IF i \in forgot THEN "forgotten" ELSE IF i \in Ids(seen) THEN "known" ELSE "new"

\* Whatever is claimed, dropped, timed out, left behind and restarted: an entry
\* passes only under an id that is not remembered, it reaches the broker at most
\* once and at any time, and one that was refused or lost with its process never
\* comes back (ClientOrderIdRegistry.claim, order_send, call_mt5_bounded).
Promise == INSTANCE OrderEntry WITH
    Order <- Request, Id <- Cid,
    memory <- [i \in Cid |-> MemoryOf(i)], orders <- Admitted
ImplementsOrderEntry == Promise!Spec

-----------------------------------------------------------------------------
(* What the documentation says of the program, and the program does not do. *)

\* order_guard.py: new entries keep "at most five Gold positions including
\* working orders" (five is the cap here; the owner's own orders do not count).
AtMostMaxPositions == Cardinality(GatewayOpened) <= MaxPositions

\* order_guard.py: "A missing quote, equity read, or position read rejects the
\* entry".
MissingReadRejectsEntry == claimed \cap blind = {}
=============================================================================
