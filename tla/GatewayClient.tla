---------------------------- MODULE GatewayClient ----------------------------
(***************************************************************************)
(* The API's HTTP client of the MT5 gateway: reads of the open positions,  *)
(* which are cached and shared while in flight, and orders, which are      *)
(* neither.                                                                *)
(*                                                                         *)
(* The cache is read, stored and cleared without a lock.  A clear cannot   *)
(* call back a read in flight: its rows come from before and are stored    *)
(* after.  Within a cycle of the runtime the cache does not age at all.    *)
(*                                                                         *)
(* The positions are a number, the orders executed so far.  A wait for a   *)
(* read slot that times out is one of the faults; the one slot for         *)
(* mutations is modelled.  order_cancel is order_send to this cache.       *)
(***************************************************************************)
EXTENDS Naturals, FiniteSets

CONSTANTS
    Reader,         \* threads that read the positions
    Sender,         \* threads that send orders
    None,           \* no thread
    Attempts,       \* request_attempts of a heavy GET (3 in the code)
    MaxReads,       \* bound on reads
    MaxOrders,      \* bound on orders
    MaxClears,      \* bound on clears by cycles and callers
    MaxFaults       \* bound on transport faults and timeouts

ASSUME ThreadAssumption == Reader \cap Sender = {} /\ None \notin Reader \cup Sender
ASSUME BoundAssumption ==
    /\ MaxReads \in Nat /\ MaxOrders \in Nat /\ MaxClears \in Nat
    /\ MaxFaults \in Nat /\ Attempts \in Nat \ {0}

Thread == Reader \cup Sender
Book == 0..MaxOrders

VARIABLES
    book,           \* the broker's positions
    late,           \* orders the gateway still has after their caller gave up
    cache,          \* _positions_cache, while a reader may still use it
    pinned,         \* _cycle_reads_active
    flight,         \* _coalesce for GET /positions: its leader
    mutator,        \* who holds the slot for mutations
    at,             \* where a thread is
    got,            \* the rows a reader has
    tries,          \* attempts a leader has made
    reads, orders, clears, faults,
    floor,          \* history: the positions at the last clear
    need            \* history: floor when a read began

\* A read or a cache: rows, and whether they were read before the last clear
\* and are in the air since, or come from such a read.
Rows == [rows : Book, old : BOOLEAN]
NoRows == [rows |-> 0, old |-> FALSE]
NoCache == [rows |-> 0, old |-> FALSE, set |-> FALSE]

client == <<cache, pinned, flight, mutator>>
bounds == <<reads, orders, clears, faults>>
vars == <<book, late, client, at, got, tries, bounds, floor, need>>

TypeOK ==
    /\ book \in Book /\ late \in 0..MaxOrders
    /\ cache \in [rows : Book, old : BOOLEAN, set : BOOLEAN]
    /\ pinned \in BOOLEAN
    /\ flight \in Reader \cup {None} /\ mutator \in Sender \cup {None}
    /\ at \in [Thread -> {"idle", "request", "wait", "http", "reply", "store",
                          "answer", "send", "sent", "clear"}]
    /\ got \in [Reader -> Rows]
    /\ tries \in [Reader -> 0..Attempts]
    /\ reads \in 0..MaxReads /\ orders \in 0..MaxOrders
    /\ clears \in 0..MaxClears /\ faults \in 0..MaxFaults
    /\ floor \in Book /\ need \in [Reader -> Book]

Init ==
    /\ book = 0 /\ late = 0
    /\ cache = NoCache
    /\ pinned = FALSE
    /\ flight = None /\ mutator = None
    /\ at = [t \in Thread |-> "idle"]
    /\ got = [r \in Reader |-> NoRows]
    /\ tries = [r \in Reader |-> 0]
    /\ reads = 0 /\ orders = 0 /\ clears = 0 /\ faults = 0
    /\ floor = 0 /\ need = [r \in Reader |-> 0]

Goto(t, l) == at' = [at EXCEPT ![t] = l]
Fault == faults < MaxFaults /\ faults' = faults + 1

\* The positions cache is emptied; rows in the air are old from here on.
EmptyCache ==
    /\ cache' = NoCache
    /\ floor' = book
    /\ got' = [r \in Reader |->
                 IF at[r] \in {"reply", "store"} THEN [got[r] EXCEPT !.old = TRUE]
                 ELSE got[r]]

-----------------------------------------------------------------------------
(* list_positions.                                                         *)

\* _cycle_cache_valid.  Rows past their time are as good as none: the next
\* cycle starts by dropping them.
CacheValid == cache.set

BeginRead(r) ==
    /\ at[r] = "idle"
    /\ reads < MaxReads /\ reads' = reads + 1
    /\ need' = [need EXCEPT ![r] = floor]
    /\ IF CacheValid
       THEN /\ got' = [got EXCEPT ![r] = [rows |-> cache.rows, old |-> cache.old]]
            /\ Goto(r, "answer")
       ELSE UNCHANGED got /\ Goto(r, "request")
    /\ UNCHANGED <<book, late, client, tries, orders, clears, faults, floor>>

\* _request: join the read in flight, or lead one.
Request(r) ==
    /\ at[r] = "request"
    /\ IF flight # None
       THEN Goto(r, "wait") /\ UNCHANGED flight
       ELSE Goto(r, "http") /\ flight' = r
    /\ UNCHANGED <<book, late, cache, pinned, mutator, got, tries, bounds, floor, need>>

\* One attempt reaches the gateway, which reads the terminal.
Http(r) ==
    /\ at[r] = "http"
    /\ got' = [got EXCEPT ![r] = [rows |-> book, old |-> FALSE]]
    /\ tries' = [tries EXCEPT ![r] = @ + 1]
    /\ Goto(r, "reply")
    /\ UNCHANGED <<book, late, client, bounds, floor, need>>

\* The future is resolved and taken from the table; who waits on it wakes.
Resolve(r, next) ==
    /\ at' = [t \in Thread |-> IF t = r \/ at[t] = "wait" THEN next ELSE at[t]]
    /\ flight' = None
    /\ tries' = [tries EXCEPT ![r] = 0]

Reply(r) ==
    /\ at[r] = "reply"
    /\ got' = [q \in Reader |-> IF at[q] = "wait" THEN got[r] ELSE got[q]]
    /\ Resolve(r, "store")
    /\ UNCHANGED <<book, late, cache, pinned, mutator, bounds, floor, need>>

\* Mutant: the attempts are not counted.
RetryForEver(r) ==
    /\ at[r] \in {"http", "reply"}
    /\ Fault
    /\ tries' = [tries EXCEPT ![r] = IF at[r] = "http" THEN @ + 1 ELSE @]
    /\ got' = [got EXCEPT ![r] = NoRows]
    /\ Goto(r, "http")
    /\ UNCHANGED <<book, late, client, reads, orders, clears, floor, need>>

\* The attempt failed, on the way out or on the way back, and another is due.
Retry(r) ==
    /\ at[r] \in {"http", "reply"}
    /\ tries[r] < Attempts - (IF at[r] = "http" THEN 1 ELSE 0)
    /\ Fault
    /\ tries' = [tries EXCEPT ![r] = IF at[r] = "http" THEN @ + 1 ELSE @]
    /\ got' = [got EXCEPT ![r] = NoRows]
    /\ Goto(r, "http")
    /\ UNCHANGED <<book, late, client, reads, orders, clears, floor, need>>

\* Mutant: only an answer resolves the future.
GiveUpAlone(r) ==
    /\ at[r] \in {"http", "reply"}
    /\ Fault
    /\ Goto(r, "idle")
    /\ flight' = None
    /\ tries' = [tries EXCEPT ![r] = 0]
    /\ got' = [got EXCEPT ![r] = NoRows]
    /\ UNCHANGED <<book, late, cache, pinned, mutator, reads, orders, clears, floor, need>>

\* No slot in time, a fault that is not transient, or the last attempt: the
\* leader and everyone who waits on it raise.
GiveUp(r) ==
    /\ at[r] \in {"http", "reply"}
    /\ Fault
    /\ Resolve(r, "idle")
    /\ got' = [got EXCEPT ![r] = NoRows]
    /\ UNCHANGED <<book, late, cache, pinned, mutator, reads, orders, clears, floor, need>>

\* Leader and waiters alike store what they were given.
StoreRows(r) ==
    /\ at[r] = "store"
    /\ cache' = [rows |-> got[r].rows, old |-> got[r].old, set |-> TRUE]
    /\ Goto(r, "answer")
    /\ UNCHANGED <<book, late, pinned, flight, mutator, got, tries, bounds, floor, need>>

Answer(r) ==
    /\ at[r] = "answer"
    /\ Goto(r, "idle")
    /\ got' = [got EXCEPT ![r] = NoRows]
    /\ need' = [need EXCEPT ![r] = 0]
    /\ UNCHANGED <<book, late, client, tries, bounds, floor>>

\* The TTL counts from the beginning of the read that stored, and not at all
\* within a cycle.
Age ==
    /\ cache.set /\ ~pinned
    /\ cache' = NoCache
    /\ UNCHANGED <<book, late, pinned, flight, mutator, at, got, tries, bounds, floor, need>>

-----------------------------------------------------------------------------
(* Cycles of the runtime, and callers that want a fresh read.              *)

\* Mutant: what the last cycle read is kept.
BeginCycleKeeps ==
    /\ ~pinned
    /\ clears < MaxClears /\ clears' = clears + 1
    /\ pinned' = TRUE
    /\ floor' = book
    /\ UNCHANGED <<book, late, cache, flight, mutator, at, got, tries, reads, orders,
                   faults, need>>

\* begin_cycle_reads.
BeginCycle ==
    /\ ~pinned
    /\ clears < MaxClears /\ clears' = clears + 1
    /\ pinned' = TRUE
    /\ EmptyCache
    /\ UNCHANGED <<book, late, flight, mutator, at, tries, reads, orders, faults, need>>

\* end_cycle_reads.
EndCycle ==
    /\ pinned
    /\ pinned' = FALSE
    /\ UNCHANGED <<book, late, cache, flight, mutator, at, got, tries, bounds, floor, need>>

\* invalidate_positions_cache, and require_fresh_execution_reads for this cache.
Invalidate ==
    /\ clears < MaxClears /\ clears' = clears + 1
    /\ EmptyCache
    /\ UNCHANGED <<book, late, pinned, flight, mutator, at, tries, reads, orders, faults,
                   need>>

-----------------------------------------------------------------------------
(* order_send.                                                             *)

\* MUTATION_LIMIT is one.  A call waits for it at "idle"; one that waits too
\* long raises and leaves nothing behind.
BeginSend(s) ==
    /\ at[s] = "idle"
    /\ orders < MaxOrders /\ orders' = orders + 1
    /\ mutator = None
    /\ mutator' = s
    /\ Goto(s, "send")
    /\ UNCHANGED <<book, late, cache, pinned, flight, got, tries, reads, clears, faults,
                   floor, need>>

\* The gateway executes the order, or the broker refuses it.
Execute(s) ==
    /\ at[s] = "send"
    /\ book' \in {book, book + 1}
    /\ Goto(s, "sent")
    /\ UNCHANGED <<late, client, got, tries, bounds, floor, need>>

\* The slot is given back, then the cache is cleared.
SendReply(s) ==
    /\ at[s] = "sent"
    /\ mutator' = None
    /\ Goto(s, "clear")
    /\ UNCHANGED <<book, late, cache, pinned, flight, got, tries, bounds, floor, need>>

ClearAfterSend(s) ==
    /\ at[s] = "clear"
    /\ EmptyCache
    /\ Goto(s, "idle")
    /\ UNCHANGED <<book, late, pinned, flight, mutator, tries, bounds, need>>

\* Mutant: the send is repeated like a read.
SendRetries(s) ==
    /\ at[s] \in {"send", "sent"}
    /\ Fault
    /\ Goto(s, "send")
    /\ UNCHANGED <<book, late, client, got, tries, reads, orders, clears, floor, need>>

\* A transport fault or a timeout, before, at or after the gateway: never
\* repeated, and the cache is left as it is.
SendFails(s) ==
    /\ at[s] \in {"send", "sent"}
    /\ Fault
    /\ \/ UNCHANGED late
       \/ at[s] = "send" /\ late' = late + 1
    /\ mutator' = None
    /\ Goto(s, "idle")
    /\ UNCHANGED <<book, cache, pinned, flight, got, tries, reads, orders, clears,
                   floor, need>>

ExecuteLate ==
    /\ late > 0 /\ late' = late - 1
    /\ book' \in {book, book + 1}
    /\ UNCHANGED <<client, at, got, tries, bounds, floor, need>>

-----------------------------------------------------------------------------

ReadStep(r) ==
    Request(r) \/ Http(r) \/ Reply(r) \/ StoreRows(r) \/ Answer(r)
SendStep(s) == Execute(s) \/ SendReply(s) \/ ClearAfterSend(s)

Next ==
    \/ \E r \in Reader : BeginRead(r) \/ ReadStep(r) \/ Retry(r) \/ GiveUp(r)
    \/ \E s \in Sender : BeginSend(s) \/ SendStep(s) \/ SendFails(s)
    \/ ExecuteLate \/ Age \/ BeginCycle \/ EndCycle \/ Invalidate

\* HTTP timeouts end every request, and a reader's thread runs.
Fairness == \A r \in Reader : WF_vars(ReadStep(r))

Spec == Init /\ [][Next]_vars /\ Fairness

-----------------------------------------------------------------------------

\* Whoever reads the positions after they were cleared, by an answered order,
\* by the start of a cycle or by a caller that wants them fresh, sees them at
\* least as they were then, cached, shared or pinned as they may be, unless
\* the rows were in the air at the clear.
ReadsFollowClears ==
    \A r \in Reader : at[r] = "answer" => got[r].rows >= need[r] \/ got[r].old

\* At most one order executes for a call of order_send, whatever is lost on
\* the way and however late, and only who holds the slot is sending.
Sending == \E s \in Sender : at[s] = "send"
OneExecutionPerCall ==
    /\ book + late + (IF Sending THEN 1 ELSE 0) <= orders
    /\ \A s \in Sender : at[s] \in {"send", "sent"} => mutator = s

\* Every read is answered or raises, for those who joined another's too.
EveryReadEnds == \A r \in Reader : at[r] # "idle" ~> at[r] = "idle"

\* "Force next list_positions() to hit gateway GET /positions."
ForcedReadIsFresh ==
    \A r \in Reader : at[r] = "answer" => got[r].rows >= need[r]
=============================================================================
