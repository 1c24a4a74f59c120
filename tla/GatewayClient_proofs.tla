-------------------------- MODULE GatewayClient_proofs --------------------------
(* What GatewayClient guarantees for any number of readers and senders, any  *)
(* number of attempts and any bounds.                                        *)
EXTENDS GatewayClient, TLAPS

-----------------------------------------------------------------------------
(* Types.  That the counters stay in their sets follows from Counted below.  *)

Steps == {"idle", "request", "wait", "http", "reply", "store", "answer",
          "send", "sent", "clear"}

Rests ==
    /\ cache \in [rows : Nat, old : BOOLEAN, set : BOOLEAN]
    /\ pinned \in BOOLEAN
    /\ flight \in Reader \cup {None} /\ mutator \in Sender \cup {None}
    /\ at \in [Thread -> Steps]
    /\ got \in [Reader -> [rows : Nat, old : BOOLEAN]]
    /\ tries \in [Reader -> Nat]
    /\ reads \in 0..MaxReads /\ orders \in 0..MaxOrders
    /\ clears \in 0..MaxClears /\ faults \in 0..MaxFaults
    /\ book \in Nat /\ late \in Nat /\ floor \in Nat /\ need \in [Reader -> Nat]

(* Every order at the broker or still at the gateway belongs to a call.      *)
Counted == OneExecutionPerCall

(* A leader has attempts left when it is about to make one.                  *)
Tried ==
    \A r \in Reader :
        /\ at[r] = "http" => tries[r] < Attempts
        /\ at[r] = "reply" => tries[r] <= Attempts
        /\ at[r] \notin {"http", "reply"} => tries[r] = 0

(* Positions are only added, and rows that no clear has overtaken are at     *)
(* least as new as the last clear.                                           *)
Fresh(x) == x.old \/ x.rows >= floor

Followed ==
    /\ floor <= book
    /\ cache.rows <= book
    /\ cache.set => Fresh(cache)
    /\ \A r \in Reader :
        /\ need[r] <= floor
        /\ got[r].rows <= book
        /\ at[r] \in {"reply", "store"} => Fresh(got[r])
        /\ at[r] = "answer" => got[r].rows >= need[r] \/ got[r].old

Inv == Rests /\ Counted /\ Tried /\ Followed

LEMMA InvInit == Init => Inv
<1> SUFFICES ASSUME Init PROVE Inv
  OBVIOUS
<1>1. /\ book = 0 /\ late = 0 /\ floor = 0 /\ orders = 0
      /\ \A t \in Thread : at[t] = "idle"
      /\ Reader \subseteq Thread /\ Sender \subseteq Thread
  BY DEF Init, Thread
<1>2. cache \in [rows : Nat, old : BOOLEAN, set : BOOLEAN] /\ cache.set = FALSE /\ cache.rows = 0
  BY DEF Init, NoCache
<1>3. pinned \in BOOLEAN
  BY Zenon DEF Init
<1>4. got \in [Reader -> [rows : Nat, old : BOOLEAN]] /\ \A r \in Reader : got[r].rows = 0
  BY DEF Init, NoRows
<1>5. /\ flight \in Reader \cup {None} /\ mutator \in Sender \cup {None}
      /\ at \in [Thread -> Steps] /\ tries \in [Reader -> Nat]
      /\ reads \in 0..MaxReads /\ orders \in 0..MaxOrders
      /\ clears \in 0..MaxClears /\ faults \in 0..MaxFaults
      /\ need \in [Reader -> Nat] /\ \A r \in Reader : need[r] = 0 /\ tries[r] = 0
  BY BoundAssumption DEF Init, Steps
<1>6. Rests
  BY <1>1, <1>2, <1>3, <1>4, <1>5 DEF Rests
<1>7. Counted
  BY <1>1 DEF Counted, OneExecutionPerCall, Sending
<1>8. Tried
  BY <1>1, <1>5, BoundAssumption DEF Tried
<1>9. Followed
  BY <1>1, <1>2, <1>4, <1>5 DEF Followed
<1> QED
  BY <1>6, <1>7, <1>8, <1>9 DEF Inv

LEMMA InvTypes == Inv => TypeOK
<1> SUFFICES ASSUME Inv PROVE TypeOK
  OBVIOUS
<1>1. book \in Nat /\ late \in Nat /\ orders \in Nat /\ orders <= MaxOrders
      /\ floor \in Nat /\ MaxOrders \in Nat /\ Attempts \in Nat
  BY BoundAssumption DEF Inv, Rests
<1>2. book + late <= orders
  BY <1>1 DEF Inv, Counted, OneExecutionPerCall
<1>3. book <= MaxOrders /\ late <= MaxOrders /\ floor <= book
  BY <1>1, <1>2 DEF Inv, Followed
<1>4. book \in Book /\ late \in 0..MaxOrders /\ floor \in Book
  BY <1>1, <1>3 DEF Book
<1>5. need \in [Reader -> Book]
  BY <1>1, <1>3 DEF Inv, Rests, Followed, Book
<1>6. tries \in [Reader -> 0..Attempts]
  <2>1. \A r \in Reader : tries[r] \in 0..Attempts
    BY <1>1 DEF Inv, Rests, Tried
  <2> QED
    BY <2>1 DEF Inv, Rests
<1>7. cache \in [rows : Book, old : BOOLEAN, set : BOOLEAN]
  BY <1>1, <1>3 DEF Inv, Rests, Followed, Book
<1>8. got \in [Reader -> Rows]
  BY <1>1, <1>3 DEF Inv, Rests, Followed, Book, Rows
<1> QED
  BY <1>4, <1>5, <1>6, <1>7, <1>8 DEF Inv, Rests, TypeOK, Steps

-----------------------------------------------------------------------------
(* A clear leaves no rows in the air that count as fresh.                    *)
LEMMA ClearKeeps ==
    ASSUME Inv, EmptyCache, book' = book, need' = need, tries' = tries,
           \A r \in Reader : at'[r] = at[r]
    PROVE  /\ Followed' /\ Tried' /\ floor' \in Nat
           /\ cache' \in [rows : Nat, old : BOOLEAN, set : BOOLEAN]
           /\ got' \in [Reader -> [rows : Nat, old : BOOLEAN]]
<1>1. book \in Nat /\ floor \in Nat /\ floor <= book /\ need \in [Reader -> Nat]
      /\ got \in [Reader -> [rows : Nat, old : BOOLEAN]]
  BY DEF Inv, Rests, Followed
<1>2. cache' = [rows |-> 0, old |-> FALSE, set |-> FALSE] /\ floor' = book
  BY DEF EmptyCache, NoCache
<1>3. cache' \in [rows : Nat, old : BOOLEAN, set : BOOLEAN] /\ cache'.set = FALSE /\ cache'.rows = 0
  BY <1>2
<1>4. \A r \in Reader :
        /\ got'[r].rows = got[r].rows
        /\ at[r] \in {"reply", "store"} => got'[r].old = TRUE
        /\ at[r] \notin {"reply", "store"} => got'[r] = got[r]
        /\ got'[r] \in [rows : Nat, old : BOOLEAN]
  <2> TAKE r \in Reader
  <2>1. CASE at[r] \in {"reply", "store"}
    <3>1. got'[r] = [got[r] EXCEPT !.old = TRUE]
      BY <2>1 DEF EmptyCache
    <3>2. got'[r].rows = got[r].rows /\ got'[r].old = TRUE
      BY <1>1, <3>1
    <3>3. got'[r] \in [rows : Nat, old : BOOLEAN]
      BY <1>1, <3>1
    <3> QED
      BY <2>1, <3>2, <3>3
  <2>2. CASE at[r] \notin {"reply", "store"}
    BY <1>1, <2>2 DEF EmptyCache
  <2> QED
    BY <2>1, <2>2
<1>5. got' \in [Reader -> [rows : Nat, old : BOOLEAN]]
  BY <1>4 DEF EmptyCache
<1>6. Tried'
  BY DEF Inv, Tried
<1>7. ASSUME NEW r \in Reader
      PROVE  /\ need'[r] <= floor' /\ got'[r].rows <= book'
             /\ at'[r] \in {"reply", "store"} => got'[r].old \/ got'[r].rows >= floor'
             /\ at'[r] = "answer" => got'[r].rows >= need'[r] \/ got'[r].old
  <2>1. need'[r] <= floor'
    BY <1>1, <1>2 DEF Inv, Followed
  <2>2. got'[r].rows <= book'
    BY <1>4 DEF Inv, Followed
  <2>3. at'[r] \in {"reply", "store"} => got'[r].old
    BY <1>4
  <2>4. at'[r] = "answer" => got'[r].rows >= need'[r] \/ got'[r].old
    BY <1>4 DEF Inv, Followed
  <2> QED
    BY <2>1, <2>2, <2>3, <2>4
<1>8. Followed'
  BY <1>1, <1>2, <1>3, <1>7 DEF Followed, Fresh
<1> QED
  BY <1>1, <1>2, <1>3, <1>5, <1>6, <1>8

(* What steps that touch no rows leave alone.                                *)
LEMMA FollowedStays ==
    ASSUME Followed, book' = book, floor' = floor, need' = need, got' = got,
           cache' = cache,
           \A r \in Reader : at'[r] = at[r] \/ at'[r] \notin {"reply", "store", "answer"}
    PROVE  Followed'
BY DEF Followed, Fresh

LEMMA CountedStays ==
    ASSUME Rests, Counted, book' = book, late' = late, orders' = orders,
           mutator' = mutator,
           \A s \in Sender : at'[s] \in {"send", "sent"} => at'[s] = at[s]
    PROVE  Counted'
<1>1. Sending' => Sending
  BY DEF Sending
<1>2. book \in Nat /\ late \in Nat /\ orders \in Nat
  BY DEF Rests
<1>3. book + late + (IF Sending THEN 1 ELSE 0) <= orders
  BY DEF Counted, OneExecutionPerCall
<1>4. CASE Sending'
  <2>1. book + late + 1 <= orders
    BY <1>1, <1>3, <1>4
  <2> QED
    BY <1>4, <2>1 DEF Counted, OneExecutionPerCall
<1>5. CASE ~Sending'
  <2>1. book + late <= orders
    BY <1>2, <1>3
  <2>2. (book + late + (IF Sending THEN 1 ELSE 0) <= orders)'
    BY <1>2, <1>5, <2>1
  <2> QED
    BY <2>2 DEF Counted, OneExecutionPerCall
<1> QED
  BY <1>4, <1>5

-----------------------------------------------------------------------------
(* Reads.                                                                    *)

ReaderActs(r) ==
    BeginRead(r) \/ Request(r) \/ Http(r) \/ Reply(r) \/ Retry(r) \/ GiveUp(r)
    \/ StoreRows(r) \/ Answer(r)

LEMMA ReaderLeaves ==
    ASSUME Inv, NEW r \in Reader, ReaderActs(r)
    PROVE  /\ book' = book /\ late' = late /\ floor' = floor /\ orders' = orders
           /\ clears' = clears /\ pinned' = pinned /\ mutator' = mutator
           /\ at' \in [Thread -> Steps]
           /\ \A s \in Sender : at'[s] \in {"send", "sent"} => at'[s] = at[s]
           /\ reads' \in 0..MaxReads /\ faults' \in 0..MaxFaults
           /\ flight' \in Reader \cup {None}
<1>0. at \in [Thread -> Steps] /\ Reader \subseteq Thread /\ Sender \subseteq Thread
      /\ reads \in 0..MaxReads /\ faults \in 0..MaxFaults /\ flight \in Reader \cup {None}
  BY DEF Inv, Rests, Thread
<1>1. /\ book' = book /\ late' = late /\ floor' = floor /\ orders' = orders
      /\ clears' = clears /\ pinned' = pinned /\ mutator' = mutator
  BY DEF ReaderActs, BeginRead, Request, Http, Reply, Retry, GiveUp, StoreRows, Answer,
         bounds, client
<1>2. reads' \in 0..MaxReads /\ faults' \in 0..MaxFaults /\ flight' \in Reader \cup {None}
  BY <1>0, BoundAssumption
     DEF ReaderActs, BeginRead, Request, Http, Reply, Retry, GiveUp, StoreRows, Answer,
         bounds, client, Resolve, Fault
<1>3. at' \in [Thread -> Steps]
  BY <1>0 DEF ReaderActs, BeginRead, Request, Http, Reply, Retry, GiveUp, StoreRows,
              Answer, Resolve, Goto, Steps
<1>4. \A s \in Sender : at'[s] \in {"send", "sent"} => at'[s] = at[s]
  BY <1>0, ThreadAssumption
     DEF ReaderActs, BeginRead, Request, Http, Reply, Retry, GiveUp, StoreRows, Answer,
         Resolve, Goto
<1> QED
  BY <1>1, <1>2, <1>3, <1>4

(* The three parts a read can disturb are enough.                            *)
LEMMA ReaderParts ==
    ASSUME Inv, NEW r \in Reader, ReaderActs(r), Tried', Followed',
           cache' \in [rows : Nat, old : BOOLEAN, set : BOOLEAN],
           got' \in [Reader -> [rows : Nat, old : BOOLEAN]],
           tries' \in [Reader -> Nat], need' \in [Reader -> Nat]
    PROVE  Inv'
<1>1. Counted'
  BY ReaderLeaves, CountedStays DEF Inv
<1>2. Rests'
  BY ReaderLeaves DEF Inv, Rests
<1> QED
  BY <1>1, <1>2 DEF Inv

LEMMA TypedFacts ==
    ASSUME Inv
    PROVE  /\ at \in [Thread -> Steps] /\ Reader \subseteq Thread
           /\ got \in [Reader -> [rows : Nat, old : BOOLEAN]]
           /\ cache \in [rows : Nat, old : BOOLEAN, set : BOOLEAN]
           /\ tries \in [Reader -> Nat] /\ need \in [Reader -> Nat]
           /\ book \in Nat /\ floor \in Nat
BY DEF Inv, Rests, Thread

LEMMA BeginReadStep == ASSUME Inv, NEW r \in Reader, BeginRead(r) PROVE Inv'
<1>0. /\ at \in [Thread -> Steps] /\ Reader \subseteq Thread
      /\ got \in [Reader -> [rows : Nat, old : BOOLEAN]]
      /\ cache \in [rows : Nat, old : BOOLEAN, set : BOOLEAN]
      /\ tries \in [Reader -> Nat] /\ need \in [Reader -> Nat]
      /\ book \in Nat /\ floor \in Nat
  BY TypedFacts
<1>1. /\ book' = book /\ floor' = floor /\ cache' = cache /\ tries' = tries
      /\ need' = [need EXCEPT ![r] = floor] /\ at[r] = "idle"
  BY DEF BeginRead, client
<1>2. need' \in [Reader -> Nat] /\ \A q \in Reader : need'[q] <= floor
  BY <1>0, <1>1 DEF Inv, Followed
<1>3. \A q \in Reader : q # r => at'[q] = at[q] /\ got'[q] = got[q] /\ need'[q] = need[q]
  BY <1>0, <1>1 DEF BeginRead, Goto
<1>4. CASE cache.set
  <2>1. at'[r] = "answer" /\ got' = [got EXCEPT ![r] = [rows |-> cache.rows, old |-> cache.old]]
    BY <1>0, <1>4 DEF BeginRead, CacheValid, Goto
  <2>2. got'[r] = [rows |-> cache.rows, old |-> cache.old]
    BY <1>0, <2>1
  <2>3. got' \in [Reader -> [rows : Nat, old : BOOLEAN]]
    BY <1>0, <2>1
  <2>4. cache.old \/ cache.rows >= floor
    BY <1>4 DEF Inv, Followed, Fresh
  <2>5. got'[r].old = cache.old /\ got'[r].rows = cache.rows /\ need'[r] = floor
    BY <1>0, <1>1, <2>2
  <2>6. got'[r].rows >= need'[r] \/ got'[r].old
    BY <2>4, <2>5
  <2>7. got'[r].rows <= book
    BY <2>5 DEF Inv, Followed
  <2>8. Followed'
    BY <1>1, <1>2, <1>3, <2>1, <2>6, <2>7 DEF Inv, Followed, Fresh
  <2>9. Tried'
    BY <1>1, <1>3, <2>1 DEF Inv, Tried
  <2> QED
    BY <1>0, <1>1, <1>2, <2>3, <2>8, <2>9, ReaderParts DEF ReaderActs
<1>5. CASE ~cache.set
  <2>1. at'[r] = "request" /\ got' = got
    BY <1>0, <1>5 DEF BeginRead, CacheValid, Goto
  <2>2. Followed'
    BY <1>1, <1>2, <1>3, <2>1 DEF Inv, Followed, Fresh
  <2>3. Tried'
    BY <1>1, <1>3, <2>1 DEF Inv, Tried
  <2> QED
    BY <1>0, <1>1, <1>2, <2>1, <2>2, <2>3, ReaderParts DEF ReaderActs
<1> QED
  BY <1>4, <1>5

LEMMA RequestStep == ASSUME Inv, NEW r \in Reader, Request(r) PROVE Inv'
<1>0. /\ at \in [Thread -> Steps] /\ Reader \subseteq Thread
      /\ got \in [Reader -> [rows : Nat, old : BOOLEAN]]
      /\ cache \in [rows : Nat, old : BOOLEAN, set : BOOLEAN]
      /\ tries \in [Reader -> Nat] /\ need \in [Reader -> Nat]
  BY TypedFacts
<1>1. /\ book' = book /\ floor' = floor /\ cache' = cache /\ tries' = tries
      /\ need' = need /\ got' = got /\ at[r] = "request" /\ at'[r] \in {"wait", "http"}
      /\ \A q \in Reader : q # r => at'[q] = at[q]
  BY <1>0 DEF Request, Goto
<1>2. Followed'
  BY <1>1, FollowedStays DEF Inv
<1>3. Tried'
  BY <1>1, BoundAssumption DEF Inv, Tried
<1> QED
  BY <1>0, <1>1, <1>2, <1>3, ReaderParts DEF ReaderActs

LEMMA HttpStep == ASSUME Inv, NEW r \in Reader, Http(r) PROVE Inv'
<1>0. /\ at \in [Thread -> Steps] /\ Reader \subseteq Thread
      /\ got \in [Reader -> [rows : Nat, old : BOOLEAN]]
      /\ cache \in [rows : Nat, old : BOOLEAN, set : BOOLEAN]
      /\ tries \in [Reader -> Nat] /\ need \in [Reader -> Nat]
      /\ book \in Nat /\ floor \in Nat
  BY TypedFacts
<1>1. /\ book' = book /\ floor' = floor /\ cache' = cache /\ need' = need
      /\ at[r] = "http" /\ at'[r] = "reply"
      /\ tries' = [tries EXCEPT ![r] = tries[r] + 1]
      /\ got' = [got EXCEPT ![r] = [rows |-> book, old |-> FALSE]]
      /\ \A q \in Reader : q # r => at'[q] = at[q]
  BY <1>0 DEF Http, Goto, client
<1>2. got' \in [Reader -> [rows : Nat, old : BOOLEAN]] /\ tries' \in [Reader -> Nat]
  BY <1>0, <1>1
<1>3. got'[r].rows = book /\ \A q \in Reader : q # r => got'[q] = got[q] /\ tries'[q] = tries[q]
  BY <1>0, <1>1
<1>4. Followed'
  BY <1>0, <1>1, <1>3 DEF Inv, Followed, Fresh
<1>5. Tried'
  <2>1. tries'[r] = tries[r] + 1 /\ tries[r] < Attempts /\ tries[r] \in Nat
    BY <1>0, <1>1 DEF Inv, Tried
  <2>2. tries'[r] <= Attempts
    BY <2>1, BoundAssumption
  <2> QED
    BY <1>1, <1>3, <2>2 DEF Inv, Tried
<1> QED
  BY <1>0, <1>1, <1>2, <1>4, <1>5, ReaderParts DEF ReaderActs

LEMMA ReplyStep == ASSUME Inv, NEW r \in Reader, Reply(r) PROVE Inv'
<1>0. /\ at \in [Thread -> Steps] /\ Reader \subseteq Thread
      /\ got \in [Reader -> [rows : Nat, old : BOOLEAN]]
      /\ cache \in [rows : Nat, old : BOOLEAN, set : BOOLEAN]
      /\ tries \in [Reader -> Nat] /\ need \in [Reader -> Nat]
      /\ book \in Nat /\ floor \in Nat
  BY TypedFacts
<1>1. /\ book' = book /\ floor' = floor /\ cache' = cache /\ need' = need
      /\ at[r] = "reply" /\ tries' = [tries EXCEPT ![r] = 0]
      /\ got' = [q \in Reader |-> IF at[q] = "wait" THEN got[r] ELSE got[q]]
      /\ at' = [t \in Thread |-> IF t = r \/ at[t] = "wait" THEN "store" ELSE at[t]]
  BY DEF Reply, Resolve
<1>2. got' \in [Reader -> [rows : Nat, old : BOOLEAN]] /\ tries' \in [Reader -> Nat]
  BY <1>0, <1>1
<1>3. Fresh(got[r]) /\ got[r].rows <= book
  BY <1>1 DEF Inv, Followed
<1>4. ASSUME NEW q \in Reader
      PROVE  /\ need'[q] <= floor' /\ got'[q].rows <= book'
             /\ at'[q] \in {"reply", "store"} => got'[q].old \/ got'[q].rows >= floor'
             /\ at'[q] = "answer" => got'[q].rows >= need'[q] \/ got'[q].old
  <2>1. CASE q = r \/ at[q] = "wait"
    <3>1. at'[q] = "store" /\ got'[q] = got[r]
      BY <1>0, <1>1, <2>1
    <3> QED
      BY <1>1, <1>3, <3>1 DEF Inv, Followed, Fresh
  <2>2. CASE q # r /\ at[q] # "wait"
    <3>1. at'[q] = at[q] /\ got'[q] = got[q]
      BY <1>0, <1>1, <2>2
    <3> QED
      BY <1>1, <3>1 DEF Inv, Followed, Fresh
  <2> QED
    BY <2>1, <2>2
<1>5. Followed'
  BY <1>1, <1>4 DEF Inv, Followed, Fresh
<1>6. Tried'
  BY <1>0, <1>1 DEF Inv, Tried
<1> QED
  BY <1>0, <1>1, <1>2, <1>5, <1>6, ReaderParts DEF ReaderActs

LEMMA RetryStep == ASSUME Inv, NEW r \in Reader, Retry(r) PROVE Inv'
<1>0. /\ at \in [Thread -> Steps] /\ Reader \subseteq Thread
      /\ got \in [Reader -> [rows : Nat, old : BOOLEAN]]
      /\ cache \in [rows : Nat, old : BOOLEAN, set : BOOLEAN]
      /\ tries \in [Reader -> Nat] /\ need \in [Reader -> Nat]
      /\ book \in Nat /\ floor \in Nat
  BY TypedFacts
<1>1. /\ book' = book /\ floor' = floor /\ cache' = cache /\ need' = need
      /\ at[r] \in {"http", "reply"} /\ at'[r] = "http"
      /\ tries' = [tries EXCEPT ![r] = IF at[r] = "http" THEN tries[r] + 1 ELSE tries[r]]
      /\ tries[r] < Attempts - (IF at[r] = "http" THEN 1 ELSE 0)
      /\ got' = [got EXCEPT ![r] = [rows |-> 0, old |-> FALSE]]
      /\ \A q \in Reader : q # r => at'[q] = at[q]
  BY <1>0 DEF Retry, Goto, client, NoRows
<1>2. got' \in [Reader -> [rows : Nat, old : BOOLEAN]] /\ tries' \in [Reader -> Nat]
  BY <1>0, <1>1
<1>3. got'[r].rows = 0 /\ \A q \in Reader : q # r => got'[q] = got[q] /\ tries'[q] = tries[q]
  BY <1>0, <1>1
<1>4. Followed'
  BY <1>0, <1>1, <1>3 DEF Inv, Followed, Fresh
<1>5. tries'[r] < Attempts
  <2>1. CASE at[r] = "http"
    <3>1. tries'[r] = tries[r] + 1 /\ tries[r] < Attempts - 1
      BY <1>0, <1>1, <2>1
    <3> QED
      BY <1>0, <3>1, BoundAssumption
  <2>2. CASE at[r] = "reply"
    <3>1. tries'[r] = tries[r] /\ tries[r] < Attempts - 0
      BY <1>0, <1>1, <2>2
    <3> QED
      BY <1>0, <3>1, BoundAssumption
  <2> QED
    BY <1>1, <2>1, <2>2
<1>6. Tried'
  BY <1>1, <1>3, <1>5 DEF Inv, Tried
<1> QED
  BY <1>0, <1>1, <1>2, <1>4, <1>6, ReaderParts DEF ReaderActs

LEMMA GiveUpStep == ASSUME Inv, NEW r \in Reader, GiveUp(r) PROVE Inv'
<1>0. /\ at \in [Thread -> Steps] /\ Reader \subseteq Thread
      /\ got \in [Reader -> [rows : Nat, old : BOOLEAN]]
      /\ cache \in [rows : Nat, old : BOOLEAN, set : BOOLEAN]
      /\ tries \in [Reader -> Nat] /\ need \in [Reader -> Nat]
      /\ book \in Nat /\ floor \in Nat
  BY TypedFacts
<1>1. /\ book' = book /\ floor' = floor /\ cache' = cache /\ need' = need
      /\ at[r] \in {"http", "reply"} /\ tries' = [tries EXCEPT ![r] = 0]
      /\ got' = [got EXCEPT ![r] = [rows |-> 0, old |-> FALSE]]
      /\ at' = [t \in Thread |-> IF t = r \/ at[t] = "wait" THEN "idle" ELSE at[t]]
  BY DEF GiveUp, Resolve, NoRows
<1>2. got' \in [Reader -> [rows : Nat, old : BOOLEAN]] /\ tries' \in [Reader -> Nat]
  BY <1>0, <1>1
<1>3. /\ got'[r].rows = 0 /\ at'[r] = "idle"
      /\ \A q \in Reader : q # r => got'[q] = got[q] /\ at'[q] \in {at[q], "idle"}
  BY <1>0, <1>1
<1>4. Followed'
  BY <1>0, <1>1, <1>3 DEF Inv, Followed, Fresh
<1>5. Tried'
  BY <1>0, <1>1 DEF Inv, Tried
<1> QED
  BY <1>0, <1>1, <1>2, <1>4, <1>5, ReaderParts DEF ReaderActs

LEMMA StoreRowsStep == ASSUME Inv, NEW r \in Reader, StoreRows(r) PROVE Inv'
<1>0. /\ at \in [Thread -> Steps] /\ Reader \subseteq Thread
      /\ got \in [Reader -> [rows : Nat, old : BOOLEAN]]
      /\ cache \in [rows : Nat, old : BOOLEAN, set : BOOLEAN]
      /\ tries \in [Reader -> Nat] /\ need \in [Reader -> Nat]
      /\ book \in Nat /\ floor \in Nat
  BY TypedFacts
<1>1. /\ book' = book /\ floor' = floor /\ need' = need /\ tries' = tries /\ got' = got
      /\ at[r] = "store" /\ at'[r] = "answer"
      /\ cache' = [rows |-> got[r].rows, old |-> got[r].old, set |-> TRUE]
      /\ \A q \in Reader : q # r => at'[q] = at[q]
  BY <1>0 DEF StoreRows, Goto
<1>2. got[r].old \/ got[r].rows >= floor
  BY <1>1 DEF Inv, Followed, Fresh
<1>3. cache'.rows = got[r].rows /\ cache'.old = got[r].old
  BY <1>1
<1>4. cache' \in [rows : Nat, old : BOOLEAN, set : BOOLEAN]
  BY <1>0, <1>1
<1>5. got[r].rows >= need[r] \/ got[r].old
  <2>1. need[r] <= floor /\ need[r] \in Nat /\ got[r].rows \in Nat
    BY <1>0 DEF Inv, Followed
  <2>2. CASE got[r].old
    BY <2>2
  <2>3. CASE got[r].rows >= floor
    <3>1. got[r].rows >= need[r]
      BY <1>0, <2>1, <2>3
    <3> QED
      BY <3>1
  <2> QED
    BY <1>2, <2>2, <2>3
<1>6. Followed'
  BY <1>1, <1>2, <1>3, <1>5 DEF Inv, Followed, Fresh
<1>7. Tried'
  BY <1>1 DEF Inv, Tried
<1> QED
  BY <1>0, <1>1, <1>4, <1>6, <1>7, ReaderParts DEF ReaderActs

LEMMA AnswerStep == ASSUME Inv, NEW r \in Reader, Answer(r) PROVE Inv'
<1>0. /\ at \in [Thread -> Steps] /\ Reader \subseteq Thread
      /\ got \in [Reader -> [rows : Nat, old : BOOLEAN]]
      /\ cache \in [rows : Nat, old : BOOLEAN, set : BOOLEAN]
      /\ tries \in [Reader -> Nat] /\ need \in [Reader -> Nat]
      /\ book \in Nat /\ floor \in Nat
  BY TypedFacts
<1>1. /\ book' = book /\ floor' = floor /\ cache' = cache /\ tries' = tries
      /\ at[r] = "answer" /\ at'[r] = "idle" /\ need' = [need EXCEPT ![r] = 0]
      /\ got' = [got EXCEPT ![r] = [rows |-> 0, old |-> FALSE]]
      /\ \A q \in Reader : q # r => at'[q] = at[q]
  BY <1>0 DEF Answer, Goto, client, NoRows
<1>2. got' \in [Reader -> [rows : Nat, old : BOOLEAN]] /\ need' \in [Reader -> Nat]
  BY <1>0, <1>1
<1>3. /\ got'[r].rows = 0 /\ need'[r] = 0
      /\ \A q \in Reader : q # r => got'[q] = got[q] /\ need'[q] = need[q]
  BY <1>0, <1>1
<1>4. Followed'
  BY <1>0, <1>1, <1>3 DEF Inv, Followed, Fresh
<1>5. Tried'
  BY <1>1 DEF Inv, Tried
<1> QED
  BY <1>0, <1>1, <1>2, <1>4, <1>5, ReaderParts DEF ReaderActs

-----------------------------------------------------------------------------
(* Orders.                                                                   *)

(* Nobody but the holder of the slot is sending.                             *)
LEMMA OneSender ==
    ASSUME Inv, NEW s \in Sender, at[s] \in {"send", "sent"}
    PROVE  /\ mutator = s
           /\ \A u \in Sender : u # s => at[u] \notin {"send", "sent"}
           /\ Sending <=> at[s] = "send"
BY DEF Inv, Counted, OneExecutionPerCall, Sending

LEMMA CountedFacts ==
    ASSUME Inv
    PROVE  /\ book \in Nat /\ late \in Nat /\ orders \in Nat
           /\ book + late <= orders
           /\ Sending => book + late + 1 <= orders
<1>1. book \in Nat /\ late \in Nat /\ orders \in Nat
  BY DEF Inv, Rests
<1>2. book + late + (IF Sending THEN 1 ELSE 0) <= orders
  BY DEF Inv, Counted, OneExecutionPerCall
<1>3. CASE Sending
  <2>1. book + late + 1 <= orders
    BY <1>2, <1>3
  <2> QED
    BY <1>1, <2>1
<1>4. CASE ~Sending
  <2>1. book + late + 0 <= orders
    BY <1>2, <1>4
  <2> QED
    BY <1>1, <1>4, <2>1
<1> QED
  BY <1>3, <1>4

(* When nobody is sending any more, what was sent must be accounted for.     *)
LEMMA CountedAtRest ==
    ASSUME ~Sending', book' \in Nat, late' \in Nat, orders' \in Nat,
           book' + late' <= orders',
           \A u \in Sender : at'[u] \in {"send", "sent"} => mutator' = u
    PROVE  Counted'
<1>1. ASSUME NEW b \in Nat, NEW l \in Nat, NEW o \in Nat, b + l <= o
      PROVE  b + l + 0 <= o
  BY <1>1
<1>2. book' + late' + 0 <= orders'
  BY <1>1
<1>3. (IF Sending' THEN 1 ELSE 0) = 0
  OBVIOUS
<1> QED
  BY <1>2, <1>3 DEF Counted, OneExecutionPerCall

(* A step of a sender is none of a reader's.                                 *)
LEMMA SenderIsNoReader ==
    ASSUME Inv, NEW s \in Sender, NEW l \in Steps, at' = [at EXCEPT ![s] = l]
    PROVE  /\ at' \in [Thread -> Steps] /\ at'[s] = l
           /\ \A r \in Reader : at'[r] = at[r]
           /\ \A u \in Sender : u # s => at'[u] = at[u]
BY ThreadAssumption DEF Inv, Rests, Thread

LEMMA TriedStays ==
    ASSUME Tried, tries' = tries, \A r \in Reader : at'[r] = at[r]
    PROVE  Tried'
BY DEF Tried

LEMMA BeginSendStep == ASSUME Inv, NEW s \in Sender, BeginSend(s) PROVE Inv'
<1>1. /\ mutator = None /\ mutator' = s /\ orders' = orders + 1 /\ orders < MaxOrders
      /\ at' = [at EXCEPT ![s] = "send"]
      /\ book' = book /\ late' = late /\ cache' = cache /\ pinned' = pinned
      /\ flight' = flight /\ got' = got /\ tries' = tries /\ reads' = reads
      /\ clears' = clears /\ faults' = faults /\ floor' = floor /\ need' = need
  BY DEF BeginSend, Goto
<1>2. /\ at' \in [Thread -> Steps] /\ at'[s] = "send"
      /\ \A r \in Reader : at'[r] = at[r]
      /\ \A u \in Sender : u # s => at'[u] = at[u]
  BY <1>1, SenderIsNoReader DEF Steps
<1>3. \A u \in Sender : at[u] \notin {"send", "sent"}
  BY <1>1, ThreadAssumption DEF Inv, Counted, OneExecutionPerCall
<1>4. orders' \in 0..MaxOrders /\ book + late + 1 <= orders'
  BY <1>1, CountedFacts, BoundAssumption DEF Inv, Rests
<1>5. Counted'
  <2>1. Sending'
    BY <1>2 DEF Sending
  <2>2. (book + late + (IF Sending THEN 1 ELSE 0) <= orders)'
    BY <1>1, <1>4, <2>1
  <2>3. \A u \in Sender : at'[u] \in {"send", "sent"} => mutator' = u
    BY <1>1, <1>2, <1>3
  <2> QED
    BY <2>2, <2>3 DEF Counted, OneExecutionPerCall
<1>6. Rests'
  BY <1>1, <1>2, <1>4 DEF Inv, Rests
<1> QED
  BY <1>1, <1>2, <1>5, <1>6, FollowedStays, TriedStays DEF Inv

LEMMA ExecuteStep == ASSUME Inv, NEW s \in Sender, Execute(s) PROVE Inv'
<1>1. /\ at[s] = "send" /\ at' = [at EXCEPT ![s] = "sent"] /\ book' \in {book, book + 1}
      /\ late' = late /\ cache' = cache /\ pinned' = pinned /\ flight' = flight
      /\ mutator' = mutator /\ got' = got /\ tries' = tries /\ reads' = reads
      /\ orders' = orders /\ clears' = clears /\ faults' = faults /\ floor' = floor
      /\ need' = need
  BY DEF Execute, Goto, client, bounds
<1>2. /\ at' \in [Thread -> Steps] /\ at'[s] = "sent"
      /\ \A r \in Reader : at'[r] = at[r]
      /\ \A u \in Sender : u # s => at'[u] = at[u]
  BY <1>1, SenderIsNoReader DEF Steps
<1>3. /\ mutator = s /\ Sending
      /\ \A u \in Sender : u # s => at[u] \notin {"send", "sent"}
  BY <1>1, OneSender
<1>4. ~Sending' /\ \A u \in Sender : at'[u] \in {"send", "sent"} => mutator' = u
  BY <1>1, <1>2, <1>3 DEF Sending
<1>5. book' \in Nat /\ book <= book' /\ book' + late' <= orders'
  BY <1>1, <1>3, CountedFacts
<1>6. Counted'
  BY <1>1, <1>4, <1>5, CountedFacts, CountedAtRest
<1>7. Followed'
  BY <1>1, <1>2, <1>5, TypedFacts DEF Inv, Followed, Fresh
<1>8. Rests'
  BY <1>1, <1>2, <1>5 DEF Inv, Rests
<1> QED
  BY <1>1, <1>2, <1>6, <1>7, <1>8, TriedStays DEF Inv

LEMMA SendReplyStep == ASSUME Inv, NEW s \in Sender, SendReply(s) PROVE Inv'
<1>1. /\ at[s] = "sent" /\ at' = [at EXCEPT ![s] = "clear"] /\ mutator' = None
      /\ book' = book /\ late' = late /\ cache' = cache /\ pinned' = pinned
      /\ flight' = flight /\ got' = got /\ tries' = tries /\ reads' = reads
      /\ orders' = orders /\ clears' = clears /\ faults' = faults /\ floor' = floor
      /\ need' = need
  BY DEF SendReply, Goto, bounds
<1>2. /\ at' \in [Thread -> Steps] /\ at'[s] = "clear"
      /\ \A r \in Reader : at'[r] = at[r]
      /\ \A u \in Sender : u # s => at'[u] = at[u]
  BY <1>1, SenderIsNoReader DEF Steps
<1>3. ~Sending' /\ \A u \in Sender : at'[u] \in {"send", "sent"} => mutator' = u
  BY <1>1, <1>2, OneSender DEF Sending
<1>4. Counted'
  BY <1>1, <1>3, CountedFacts, CountedAtRest
<1>5. Rests'
  BY <1>1, <1>2 DEF Inv, Rests
<1> QED
  BY <1>1, <1>2, <1>4, <1>5, FollowedStays, TriedStays DEF Inv

LEMMA SendFailsStep == ASSUME Inv, NEW s \in Sender, SendFails(s) PROVE Inv'
<1>1. /\ at[s] \in {"send", "sent"} /\ at' = [at EXCEPT ![s] = "idle"] /\ mutator' = None
      /\ book' = book /\ (late' = late \/ (at[s] = "send" /\ late' = late + 1))
      /\ cache' = cache /\ pinned' = pinned
      /\ flight' = flight /\ got' = got /\ tries' = tries /\ reads' = reads
      /\ orders' = orders /\ clears' = clears /\ floor' = floor /\ need' = need
      /\ faults < MaxFaults /\ faults' = faults + 1
  BY DEF SendFails, Goto, Fault
<1>2. /\ at' \in [Thread -> Steps] /\ at'[s] = "idle"
      /\ \A r \in Reader : at'[r] = at[r]
      /\ \A u \in Sender : u # s => at'[u] = at[u]
  BY <1>1, SenderIsNoReader DEF Steps
<1>3. ~Sending' /\ \A u \in Sender : at'[u] \in {"send", "sent"} => mutator' = u
  BY <1>1, <1>2, OneSender DEF Sending
<1>4. late' \in Nat /\ book' + late' <= orders'
  BY <1>1, OneSender, CountedFacts
<1>5. Counted'
  BY <1>1, <1>3, <1>4, CountedFacts, CountedAtRest
<1>6. faults' \in 0..MaxFaults
  BY <1>1, BoundAssumption DEF Inv, Rests
<1>7. Rests'
  BY <1>1, <1>2, <1>4, <1>6 DEF Inv, Rests
<1> QED
  BY <1>1, <1>2, <1>5, <1>7, FollowedStays, TriedStays DEF Inv

LEMMA ClearAfterSendStep == ASSUME Inv, NEW s \in Sender, ClearAfterSend(s) PROVE Inv'
<1>1. /\ EmptyCache /\ at[s] = "clear" /\ at' = [at EXCEPT ![s] = "idle"]
      /\ book' = book /\ late' = late /\ pinned' = pinned /\ mutator' = mutator
      /\ flight' = flight /\ tries' = tries /\ reads' = reads /\ need' = need
      /\ orders' = orders /\ clears' = clears /\ faults' = faults
  BY DEF ClearAfterSend, Goto, bounds
<1>2. /\ at' \in [Thread -> Steps] /\ at'[s] = "idle"
      /\ \A r \in Reader : at'[r] = at[r]
      /\ \A u \in Sender : u # s => at'[u] = at[u]
  BY <1>1, SenderIsNoReader DEF Steps
<1>3. /\ Followed' /\ Tried' /\ floor' \in Nat
      /\ cache' \in [rows : Nat, old : BOOLEAN, set : BOOLEAN]
      /\ got' \in [Reader -> [rows : Nat, old : BOOLEAN]]
  BY <1>1, <1>2, ClearKeeps
<1>4. Counted'
  BY <1>1, <1>2, CountedStays DEF Inv
<1>5. Rests'
  BY <1>1, <1>2, <1>3 DEF Inv, Rests
<1> QED
  BY <1>3, <1>4, <1>5 DEF Inv

-----------------------------------------------------------------------------
(* The rest.                                                                 *)

LEMMA ExecuteLateStep == ASSUME Inv, ExecuteLate PROVE Inv'
<1>1. /\ late > 0 /\ late' = late - 1 /\ book' \in {book, book + 1} /\ at' = at
      /\ cache' = cache /\ pinned' = pinned /\ flight' = flight /\ mutator' = mutator
      /\ got' = got /\ tries' = tries /\ reads' = reads /\ orders' = orders
      /\ clears' = clears /\ faults' = faults /\ floor' = floor /\ need' = need
  BY DEF ExecuteLate, client, bounds
<1>2. /\ book' \in Nat /\ late' \in Nat /\ book <= book'
      /\ book' + late' <= orders' /\ (Sending => book' + late' + 1 <= orders')
  BY <1>1, CountedFacts
<1>3. Counted'
  <2>1. CASE Sending
    <3>1. Sending'
      BY <1>1, <2>1 DEF Sending
    <3>2. (book + late + (IF Sending THEN 1 ELSE 0) <= orders)'
      BY <1>2, <2>1, <3>1
    <3> QED
      BY <1>1, <3>2 DEF Inv, Counted, OneExecutionPerCall
  <2>2. CASE ~Sending
    <3>1. ~Sending' /\ \A u \in Sender : at'[u] \in {"send", "sent"} => mutator' = u
      BY <1>1, <2>2 DEF Sending, Inv, Counted, OneExecutionPerCall
    <3> QED
      BY <1>1, <1>2, <3>1, CountedFacts, CountedAtRest
  <2> QED
    BY <2>1, <2>2
<1>4. Followed'
  BY <1>1, <1>2, TypedFacts DEF Inv, Followed, Fresh
<1>5. Rests'
  BY <1>1, <1>2 DEF Inv, Rests
<1> QED
  BY <1>1, <1>3, <1>4, <1>5, TriedStays DEF Inv

LEMMA AgeStep == ASSUME Inv, Age PROVE Inv'
<1>1. /\ cache' = [rows |-> 0, old |-> FALSE, set |-> FALSE] /\ at' = at
      /\ book' = book /\ late' = late /\ pinned' = pinned /\ flight' = flight
      /\ mutator' = mutator /\ got' = got /\ tries' = tries /\ reads' = reads
      /\ orders' = orders /\ clears' = clears /\ faults' = faults /\ floor' = floor
      /\ need' = need
  BY DEF Age, NoCache, bounds
<1>2. cache' \in [rows : Nat, old : BOOLEAN, set : BOOLEAN] /\ cache'.set = FALSE /\ cache'.rows = 0
  BY <1>1
<1>3. Followed'
  BY <1>1, <1>2, TypedFacts DEF Inv, Followed, Fresh
<1>4. Counted'
  BY <1>1, CountedStays DEF Inv
<1>5. Rests'
  BY <1>1, <1>2 DEF Inv, Rests
<1> QED
  BY <1>1, <1>3, <1>4, <1>5, TriedStays DEF Inv

LEMMA ClearStep == ASSUME Inv, BeginCycle \/ Invalidate PROVE Inv'
<1>1. /\ EmptyCache /\ clears < MaxClears /\ clears' = clears + 1 /\ at' = at
      /\ book' = book /\ late' = late /\ mutator' = mutator
      /\ flight' = flight /\ tries' = tries /\ reads' = reads /\ need' = need
      /\ orders' = orders /\ faults' = faults
  BY DEF BeginCycle, Invalidate
<1>2. pinned' \in BOOLEAN
  <2>1. CASE BeginCycle
    <3>1. pinned' = TRUE
      BY <2>1 DEF BeginCycle
    <3> QED
      BY <3>1
  <2>2. CASE Invalidate
    BY <2>2 DEF Invalidate, Inv, Rests
  <2> QED
    BY <2>1, <2>2
<1>3. /\ Followed' /\ Tried' /\ floor' \in Nat
      /\ cache' \in [rows : Nat, old : BOOLEAN, set : BOOLEAN]
      /\ got' \in [Reader -> [rows : Nat, old : BOOLEAN]]
  BY <1>1, ClearKeeps
<1>4. Counted'
  BY <1>1, CountedStays DEF Inv
<1>5. clears' \in 0..MaxClears
  BY <1>1, BoundAssumption DEF Inv, Rests
<1>6. Rests'
  BY <1>1, <1>2, <1>3, <1>5 DEF Inv, Rests
<1> QED
  BY <1>3, <1>4, <1>6 DEF Inv

LEMMA EndCycleStep == ASSUME Inv, EndCycle \/ UNCHANGED vars PROVE Inv'
<1>1. /\ at' = at /\ cache' = cache /\ book' = book /\ late' = late /\ flight' = flight
      /\ mutator' = mutator /\ got' = got /\ tries' = tries /\ reads' = reads
      /\ orders' = orders /\ clears' = clears /\ faults' = faults /\ floor' = floor
      /\ need' = need
  BY DEF EndCycle, vars, client, bounds
<1>2. pinned' = FALSE \/ pinned' = pinned
  BY DEF EndCycle, vars, client
<1>3. pinned' \in BOOLEAN
  BY <1>2 DEF Inv, Rests
<1>4. Counted'
  BY <1>1, CountedStays DEF Inv
<1>5. Rests'
  BY <1>1, <1>3 DEF Inv, Rests
<1> QED
  BY <1>1, <1>4, <1>5, FollowedStays, TriedStays DEF Inv

LEMMA InvStep == Inv /\ [Next]_vars => Inv'
<1> SUFFICES ASSUME Inv, [Next]_vars PROVE Inv'
  OBVIOUS
<1>1. ASSUME NEW r \in Reader, BeginRead(r) \/ ReadStep(r) \/ Retry(r) \/ GiveUp(r)
      PROVE  Inv'
  BY <1>1, BeginReadStep, RequestStep, HttpStep, ReplyStep, RetryStep, GiveUpStep,
     StoreRowsStep, AnswerStep DEF ReadStep
<1>2. ASSUME NEW s \in Sender, BeginSend(s) \/ SendStep(s) \/ SendFails(s) PROVE Inv'
  BY <1>2, BeginSendStep, ExecuteStep, SendReplyStep, ClearAfterSendStep, SendFailsStep
     DEF SendStep
<1> QED
  BY <1>1, <1>2, ExecuteLateStep, AgeStep, ClearStep, EndCycleStep DEF Next

-----------------------------------------------------------------------------

(* Every variable stays in its set: neither the orders at the broker nor the *)
(* attempts of a read pass their bound.                                      *)
THEOREM TypeCorrect == Spec => []TypeOK
BY InvInit, InvStep, InvTypes, PTL DEF Spec

(* A call of order_send executes at most one order, lost or late as it may   *)
(* be, and only the holder of the slot sends.                                *)
THEOREM OneExecution == Spec => []OneExecutionPerCall
<1>1. Inv => OneExecutionPerCall
  BY DEF Inv, Counted
<1> QED
  BY <1>1, InvInit, InvStep, PTL DEF Spec

(* A read that begins after a clear does not see less than the clear left,   *)
(* cached, shared or pinned, unless its rows were in the air at a clear.     *)
THEOREM ReadsFollow == Spec => []ReadsFollowClears
<1>1. Inv => ReadsFollowClears
  BY DEF Inv, Followed, ReadsFollowClears
<1> QED
  BY <1>1, InvInit, InvStep, PTL DEF Spec
-----------------------------------------------------------------------------
(* Of the liveness of reads, the part that is an invariant: who waits, waits *)
(* for a reader that is on its way to resolve the future.                    *)

Leading(r) == at[r] \in {"http", "reply"}
Led ==
    /\ \A r \in Reader : Leading(r) <=> flight = r
    /\ \A r \in Reader : at[r] = "wait" => flight # None

WaitersHaveALeader ==
    \A r \in Reader : at[r] = "wait" => \E q \in Reader : Leading(q)

LEMMA LedInit == Init => Led
BY ThreadAssumption DEF Init, Led, Leading, Thread

LEMMA LedStep == Rests /\ Led /\ [Next]_vars => Led'
<1> SUFFICES ASSUME Rests, Led, [Next]_vars PROVE Led'
  OBVIOUS
<1> USE DEF Rests, client
<1>1. ASSUME NEW r \in Reader, Request(r) PROVE Led'
  <2>1. CASE flight = None
    BY <1>1, <2>1, ThreadAssumption DEF Request, Goto, Led, Leading, Thread
  <2>2. CASE flight # None
    BY <1>1, <2>2 DEF Request, Goto, Led, Leading, Thread
  <2> QED
    BY <2>1, <2>2
<1>2. ASSUME NEW r \in Reader, Reply(r) \/ GiveUp(r) PROVE Led'
  <2>1. /\ flight = r /\ flight' = None
        /\ \E next \in {"store", "idle"} :
              at' = [t \in Thread |-> IF t = r \/ at[t] = "wait" THEN next ELSE at[t]]
    BY <1>2 DEF Reply, GiveUp, Resolve, Led, Leading
  <2>2. \A q \in Reader : at'[q] \notin {"http", "reply", "wait"}
    BY <2>1 DEF Led, Leading, Thread
  <2> QED
    BY <2>1, <2>2, ThreadAssumption DEF Led, Leading
<1>3. ASSUME NEW r \in Reader,
             BeginRead(r) \/ Http(r) \/ StoreRows(r) \/ Answer(r) \/ Retry(r)
      PROVE  Led'
  <2>1. /\ flight' = flight
        /\ \E l \in {"answer", "request", "reply", "idle", "http"} :
              /\ at' = [at EXCEPT ![r] = l]
              /\ l \in {"http", "reply"} <=> Leading(r)
    BY <1>3 DEF BeginRead, Http, StoreRows, Answer, Retry, Goto, Leading
  <2> QED
    BY <2>1 DEF Led, Leading, Thread
<1>4. ASSUME NEW s \in Sender, BeginSend(s) \/ SendStep(s) \/ SendFails(s) PROVE Led'
  <2>1. flight' = flight /\ \A t \in Thread \ {s} : at'[t] = at[t]
    BY <1>4 DEF BeginSend, SendStep, Execute, SendReply, ClearAfterSend, SendFails, Goto
  <2> QED
    BY <2>1, ThreadAssumption DEF Led, Leading, Thread
<1>5. CASE ExecuteLate \/ Age \/ BeginCycle \/ EndCycle \/ Invalidate \/ UNCHANGED vars
  BY <1>5 DEF ExecuteLate, Age, BeginCycle, EndCycle, Invalidate, vars, Led, Leading
<1> QED
  BY <1>1, <1>2, <1>3, <1>4, <1>5 DEF Next, ReadStep

(* Whoever joined the read in flight has a leader: no fault, retry or clear  *)
(* takes the future out of the table and leaves a waiter behind (_request,   *)
(* coalesced reads).                                                         *)
THEOREM WaitersAreLed == Spec => []WaitersHaveALeader
<1>1. Inv => Rests
  BY DEF Inv
<1>2. Rests /\ Led => WaitersHaveALeader
  BY DEF Rests, Led, WaitersHaveALeader
<1> QED
  BY <1>1, <1>2, LedInit, LedStep, InvInit, InvStep, PTL DEF Spec
=============================================================================
