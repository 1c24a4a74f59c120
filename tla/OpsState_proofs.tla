---------------------------- MODULE OpsState_proofs ----------------------------
(* What OpsState guarantees for every value of its constants, and that it    *)
(* implements the durable record.                                            *)
EXTENDS OpsState, TLAPS

-----------------------------------------------------------------------------
(* Type correctness, with the number of saves as the bound of every version. *)

Upto(n) == [Key -> 0..n]
Cached(n) == [rows : Upto(n), set : BOOLEAN, fresh : BOOLEAN, late : BOOLEAN]

Records ==
    /\ file \in Upto(saves) /\ row \in Upto(saves) /\ saved \in Upto(saves)
    /\ cache \in Cached(saves)
    /\ got \in [Thread -> Upto(saves)] /\ rows \in [Thread -> Upto(saves)]
    /\ mine \in [Saver -> 0..saves]
    /\ orphans \subseteq Upto(saves)

Control ==
    /\ lock \in Saver \cup {Free}
    /\ at \in [Thread -> At]
    /\ seen \in [Thread -> Seen]
    /\ keys \in [Saver -> SUBSET Key]
    /\ saves \in 0..MaxSaves /\ reads \in 0..MaxReads /\ faults \in 0..MaxFaults
    /\ spoilt \in BOOLEAN

Typed == Records /\ Control

LEMMA UptoGrows ==
    ASSUME NEW n \in Nat, NEW m \in Nat, n <= m
    PROVE  Upto(n) \subseteq Upto(m) /\ Cached(n) \subseteq Cached(m)
BY DEF Upto, Cached

LEMMA EmptyUpto ==
    ASSUME NEW n \in Nat
    PROVE  Empty \in Upto(n) /\ NoCache \in Cached(n)
BY DEF Empty, Upto, NoCache, Cached

LEMMA MergedUpto ==
    ASSUME NEW n \in Nat, NEW f \in Upto(n), NEW r \in Upto(n)
    PROVE  Merged(f, r) \in Upto(n)
BY DEF Merged, Upto

LEMMA UpdatedUpto ==
    ASSUME NEW n \in Nat, NEW f \in Upto(n), NEW ks, NEW v \in 0..n
    PROVE  Updated(f, ks, v) \in Upto(n)
BY DEF Updated, Upto

(* The type invariant of the module follows.                                 *)
LEMMA TypedIsTyped == Typed => TypeOK
<1> SUFFICES ASSUME Typed PROVE TypeOK
  OBVIOUS
<1>1. Upto(saves) \subseteq Payload /\ saves \in Nat /\ 0..saves \subseteq Version
  BY BoundAssumption DEF Typed, Control, Upto, Payload, Version
<1>2. /\ file \in Payload /\ row \in Payload /\ saved \in Payload
      /\ got \in [Thread -> Payload] /\ rows \in [Thread -> Payload]
      /\ mine \in [Saver -> Version] /\ orphans \subseteq Payload
  BY <1>1 DEF Typed, Records
<1>3. cache \in [rows : Payload, set : BOOLEAN, fresh : BOOLEAN, late : BOOLEAN]
  BY <1>1 DEF Typed, Records, Cached
<1> QED
  BY <1>2, <1>3 DEF Typed, Control, TypeOK

LEMMA TypedInit == Init => Typed
<1> SUFFICES ASSUME Init PROVE Typed
  OBVIOUS
<1>1. saves = 0 /\ saves \in Nat
  BY DEF Init
<1>2. Records
  BY <1>1, EmptyUpto DEF Init, Records
<1>3. /\ lock \in Saver \cup {Free} /\ at \in [Thread -> At] /\ seen \in [Thread -> Seen]
      /\ keys \in [Saver -> SUBSET Key]
      /\ saves \in 0..MaxSaves /\ reads \in 0..MaxReads /\ faults \in 0..MaxFaults
  BY BoundAssumption DEF Init, At, Seen
<1>4. spoilt \in BOOLEAN
  BY Zenon DEF Init
<1>5. Control
  BY <1>3, <1>4, Zenon DEF Control
<1> QED
  BY <1>2, <1>5 DEF Typed

LEMMA ForgetTyped ==
    ASSUME Typed, NEW t \in Thread, Forget(t)
    PROVE  /\ got' \in [Thread -> Upto(saves)] /\ rows' \in [Thread -> Upto(saves)]
           /\ seen' \in [Thread -> Seen]
<1>1. Empty \in Upto(saves)
  BY EmptyUpto, BoundAssumption DEF Typed, Control
<1> QED
  BY <1>1 DEF Forget, Typed, Records, Control, Seen

LEMMA TypedRead ==
    ASSUME Typed, NEW t \in Thread, Read(t)
    PROVE  Typed'
<1>0. saves \in Nat /\ saves' = saves /\ file' = file /\ row' = row /\ saved' = saved
      /\ mine' = mine /\ orphans' = orphans /\ lock' = lock /\ keys' = keys
      /\ reads' = reads /\ spoilt' = spoilt
  BY BoundAssumption
     DEF Read, ReadFile, ReadCache, Fetch, FetchFails, Store, Typed, Control, bounds
<1>1. at' \in [Thread -> At] /\ seen' \in [Thread -> Seen] /\ faults' \in 0..MaxFaults
  BY BoundAssumption
     DEF Read, ReadFile, ReadCache, Fetch, FetchFails, Store, Typed, Control, At, Seen,
         Fault, bounds
<1>2. Control'
  BY <1>0, <1>1 DEF Typed, Control
<1>3. cache' \in Cached(saves)
  <2>1. CASE Store(t)
    BY <2>1 DEF Store, Typed, Records, Cached
  <2>2. CASE ~Store(t)
    BY <2>2 DEF Read, ReadFile, ReadCache, Fetch, FetchFails, Typed, Records
  <2> QED
    BY <2>1, <2>2
<1>4. rows' \in [Thread -> Upto(saves)]
  BY DEF Read, ReadFile, ReadCache, Fetch, FetchFails, Store, Typed, Records
<1>5. got' \in [Thread -> Upto(saves)]
  <2>1. CASE ReadFile(t)
    BY <1>0, <2>1, EmptyUpto DEF ReadFile, Typed, Records
  <2>2. CASE ReadCache(t)
    <3>1. Merged(got[t], cache.rows) \in Upto(saves)
      BY <1>0, MergedUpto DEF Typed, Records, Cached
    <3> QED
      BY <2>2, <3>1 DEF ReadCache, Typed, Records
  <2>3. CASE Store(t)
    <3>1. Merged(got[t], rows[t]) \in Upto(saves)
      BY <1>0, MergedUpto DEF Typed, Records
    <3> QED
      BY <2>3, <3>1 DEF Store, Typed, Records
  <2>4. CASE Fetch(t) \/ FetchFails(t)
    BY <2>4 DEF Fetch, FetchFails, Typed, Records
  <2> QED
    BY <2>1, <2>2, <2>3, <2>4 DEF Read
<1> QED
  BY <1>0, <1>2, <1>3, <1>4, <1>5 DEF Typed, Records

LEMMA TypedReader ==
    ASSUME Typed, NEW r \in Reader, BeginLoad(r) \/ EndLoad(r)
    PROVE  Typed'
<1>0. r \in Thread
  BY DEF Thread
<1>1. CASE BeginLoad(r)
  <2>1. Records'
    BY <1>1 DEF BeginLoad, Typed, Records
  <2>2. at' \in [Thread -> At] /\ reads' \in 0..MaxReads
    BY <1>0, <1>1, BoundAssumption DEF BeginLoad, Typed, Control, At
  <2>3. Control'
    BY <1>1, <2>2 DEF BeginLoad, Typed, Control
  <2> QED
    BY <2>1, <2>3 DEF Typed
<1>2. CASE EndLoad(r)
  <2>1. /\ got' \in [Thread -> Upto(saves)] /\ rows' \in [Thread -> Upto(saves)]
        /\ seen' \in [Thread -> Seen]
    BY <1>0, <1>2, ForgetTyped DEF EndLoad
  <2>2. at' \in [Thread -> At]
    BY <1>0, <1>2 DEF EndLoad, Typed, Control, At
  <2>3. saves' = saves
    BY <1>2 DEF EndLoad, bounds
  <2> QED
    BY <1>2, <2>1, <2>2, <2>3 DEF EndLoad, bounds, Typed, Records, Control
<1> QED
  BY <1>1, <1>2

LEMMA TypedSave ==
    ASSUME Typed, NEW s \in Saver, Save(s)
    PROVE  Typed'
<1>0. s \in Thread /\ saves \in Nat
  BY BoundAssumption DEF Thread, Typed, Control
<1>1. CASE BeginSave(s)
  <2>1. saves' = saves + 1 /\ saves' \in 0..MaxSaves
    BY <1>1, BoundAssumption DEF BeginSave, Typed, Control
  <2>2. Upto(saves) \subseteq Upto(saves') /\ Cached(saves) \subseteq Cached(saves')
    BY <1>0, <2>1, UptoGrows
  <2>3. /\ file' = file /\ row' = row /\ saved' = saved /\ cache' = cache
        /\ got' = got /\ rows' = rows /\ orphans' = orphans
        /\ mine' = [mine EXCEPT ![s] = saves + 1]
    BY <1>1 DEF BeginSave
  <2>4. mine' \in [Saver -> 0..saves']
    BY <1>0, <2>1, <2>3 DEF Typed, Records
  <2>5. Records'
    BY <2>2, <2>3, <2>4 DEF Typed, Records
  <2>6. at' \in [Thread -> At] /\ keys' \in [Saver -> SUBSET Key]
    BY <1>0, <1>1 DEF BeginSave, Typed, Control, At
  <2>7. Control'
    BY <1>1, <2>1, <2>6 DEF BeginSave, Typed, Control
  <2> QED
    BY <2>5, <2>7 DEF Typed
<1>2. CASE WriteFile(s)
  <2>1. saves' = saves
    BY <1>2 DEF WriteFile
  <2>2. Updated(got[s], keys[s], mine[s]) \in Upto(saves)
    BY <1>0, UpdatedUpto DEF Typed, Records
  <2>3. got' \in [Thread -> Upto(saves)] /\ got'[s] \in Upto(saves)
    BY <1>0, <1>2, <2>2 DEF WriteFile, Typed, Records
  <2>4. file' \in Upto(saves)
    BY <1>2, <2>3 DEF WriteFile, Typed, Records
  <2>5. Records'
    BY <1>2, <2>1, <2>3, <2>4 DEF WriteFile, Typed, Records
  <2>6. at' \in [Thread -> At] /\ faults' \in 0..MaxFaults
    BY <1>0, <1>2, BoundAssumption DEF WriteFile, Typed, Control, At, Fault
  <2>7. Control'
    BY <1>2, <2>6 DEF WriteFile, Typed, Control
  <2> QED
    BY <2>5, <2>7 DEF Typed
<1>3. CASE WriteRow(s) \/ WriteRowFails(s)
  <2>1. saves' = saves
    BY <1>3 DEF WriteRow, WriteRowFails, bounds
  <2>2. row' \in Upto(saves) /\ orphans' \subseteq Upto(saves)
    BY <1>0, <1>3 DEF WriteRow, WriteRowFails, Typed, Records
  <2>3. Records'
    BY <1>3, <2>1, <2>2 DEF WriteRow, WriteRowFails, Typed, Records
  <2>4. at' \in [Thread -> At] /\ faults' \in 0..MaxFaults
    BY <1>0, <1>3, BoundAssumption
       DEF WriteRow, WriteRowFails, Typed, Control, At, Fault, bounds
  <2>5. spoilt' \in BOOLEAN
    BY <1>3 DEF WriteRow, WriteRowFails, Typed, Control
  <2>6. Control'
    BY <1>3, <2>4, <2>5 DEF WriteRow, WriteRowFails, Typed, Control, bounds
  <2> QED
    BY <2>3, <2>6 DEF Typed
<1>4. CASE EndSave(s)
  <2>1. saves' = saves
    BY <1>4 DEF EndSave, bounds
  <2>2. /\ got' \in [Thread -> Upto(saves)] /\ rows' \in [Thread -> Upto(saves)]
        /\ seen' \in [Thread -> Seen]
    BY <1>0, <1>4, ForgetTyped DEF EndSave
  <2>3. saved' \in Upto(saves) /\ cache' \in Cached(saves)
    BY <1>0, <1>4, UpdatedUpto, EmptyUpto DEF EndSave, Typed, Records
  <2>4. mine' \in [Saver -> 0..saves] /\ keys' \in [Saver -> SUBSET Key]
    BY <1>0, <1>4 DEF EndSave, Typed, Records, Control
  <2>5. Records'
    BY <1>4, <2>1, <2>2, <2>3, <2>4 DEF EndSave, Typed, Records
  <2>6. at' \in [Thread -> At] /\ lock' \in Saver \cup {Free}
    BY <1>0, <1>4 DEF EndSave, Typed, Control, At
  <2>7. Control'
    BY <1>4, <2>2, <2>4, <2>6 DEF EndSave, Typed, Control, bounds
  <2> QED
    BY <2>5, <2>7 DEF Typed
<1> QED
  BY <1>1, <1>2, <1>3, <1>4 DEF Save

LEMMA TypedElsewhere ==
    ASSUME Typed, Age \/ Restart \/ \E p \in orphans : Land(p)
    PROVE  Typed'
<1>0. saves \in Nat /\ Empty \in Upto(saves) /\ NoCache \in Cached(saves)
  BY BoundAssumption, EmptyUpto DEF Typed, Control
<1>1. CASE Age
  <2>1. cache' \in Cached(saves) /\ saves' = saves
    BY <1>1 DEF Age, Typed, Records, Cached, bounds
  <2> QED
    BY <1>1, <2>1 DEF Age, threads, bounds, Typed, Records, Control
<1>2. CASE Restart
  <2>1. Records'
    BY <1>0, <1>2 DEF Restart, Typed, Records
  <2>2. at' \in [Thread -> At] /\ seen' \in [Thread -> Seen]
        /\ keys' \in [Saver -> SUBSET Key] /\ faults' \in 0..MaxFaults
    BY <1>2, BoundAssumption DEF Restart, Typed, Control, At, Seen, Fault
  <2>3. spoilt' \in BOOLEAN
    BY <1>2 DEF Restart, Typed, Control
  <2>4. Control'
    BY <1>2, <2>2, <2>3 DEF Restart, Typed, Control
  <2> QED
    BY <2>1, <2>4 DEF Typed
<1>3. ASSUME NEW p \in orphans, Land(p) PROVE Typed'
  <2>1. row' \in Upto(saves) /\ orphans' \subseteq Upto(saves) /\ saves' = saves
    BY <1>3 DEF Land, Typed, Records, bounds
  <2>2. cache' \in Cached(saves)
    BY <1>3 DEF Land, Typed, Records, Cached
  <2>3. Records'
    BY <1>3, <2>1, <2>2 DEF Land, Typed, Records
  <2>4. seen' \in [Thread -> Seen]
    BY <1>3 DEF Land, Typed, Control, Seen
  <2>5. Control'
    BY <1>3, <2>4 DEF Land, Typed, Control, bounds
  <2> QED
    BY <2>3, <2>5 DEF Typed
<1> QED
  BY <1>1, <1>2, <1>3

LEMMA TypedStep == Typed /\ [Next]_vars => Typed'
<1> SUFFICES ASSUME Typed, [Next]_vars PROVE Typed'
  OBVIOUS
<1>1. CASE Next
  BY <1>1, TypedRead, TypedReader, TypedSave, TypedElsewhere DEF Next
<1>2. CASE UNCHANGED vars
  BY <1>2 DEF vars, threads, bounds, Typed, Records, Control
<1> QED
  BY <1>1, <1>2

(* Every variable stays in its set, whatever fails or comes late.            *)
THEOREM TypeCorrect == Spec => []TypeOK
BY TypedInit, TypedStep, TypedIsTyped, PTL DEF Spec

-----------------------------------------------------------------------------
(* The row goes back for a named cause only.  A saver inside the lock has    *)
(* the newest version, and while seen[s] = "row" its payload agrees with the *)
(* row on every key the row holds.                                           *)

Holder == \A s \in Saver : at[s] # "idle" => lock = s /\ mine[s] = saves

SeesRow(s) ==
    /\ at[s] = "loaded" => \A k \in Key : row[k] # 0 => got[s][k] = row[k]
    /\ at[s] = "row" =>
        \A k \in Key :
            /\ k \in keys[s] => got[s][k] = mine[s]
            /\ k \notin keys[s] /\ row[k] # 0 => got[s][k] = row[k]

SeenTrue == \A s \in Saver : seen[s] = "row" => SeesRow(s)

Known == Typed /\ Holder /\ CacheFollowsRow /\ SeenTrue

LEMMA KnownInit == Init => Known
<1> SUFFICES ASSUME Init PROVE Known
  OBVIOUS
<1>1. \A t \in Thread : at[t] = "idle"
  BY DEF Init
<1>2. Saver \subseteq Thread
  BY DEF Thread
<1>3. Holder /\ SeenTrue
  BY <1>1, <1>2 DEF Holder, SeenTrue, SeesRow
<1>4. CacheFollowsRow
  BY DEF Init, CacheFollowsRow, NoCache
<1> QED
  BY <1>3, <1>4, TypedInit DEF Known

(* At most one saver is past its first step.                                 *)
LEMMA OneHolder ==
    ASSUME Holder, NEW s \in Saver, NEW u \in Saver, at[s] # "idle", at[u] # "idle"
    PROVE  s = u
BY DEF Holder

LEMMA HolderStep == Typed /\ Holder /\ [Next]_vars => Holder'
<1> SUFFICES ASSUME Typed, Holder, [Next]_vars, NEW u \in Saver, at'[u] # "idle"
             PROVE  lock' = u /\ mine'[u] = saves'
  BY DEF Holder
<1>0. Saver \subseteq Thread /\ Reader \subseteq Thread /\ at \in [Thread -> At]
      /\ mine \in [Saver -> 0..saves]
  BY DEF Thread, Typed, Records, Control
<1>1. ASSUME NEW r \in Reader, BeginLoad(r) \/ EndLoad(r) PROVE lock' = u /\ mine'[u] = saves'
  <2>1. u # r
    BY ThreadAssumption
  <2> QED
    BY <1>0, <1>1, <2>1 DEF BeginLoad, EndLoad, Holder, bounds
<1>2. ASSUME NEW t \in Thread, Read(t) PROVE lock' = u /\ mine'[u] = saves'
  <2>1. /\ lock' = lock /\ mine' = mine /\ saves' = saves /\ at[t] # "idle"
        /\ \E a \in At : at' = [at EXCEPT ![t] = a]
    BY <1>2 DEF Read, ReadFile, ReadCache, Fetch, FetchFails, Store, bounds, At
  <2>2. at[u] # "idle"
    BY <1>0, <2>1
  <2> QED
    BY <2>1, <2>2 DEF Holder
<1>3. ASSUME NEW s \in Saver, Save(s) PROVE lock' = u /\ mine'[u] = saves'
  <2>1. CASE BeginSave(s)
    <3>1. u = s \/ at[u] # "idle"
      BY <1>0, <2>1 DEF BeginSave
    <3>2. u = s
      BY <2>1, <3>1, ThreadAssumption DEF BeginSave, Holder
    <3> QED
      BY <1>0, <2>1, <3>2 DEF BeginSave
  <2>2. CASE WriteFile(s) \/ WriteRow(s) \/ WriteRowFails(s)
    <3>1. lock' = lock /\ mine' = mine /\ saves' = saves /\ at[u] # "idle"
      BY <1>0, <2>2 DEF WriteFile, WriteRow, WriteRowFails, bounds
    <3> QED
      BY <3>1 DEF Holder
  <2>3. CASE EndSave(s)
    <3>1. at[u] # "idle" /\ u # s
      BY <1>0, <2>3 DEF EndSave
    <3>2. at[s] # "idle"
      BY <2>3 DEF EndSave
    <3> QED
      BY <3>1, <3>2, OneHolder
  <2> QED
    BY <1>3, <2>1, <2>2, <2>3 DEF Save
<1>4. CASE Age \/ (\E p \in orphans : Land(p)) \/ UNCHANGED vars
  BY <1>4 DEF Age, Land, vars, threads, bounds, Holder
<1>5. CASE Restart
  BY <1>0, <1>5 DEF Restart
<1> QED
  BY <1>1, <1>2, <1>3, <1>4, <1>5 DEF Next

LEMMA CacheStep == Typed /\ CacheFollowsRow /\ [Next]_vars => CacheFollowsRow'
<1> SUFFICES ASSUME Typed, CacheFollowsRow, [Next]_vars, cache'.set, ~cache'.late
             PROVE  cache'.rows = row' \/ \E s \in Saver : at'[s] = "reset"
  BY DEF CacheFollowsRow
<1>0. Saver \subseteq Thread /\ Reader \subseteq Thread /\ at \in [Thread -> At]
      /\ cache \in Cached(saves)
  BY DEF Thread, Typed, Records, Control
<1>1. ASSUME NEW r \in Reader, BeginLoad(r) \/ EndLoad(r)
      PROVE  cache'.rows = row' \/ \E s \in Saver : at'[s] = "reset"
  <2>1. cache' = cache /\ row' = row /\ \A s \in Saver : at'[s] = at[s]
    BY <1>0, <1>1, ThreadAssumption DEF BeginLoad, EndLoad
  <2> QED
    BY <2>1 DEF CacheFollowsRow
<1>2. ASSUME NEW t \in Thread, Read(t)
      PROVE  cache'.rows = row' \/ \E s \in Saver : at'[s] = "reset"
  <2>1. CASE Store(t)
    BY <2>1 DEF Store
  <2>2. CASE ~Store(t)
    <3>1. cache' = cache /\ row' = row
      BY <1>2, <2>2 DEF Read, ReadFile, ReadCache, Fetch, FetchFails
    <3>2. \A s \in Saver : at[s] = "reset" => at'[s] = "reset"
      BY <1>0, <1>2, <2>2 DEF Read, ReadFile, ReadCache, Fetch, FetchFails
    <3> QED
      BY <3>1, <3>2 DEF CacheFollowsRow
  <2> QED
    BY <2>1, <2>2
<1>3. ASSUME NEW s \in Saver, Save(s)
      PROVE  cache'.rows = row' \/ \E u \in Saver : at'[u] = "reset"
  <2>1. CASE BeginSave(s) \/ WriteFile(s)
    <3>1. cache' = cache /\ row' = row /\ \A u \in Saver : at[u] = "reset" => at'[u] = "reset"
      BY <1>0, <2>1 DEF BeginSave, WriteFile
    <3> QED
      BY <3>1 DEF CacheFollowsRow
  <2>2. CASE WriteRow(s) \/ WriteRowFails(s)
    BY <1>0, <2>2 DEF WriteRow, WriteRowFails
  <2>3. CASE EndSave(s)
    BY <2>3 DEF EndSave, NoCache
  <2> QED
    BY <1>3, <2>1, <2>2, <2>3 DEF Save
<1>4. ASSUME NEW p \in orphans, Land(p) PROVE FALSE
  BY <1>0, <1>4 DEF Land, Cached
<1>5. CASE Restart
  BY <1>5 DEF Restart, NoCache
<1>6. CASE Age
  BY <1>0, <1>6 DEF Age, threads, CacheFollowsRow, Cached
<1>7. CASE UNCHANGED vars
  BY <1>7 DEF vars, threads, CacheFollowsRow
<1> QED
  BY <1>1, <1>2, <1>3, <1>4, <1>5, <1>6, <1>7 DEF Next

(* A fresh copy a saver takes from the cache is the row, for nobody else can *)
(* be about to clear it.                                                     *)
LEMMA CopyIsRow ==
    ASSUME Known, NEW s \in Saver, at[s] = "cache", cache.set, ~cache.late
    PROVE  cache.rows = row
<1>1. \A u \in Saver : at[u] # "reset"
  BY OneHolder DEF Known
<1> QED
  BY <1>1 DEF Known, CacheFollowsRow

LEMMA SeenStep == Known /\ [Next]_vars => SeenTrue'
<1> SUFFICES ASSUME Known, [Next]_vars, NEW u \in Saver, seen'[u] = "row"
             PROVE  SeesRow(u)'
  BY DEF SeenTrue
<1>0. /\ u \in Thread /\ Saver \subseteq Thread /\ Reader \subseteq Thread
      /\ at \in [Thread -> At] /\ seen \in [Thread -> Seen]
      /\ got \in [Thread -> Upto(saves)] /\ rows \in [Thread -> Upto(saves)]
      /\ row \in Upto(saves) /\ cache \in Cached(saves)
      /\ mine \in [Saver -> 0..saves] /\ keys \in [Saver -> SUBSET Key]
      /\ (seen[u] = "row" => SeesRow(u))
  BY DEF Thread, Known, Typed, Records, Control, SeenTrue
<1>1. ASSUME NEW r \in Reader, BeginLoad(r) \/ EndLoad(r) PROVE SeesRow(u)'
  <2>1. u # r
    BY ThreadAssumption
  <2>2. /\ seen'[u] = seen[u] /\ at'[u] = at[u] /\ got'[u] = got[u]
        /\ row' = row /\ keys' = keys /\ mine' = mine
    BY <1>0, <1>1, <2>1 DEF BeginLoad, EndLoad, Forget
  <2> QED
    BY <1>0, <2>2 DEF SeesRow
<1>2. ASSUME NEW t \in Thread, Read(t) PROVE SeesRow(u)'
  <2>1. row' = row /\ keys' = keys /\ mine' = mine
    BY <1>2 DEF Read, ReadFile, ReadCache, Fetch, FetchFails, Store
  <2>2. CASE t # u
    <3>1. seen'[u] = seen[u] /\ at'[u] = at[u] /\ got'[u] = got[u]
      BY <1>0, <1>2, <2>2 DEF Read, ReadFile, ReadCache, Fetch, FetchFails, Store
    <3> QED
      BY <1>0, <2>1, <3>1 DEF SeesRow
  <2>3. CASE t = u /\ (ReadFile(u) \/ Fetch(u))
    BY <1>0, <2>3 DEF ReadFile, Fetch, SeesRow
  <2>4. CASE t = u /\ FetchFails(u)
    BY <1>0, <2>4 DEF FetchFails
  <2>5. CASE t = u /\ ReadCache(u)
    <3>1. ~cache.late /\ cache.set /\ at[u] = "cache"
      BY <1>0, <2>5 DEF ReadCache
    <3>2. cache.rows = row
      BY <3>1, CopyIsRow
    <3>3. at'[u] = "loaded" /\ got'[u] = Merged(got[u], row)
      BY <1>0, <2>5, <3>2 DEF ReadCache
    <3> QED
      BY <2>1, <3>3 DEF SeesRow, Merged
  <2>6. CASE t = u /\ Store(u)
    <3>1. at'[u] = "loaded" /\ rows[u] = row /\ got'[u] = Merged(got[u], rows[u])
      BY <1>0, <2>6 DEF Store
    <3> QED
      BY <2>1, <3>1 DEF SeesRow, Merged
  <2> QED
    BY <1>2, <2>2, <2>3, <2>4, <2>5, <2>6 DEF Read
<1>3. ASSUME NEW s \in Saver, Save(s) PROVE SeesRow(u)'
  <2>1. CASE BeginSave(s)
    <3>1. CASE u = s
      BY <1>0, <2>1, <3>1 DEF BeginSave, SeesRow
    <3>2. CASE u # s
      <4>1. /\ seen' = seen /\ at'[u] = at[u] /\ got' = got /\ row' = row
            /\ keys'[u] = keys[u] /\ mine'[u] = mine[u]
        BY <1>0, <2>1, <3>2 DEF BeginSave
      <4> QED
        BY <1>0, <4>1 DEF SeesRow
    <3> QED
      BY <3>1, <3>2
  <2>2. CASE WriteFile(s)
    <3>1. seen' = seen /\ row' = row /\ keys' = keys /\ mine' = mine
      BY <2>2 DEF WriteFile
    <3>2. CASE u = s
      <4>1. /\ at[u] = "loaded" /\ at'[u] = "row"
            /\ got'[u] = Updated(got[u], keys[u], mine[u])
        BY <1>0, <2>2, <3>2 DEF WriteFile
      <4>2. \A k \in Key : row[k] # 0 => got[u][k] = row[k]
        BY <1>0, <3>1, <4>1 DEF SeesRow
      <4> QED
        BY <3>1, <4>1, <4>2 DEF SeesRow, Updated
    <3>3. CASE u # s
      <4>1. at'[u] = at[u] /\ got'[u] = got[u]
        BY <1>0, <2>2, <3>3 DEF WriteFile
      <4> QED
        BY <1>0, <3>1, <4>1 DEF SeesRow
    <3> QED
      BY <3>2, <3>3
  <2>3. CASE WriteRow(s) \/ WriteRowFails(s)
    <3>1. at[s] # "idle" /\ at' = [at EXCEPT ![s] = "reset"]
      BY <2>3 DEF WriteRow, WriteRowFails
    <3>2. CASE u = s
      BY <1>0, <3>1, <3>2 DEF SeesRow
    <3>3. CASE u # s
      <4>1. at[u] = "idle"
        BY <3>1, <3>3, OneHolder DEF Known
      <4> QED
        BY <1>0, <3>1, <3>3, <4>1 DEF SeesRow
    <3> QED
      BY <3>2, <3>3
  <2>4. CASE EndSave(s)
    <3>1. CASE u = s
      BY <1>0, <2>4, <3>1 DEF EndSave, SeesRow
    <3>2. CASE u # s
      <4>1. /\ seen'[u] = seen[u] /\ at'[u] = at[u] /\ got'[u] = got[u] /\ row' = row
            /\ keys'[u] = keys[u] /\ mine'[u] = mine[u]
        BY <1>0, <2>4, <3>2 DEF EndSave, Forget
      <4> QED
        BY <1>0, <4>1 DEF SeesRow
    <3> QED
      BY <3>1, <3>2
  <2> QED
    BY <1>3, <2>1, <2>2, <2>3, <2>4 DEF Save
<1>4. ASSUME NEW p \in orphans, Land(p) PROVE SeesRow(u)'
  BY <1>0, <1>4 DEF Land, SeesRow
<1>5. CASE Restart
  BY <1>0, <1>5 DEF Restart, SeesRow
<1>6. CASE Age \/ UNCHANGED vars
  BY <1>0, <1>6 DEF Age, vars, threads, SeesRow
<1> QED
  BY <1>1, <1>2, <1>3, <1>4, <1>5, <1>6 DEF Next

LEMMA KnownStep == Known /\ [Next]_vars => Known'
BY TypedStep, HolderStep, CacheStep, SeenStep DEF Known

(* A write of the row by a saver that saw it takes no key back.              *)
LEMMA WriteGoesForward ==
    ASSUME Known, NEW s \in Saver, WriteRow(s), seen[s] = "row", NEW k \in Key
    PROVE  ~(row'[k] < row[k])
<1>1. /\ at[s] = "row" /\ row' = got[s] /\ mine[s] = saves /\ saves \in Nat
      /\ row[k] \in 0..saves /\ got[s][k] \in 0..saves /\ SeesRow(s)
  BY BoundAssumption
     DEF Known, Typed, Records, Control, Holder, SeenTrue, WriteRow, Upto, Thread
<1>2. CASE k \in keys[s]
  BY <1>1, <1>2 DEF SeesRow
<1>3. CASE k \notin keys[s]
  BY <1>1, <1>3 DEF SeesRow
<1> QED
  BY <1>2, <1>3

LEMMA BackStep ==
    ASSUME Known, [Next]_vars, NEW k \in Key, row'[k] < row[k]
    PROVE  \/ orphans' # orphans
           \/ \E s \in Saver : at[s] = "row" /\ at'[s] = "reset" /\ seen[s] # "row"
<1>0. /\ Saver \subseteq Thread /\ at \in [Thread -> At] /\ row[k] \in Nat
      /\ row' # row
  BY BoundAssumption DEF Known, Typed, Records, Control, Upto, Thread
<1>1. ASSUME NEW s \in Saver, WriteRow(s)
      PROVE  \E u \in Saver : at[u] = "row" /\ at'[u] = "reset" /\ seen[u] # "row"
  <2>1. seen[s] # "row"
    <3> SUFFICES ASSUME seen[s] = "row" PROVE FALSE
      OBVIOUS
    <3> QED
      BY <1>1, WriteGoesForward
  <2> QED
    BY <1>0, <1>1, <2>1 DEF WriteRow
<1>2. ASSUME NEW p \in orphans, Land(p) PROVE orphans' # orphans
  BY <1>2 DEF Land
<1>3. \/ \E s \in Saver : WriteRow(s)
      \/ \E p \in orphans : Land(p)
  BY <1>0 DEF Next, BeginLoad, EndLoad, Read, ReadFile, ReadCache, Fetch, FetchFails,
     Store, Save, BeginSave, WriteFile, WriteRowFails, EndSave, Age, Restart, vars
<1> QED
  BY <1>1, <1>2, <1>3

(* No key of the row goes back but by a write nobody waits for, or in a save *)
(* that did not see the row it replaced.                                     *)
THEOREM RowGoesBack == Spec => RowGoesBackForCause
<1>1. Known /\ [Next]_vars =>
        [(\E k \in Key : row'[k] < row[k]) =>
            \/ orphans' # orphans
            \/ \E s \in Saver : at[s] = "row" /\ at'[s] = "reset" /\ seen[s] # "row"]_vars
  BY BackStep
<1> QED
  BY <1>1, KnownInit, KnownStep, PTL DEF Spec, RowGoesBackForCause

-----------------------------------------------------------------------------
(* While nothing has spoilt the store, the row is what the finished saves    *)
(* made of it and the file holds no key the row does not, so a load that     *)
(* learnt of the row from the row itself returns the row.                    *)

Busy(s) == at[s] \notin {"idle", "reset"}

\* The row, but for the save that has written it and not returned yet.
RowIsSaved ==
    /\ (\A s \in Saver : at[s] # "reset") => row = saved
    /\ \A s \in Saver : at[s] = "reset" => row = Updated(saved, keys[s], mine[s])

\* The file fills no gap of the row, but between the two writes of a save.
NoGap == (\A s \in Saver : at[s] # "row") => \A k \in Key : row[k] = 0 => file[k] = 0

\* What a saver works with at each step.
Works(s) ==
    /\ Busy(s) => \A k \in Key : row[k] < mine[s]
    /\ at[s] \in {"cache", "store"} => \A k \in Key : row[k] = 0 => got[s][k] = 0
    /\ at[s] = "loaded" /\ seen[s] = "row" => got[s] = row
    /\ at[s] = "row" /\ seen[s] = "row" =>
        /\ got[s] = Updated(row, keys[s], mine[s])
        /\ \A k \in Key : got[s][k] = 0 => file[k] = 0

Sound == RowIsSaved /\ NoGap /\ \A s \in Saver : Works(s)

Inv == Known /\ (~spoilt => Sound)

LEMMA InvInit == Init => Inv
<1> SUFFICES ASSUME Init PROVE Sound
  BY KnownInit DEF Inv
<1>1. Saver \subseteq Thread /\ \A s \in Saver : at[s] = "idle"
  BY DEF Init, Thread
<1>2. row = saved /\ file = Empty
  BY DEF Init
<1>3. RowIsSaved
  BY <1>1, <1>2 DEF RowIsSaved
<1>4. NoGap
  BY <1>2 DEF NoGap, Empty
<1>5. \A s \in Saver : Works(s)
  BY <1>1 DEF Works, Busy
<1> QED
  BY <1>3, <1>4, <1>5 DEF Sound

(* Merging the row over a payload without keys of its own gives the row.     *)
LEMMA MergedIsRow ==
    ASSUME NEW f, NEW r \in [Key -> Nat], \A k \in Key : r[k] = 0 => f[k] = 0
    PROVE  Merged(f, r) = r
BY DEF Merged

(* What the steps of the others leave alone.                                 *)
LEMMA WorksStays ==
    ASSUME NEW s \in Saver, Works(s), row' = row, file' = file, at'[s] = at[s],
           got'[s] = got[s], seen'[s] = seen[s], keys'[s] = keys[s], mine'[s] = mine[s]
    PROVE  Works(s)'
BY DEF Works, Busy

LEMMA SoundRead ==
    ASSUME Known, Sound, NEW t \in Thread, Read(t)
    PROVE  Sound'
<1>0. /\ Saver \subseteq Thread /\ at \in [Thread -> At] /\ row \in [Key -> Nat]
      /\ got \in [Thread -> Upto(saves)] /\ rows \in [Thread -> Upto(saves)]
      /\ seen \in [Thread -> Seen] /\ saves \in Nat
  BY BoundAssumption DEF Known, Typed, Records, Control, Upto, Thread
<1>1. /\ row' = row /\ file' = file /\ saved' = saved /\ keys' = keys /\ mine' = mine
      /\ \E a \in {"cache", "store", "loaded"} : at' = [at EXCEPT ![t] = a]
      /\ at[t] \in {"file", "cache", "store"}
  BY DEF Read, ReadFile, ReadCache, Fetch, FetchFails, Store
<1>2. \A s \in Saver : (at'[s] = "row") = (at[s] = "row") /\ (at'[s] = "reset") = (at[s] = "reset")
  BY <1>0, <1>1
<1>3. RowIsSaved' /\ NoGap'
  BY <1>1, <1>2 DEF Sound, RowIsSaved, NoGap
<1>4. ASSUME NEW s \in Saver, s # t PROVE Works(s)'
  <2>1. at'[s] = at[s] /\ got'[s] = got[s] /\ seen'[s] = seen[s]
    BY <1>0, <1>4 DEF Read, ReadFile, ReadCache, Fetch, FetchFails, Store
  <2> QED
    BY <1>1, <2>1, WorksStays DEF Sound
<1>5. ASSUME t \in Saver PROVE Works(t)'
  <2>0. Works(t) /\ \A u \in Saver : at[u] # "row"
    BY <1>1, <1>5, OneHolder DEF Sound, Known
  <2>1. \A k \in Key : row[k] < mine[t]
    BY <1>1, <2>0 DEF Works, Busy
  <2>2. CASE ReadFile(t)
    <3>1. at'[t] = "cache" /\ (got'[t] = file \/ got'[t] = Empty)
      BY <1>0, <2>2 DEF ReadFile
    <3>2. \A k \in Key : row[k] = 0 => got'[t][k] = 0
      BY <2>0, <3>1 DEF Sound, NoGap, Empty
    <3> QED
      BY <1>1, <2>1, <3>1, <3>2 DEF Works, Busy
  <2>3. CASE ReadCache(t)
    <3>1. at'[t] = "loaded" /\ at[t] = "cache"
      BY <1>0, <2>3 DEF ReadCache
    <3>2. \A k \in Key : row[k] = 0 => got[t][k] = 0
      BY <2>0, <3>1 DEF Works
    <3>3. ASSUME seen'[t] = "row" PROVE got'[t] = row
      <4>1. ~cache.late /\ cache.set
        BY <1>0, <2>3, <3>3 DEF ReadCache
      <4>2. cache.rows = row
        BY <1>5, <3>1, <4>1, CopyIsRow
      <4>3. got'[t] = Merged(got[t], row)
        BY <1>0, <2>3, <4>2 DEF ReadCache
      <4> QED
        BY <1>0, <3>2, <4>3, MergedIsRow
    <3> QED
      BY <1>1, <2>1, <3>1, <3>3 DEF Works, Busy
  <2>4. CASE Fetch(t)
    <3>1. at'[t] = "store" /\ at[t] = "cache" /\ got' = got
      BY <1>0, <2>4 DEF Fetch
    <3> QED
      BY <1>1, <2>0, <2>1, <3>1 DEF Works, Busy
  <2>5. CASE FetchFails(t)
    <3>1. at'[t] = "loaded" /\ seen'[t] = "failed"
      BY <1>0, <2>5 DEF FetchFails
    <3> QED
      BY <1>1, <2>1, <3>1 DEF Works, Busy
  <2>6. CASE Store(t)
    <3>1. at'[t] = "loaded" /\ at[t] = "store" /\ got'[t] = Merged(got[t], rows[t])
      BY <1>0, <2>6 DEF Store
    <3>2. \A k \in Key : row[k] = 0 => got[t][k] = 0
      BY <2>0, <3>1 DEF Works
    <3>3. ASSUME seen'[t] = "row" PROVE got'[t] = row
      <4>1. rows[t] = row
        BY <1>0, <2>6, <3>3 DEF Store
      <4> QED
        BY <1>0, <3>1, <3>2, <4>1, MergedIsRow
    <3> QED
      BY <1>1, <2>1, <3>1, <3>3 DEF Works, Busy
  <2> QED
    BY <2>2, <2>3, <2>4, <2>5, <2>6 DEF Read
<1> QED
  BY <1>3, <1>4, <1>5 DEF Sound

LEMMA WorksDone ==
    ASSUME NEW s \in Saver, at'[s] \in {"idle", "reset"}
    PROVE  Works(s)'
BY DEF Works, Busy

LEMMA SoundSave ==
    ASSUME Known, Sound, NEW s \in Saver, Save(s), ~spoilt'
    PROVE  Sound'
<1>0. /\ s \in Thread /\ Saver \subseteq Thread /\ at \in [Thread -> At]
      /\ row \in [Key -> 0..saves] /\ got \in [Thread -> Upto(saves)]
      /\ seen \in [Thread -> Seen] /\ keys \in [Saver -> SUBSET Key]
      /\ mine \in [Saver -> 0..saves] /\ saves \in Nat
  BY BoundAssumption DEF Known, Typed, Records, Control, Upto, Thread
<1>1. CASE BeginSave(s)
  <2>1. \A u \in Saver : at[u] = "idle"
    BY <1>1, ThreadAssumption DEF BeginSave, Known, Holder
  <2>2. /\ at'[s] = "file" /\ mine'[s] = saves + 1 /\ row' = row /\ file' = file
        /\ saved' = saved /\ \A u \in Saver : u # s => at'[u] = "idle"
    BY <1>0, <1>1, <2>1 DEF BeginSave
  <2>3. RowIsSaved' /\ NoGap'
    BY <2>1, <2>2 DEF Sound, RowIsSaved, NoGap
  <2>4. Works(s)'
    BY <1>0, <2>2 DEF Works, Busy
  <2>5. \A u \in Saver : u # s => Works(u)'
    BY <2>2, WorksDone
  <2> QED
    BY <2>3, <2>4, <2>5 DEF Sound
<1>2. ASSUME at[s] # "idle", NEW u \in Saver, u # s PROVE at[u] = "idle"
  BY <1>2, OneHolder DEF Known
<1>3. CASE WriteFile(s)
  <2>1. /\ at[s] = "loaded" /\ at'[s] = "row" /\ row' = row /\ saved' = saved
        /\ keys' = keys /\ mine' = mine /\ seen' = seen
        /\ got'[s] = Updated(got[s], keys[s], mine[s])
        /\ (file' = got'[s] \/ file' = file)
    BY <1>0, <1>3 DEF WriteFile
  <2>2. \A u \in Saver : u # s => at[u] = "idle" /\ at'[u] = "idle"
    BY <1>0, <1>2, <1>3, <2>1 DEF WriteFile
  <2>3. RowIsSaved' /\ NoGap'
    BY <2>1, <2>2 DEF Sound, RowIsSaved, NoGap
  <2>4. Works(s) /\ \A k \in Key : row[k] = 0 => file[k] = 0
    BY <2>1, <2>2 DEF Sound, NoGap
  <2>5. \A k \in Key : row[k] < mine[s]
    BY <2>1, <2>4 DEF Works, Busy
  <2>6. ASSUME seen[s] = "row"
        PROVE  /\ got'[s] = Updated(row, keys[s], mine[s])
               /\ \A k \in Key : got'[s][k] = 0 => file'[k] = 0
    <3>1. got'[s] = Updated(row, keys[s], mine[s])
      BY <2>1, <2>4, <2>6 DEF Works
    <3>2. ASSUME NEW k \in Key, got'[s][k] = 0 PROVE file'[k] = 0
      <4>1. k \notin keys[s] /\ row[k] = 0
        BY <1>0, <2>5, <3>1, <3>2 DEF Updated
      <4> QED
        BY <2>1, <2>4, <3>2, <4>1
    <3> QED
      BY <3>1, <3>2
  <2>7. Works(s)'
    BY <2>1, <2>5, <2>6 DEF Works, Busy
  <2>8. \A u \in Saver : u # s => Works(u)'
    BY <2>2, WorksDone
  <2> QED
    BY <2>3, <2>7, <2>8 DEF Sound
<1>4. CASE WriteRow(s)
  <2>1. /\ at[s] = "row" /\ at'[s] = "reset" /\ row' = got[s] /\ file' = file
        /\ saved' = saved /\ keys' = keys /\ mine' = mine /\ seen[s] = "row"
    BY <1>0, <1>4 DEF WriteRow
  <2>2. \A u \in Saver : u # s => at[u] = "idle" /\ at'[u] = "idle"
    BY <1>0, <1>2, <1>4, <2>1 DEF WriteRow
  <2>3. row = saved
    BY <2>1, <2>2 DEF Sound, RowIsSaved
  <2>4. /\ got[s] = Updated(row, keys[s], mine[s])
        /\ \A k \in Key : got[s][k] = 0 => file[k] = 0
    BY <2>1 DEF Sound, Works
  <2>5. RowIsSaved'
    BY <2>1, <2>2, <2>3, <2>4 DEF RowIsSaved, Updated
  <2>6. NoGap'
    BY <2>1, <2>4 DEF NoGap
  <2>7. \A u \in Saver : Works(u)'
    BY <2>1, <2>2, WorksDone
  <2> QED
    BY <2>5, <2>6, <2>7 DEF Sound
<1>5. CASE WriteRowFails(s)
  BY <1>5 DEF WriteRowFails
<1>6. CASE EndSave(s)
  <2>1. /\ at[s] = "reset" /\ at'[s] = "idle" /\ row' = row /\ file' = file
        /\ saved' = Updated(saved, keys[s], mine[s])
    BY <1>0, <1>6 DEF EndSave
  <2>2. \A u \in Saver : u # s => at[u] = "idle" /\ at'[u] = "idle"
    BY <1>0, <1>2, <1>6, <2>1 DEF EndSave
  <2>3. RowIsSaved' /\ NoGap'
    BY <2>1, <2>2 DEF Sound, RowIsSaved, NoGap
  <2>4. \A u \in Saver : Works(u)'
    BY <2>1, <2>2, WorksDone
  <2> QED
    BY <2>3, <2>4 DEF Sound
<1> QED
  BY <1>1, <1>3, <1>4, <1>5, <1>6 DEF Save

LEMMA SoundStep == Known /\ (~spoilt => Sound) /\ [Next]_vars => (~spoilt' => Sound')
<1> SUFFICES ASSUME Known, ~spoilt => Sound, [Next]_vars, ~spoilt' PROVE Sound'
  OBVIOUS
<1>0. /\ Saver \subseteq Thread /\ Reader \subseteq Thread /\ at \in [Thread -> At]
      /\ got \in [Thread -> Upto(saves)] /\ seen \in [Thread -> Seen]
  BY DEF Known, Typed, Records, Control, Thread
<1>1. Sound
  BY DEF Next, BeginLoad, EndLoad, Read, ReadFile, ReadCache, Fetch, FetchFails, Store,
         Save, BeginSave, WriteFile, WriteRow, WriteRowFails, EndSave, Age, Land, Restart,
         vars
<1>2. ASSUME NEW r \in Reader, BeginLoad(r) \/ EndLoad(r) PROVE Sound'
  <2>1. /\ row' = row /\ file' = file /\ saved' = saved /\ keys' = keys /\ mine' = mine
        /\ \A s \in Saver : at'[s] = at[s] /\ got'[s] = got[s] /\ seen'[s] = seen[s]
    BY <1>0, <1>2, ThreadAssumption DEF BeginLoad, EndLoad, Forget
  <2>2. RowIsSaved' /\ NoGap'
    BY <1>1, <2>1 DEF Sound, RowIsSaved, NoGap
  <2>3. \A s \in Saver : Works(s)'
    BY <1>1, <2>1, WorksStays DEF Sound
  <2> QED
    BY <2>2, <2>3 DEF Sound
<1>3. ASSUME NEW p \in orphans, Land(p) PROVE Sound'
  BY <1>3 DEF Land
<1>4. CASE Restart
  <2>1. lock = Free
    BY <1>4 DEF Restart
  <2>2. \A s \in Saver : at[s] = "idle" /\ at'[s] = "idle"
    BY <1>0, <1>4, <2>1, ThreadAssumption DEF Known, Holder, Restart
  <2>3. /\ row' = row /\ saved' = saved /\ (file' = file \/ file' = Empty)
    BY <1>4 DEF Restart
  <2>4. RowIsSaved'
    BY <1>1, <2>2, <2>3 DEF Sound, RowIsSaved
  <2>5. NoGap'
    BY <1>1, <2>2, <2>3 DEF Sound, NoGap, Empty
  <2>6. \A s \in Saver : Works(s)'
    BY <2>2, WorksDone
  <2> QED
    BY <2>4, <2>5, <2>6 DEF Sound
<1>5. CASE Age \/ UNCHANGED vars
  <2>1. /\ row' = row /\ file' = file /\ saved' = saved /\ keys' = keys /\ mine' = mine
        /\ at' = at /\ got' = got /\ seen' = seen
    BY <1>5 DEF Age, vars, threads
  <2>2. RowIsSaved' /\ NoGap'
    BY <1>1, <2>1 DEF Sound, RowIsSaved, NoGap
  <2>3. \A s \in Saver : Works(s)'
    BY <1>1, <2>1, WorksStays DEF Sound
  <2> QED
    BY <2>2, <2>3 DEF Sound
<1> QED
  BY <1>1, <1>2, <1>3, <1>4, <1>5, SoundRead, SoundSave DEF Next

LEMMA InvStep == Inv /\ [Next]_vars => Inv'
BY KnownStep, SoundStep DEF Inv

LEMMA InvShows == Inv => RowIsWhatWasSaved
<1> SUFFICES ASSUME Inv, lock = Free, ~spoilt PROVE row = saved
  BY DEF RowIsWhatWasSaved
<1>1. \A s \in Saver : at[s] = "idle"
  BY ThreadAssumption DEF Inv, Known, Holder
<1> QED
  BY <1>1 DEF Inv, Sound, RowIsSaved

(* Outside a save an unspoilt row is what the finished saves made of it.     *)
THEOREM RowIsSavedState == Spec => []RowIsWhatWasSaved
BY InvInit, InvStep, InvShows, PTL DEF Spec

-----------------------------------------------------------------------------
(* The store implements the durable record: the row write of a save that saw *)
(* the row is the record's save, what spoils the store withdraws the         *)
(* promise, and every other step leaves the record alone.                    *)

LEMMA PromiseInit == Init => Promise!Init
BY DEF Init, Empty, Promise!Init

LEMMA RowWriteSaves ==
    ASSUME Inv, NEW s \in Saver, WriteRow(s), ~spoilt'
    PROVE  Promise!Save(keys[s], mine[s])
<1>1. at[s] = "row" /\ row' = got[s] /\ seen[s] = "row" /\ spoilt' = FALSE /\ spoilt = FALSE
  BY DEF WriteRow, Inv, Known, Typed, Control
<1>2. /\ got[s] = Updated(row, keys[s], mine[s])
      /\ \A k \in Key : row[k] < mine[s]
  BY <1>1 DEF Inv, Sound, Works, Busy
<1>3. (~spoilt)' = ~spoilt
  BY <1>1
<1>4. row' = [k \in Key |-> IF k \in DOMAIN [i \in keys[s] |-> mine[s]]
                            THEN [i \in keys[s] |-> mine[s]][k] ELSE row[k]]
  BY <1>1, <1>2 DEF Updated
<1>5. \A k \in Key : mine[s] > row[k]
  <2>1. /\ mine[s] \in Nat /\ \A k \in Key : row[k] \in Nat
    BY BoundAssumption DEF Inv, Known, Typed, Records, Control, Upto
  <2> QED
    BY <1>2, <2>1
<1> QED
  BY <1>3, <1>4, <1>5 DEF Promise!Save, Promise!Put

LEMMA PromiseStep == Inv /\ Inv' /\ [Next]_vars => [Promise!Next]_(Promise!vars)
<1> SUFFICES ASSUME Inv, Inv', [Next]_vars PROVE [Promise!Next]_(Promise!vars)
  OBVIOUS
<1>a. spoilt \in BOOLEAN /\ spoilt' \in BOOLEAN
  BY Zenon DEF Inv, Known, Typed, Control
<1>b. row' \in Payload
  BY BoundAssumption DEF Inv, Known, Typed, Records, Control, Upto, Payload, Version
<1>0. spoilt \in BOOLEAN /\ spoilt' \in BOOLEAN /\ row' \in Payload
  BY <1>a, <1>b
<1>1. CASE spoilt' = TRUE
  <2>1. (~spoilt)' = FALSE
    BY <1>1
  <2> QED
    BY <1>0, <2>1 DEF Promise!Next, Promise!Spoil, Payload
<1>2. CASE spoilt' = FALSE
  <2>1. spoilt = FALSE
    BY <1>0, <1>2
       DEF Next, BeginLoad, EndLoad, Read, ReadFile, ReadCache, Fetch, FetchFails, Store,
           Save, BeginSave, WriteFile, WriteRow, WriteRowFails, EndSave, Age, Land,
           Restart, vars
  <2>2. ASSUME NEW s \in Saver, WriteRow(s) PROVE Promise!Next
    <3>1. Promise!Save(keys[s], mine[s])
      BY <1>2, <2>2, RowWriteSaves
    <3>2. keys[s] \in SUBSET Key /\ mine[s] \in Version
      BY TypedIsTyped DEF Inv, Known, TypeOK
    <3> QED
      BY <3>1, <3>2 DEF Promise!Next
  <2>3. (\E s \in Saver : WriteRow(s)) \/ row' = row
    BY <1>2 DEF Next, BeginLoad, EndLoad, Read, ReadFile, ReadCache, Fetch, FetchFails,
       Store, Save, BeginSave, WriteFile, WriteRowFails, EndSave, Age, Land, Restart, vars
  <2>4. (~spoilt)' = ~spoilt
    BY <1>2, <2>1
  <2> QED
    BY <2>2, <2>3, <2>4 DEF Promise!vars
<1> QED
  BY <1>0, <1>1, <1>2

(* The refinement, for any keys, savers, readers and bounds.                 *)
THEOREM StoreImplementsRecord == Spec => ImplementsDurableRecord
BY PromiseInit, PromiseStep, InvInit, InvStep, PTL DEF Spec, ImplementsDurableRecord, Promise!Spec
=============================================================================
