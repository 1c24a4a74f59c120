----------------------- MODULE ExecutionBridge_proofs -----------------------
(* What ExecutionBridge guarantees for every value of its constants. *)
EXTENDS ExecutionBridge, SequenceTheorems, WellFoundedInduction, TLAPS

\* What the proofs need to know of the values of the variables.
Types ==
    /\ pc \in [Call -> Pc] /\ outcome \in [Call -> Outcome]
    /\ hash \in [Call -> Hash] /\ attempt \in [Call -> 1 .. MaxAttempts]
    /\ orders \in [Call -> [1 .. MaxAttempts -> OrderState]]
    /\ known \in [Call -> IdState]
    /\ kept \subseteq Call

Early == {"idle", "load", "lookup", "gate", "canary", "reserve"}
InOms == {"recheck", "oms", "checks", "sending", "settle", "save", "keep"}
\* The first of the two times that the order is written.
FirstWrite(c) == pc[c] \in {"copy", "write"} /\ outcome[c] = "none"
Alive == {"flight", "open"}

\* A call holds its hash from its reservation until a definite refusal.
Holds(c) ==
    /\ pc[c] \in Early => c \notin kept
    /\ pc[c] \in InOms \/ FirstWrite(c) => c \in kept

\* A call makes its order when it submits, one per attempt.
Makes(c) ==
    pc[c] \in Early \cup {"recheck", "oms", "checks"} \/ FirstWrite(c)
            => orders[c][attempt[c]] = "none"
Waits(c) ==
    \A i \in 1 .. MaxAttempts : i > attempt[c] => orders[c][i] = "none"

\* A refusal is definite, and an order that may be executed holds the hash.
Refuses(c) ==
    /\ pc[c] \in {"settle", "save", "keep"} =>
            /\ outcome[c] # "none"
            /\ outcome[c] \in Definite => orders[c][attempt[c]] \notin Alive
    /\ orders[c][attempt[c]] \in Alive => c \in kept

\* The gateway has let each request id pass once.
Passes(c) ==
    /\ known[c] = "new" => \A i \in 1 .. MaxAttempts : orders[c][i] = "none"
    /\ known[c] = "known" => \A i, j \in 1 .. MaxAttempts :
            orders[c][i] # "none" /\ orders[c][j] # "none" => i = j

Local(c) == Holds(c) /\ Makes(c) /\ Waits(c) /\ Refuses(c) /\ Passes(c)

\* No call is past the load of an unverified store; the hash of a call that
\* holds it is remembered or lost; and two calls hold one hash only if it was.
VerifiedInside == \A c \in Call : pc[c] \notin {"idle", "load", "done"} => ~ unverified
HeldHash == \A c \in kept : unverified \/ hash[c] \in executed \cup lost
HeldOnce == \A c, d \in kept : c # d /\ hash[c] = hash[d] => hash[c] \in lost

Inv == Types /\ (\A c \in Call : Local(c)) /\ VerifiedInside /\ HeldHash /\ HeldOnce

LEMMA AttemptRange == 1 \in 1 .. MaxAttempts /\ MaxAttempts \in Nat
BY LimitAssumption

LEMMA InitInv == ASSUME Init PROVE Inv
<1>1. Types
  <2>1. (CHOOSE h \in Hash : TRUE) \in Hash
    BY HashAssumption
  <2> QED
    BY <2>1, AttemptRange DEF Init, Types, Pc, Outcome, OrderState, IdState
<1>2. \A c \in Call : Local(c)
  BY AttemptRange DEF Init, Local, Holds, Makes, Waits, Refuses, Passes, FirstWrite, Early, InOms, Alive
<1> QED
  BY <1>1, <1>2 DEF Init, Inv, VerifiedInside, HeldHash, HeldOnce

\* What the call's own steps up to the reservation, and after it, preserve.
LEMMA HashStepInv ==
    ASSUME Inv, NEW c \in Call, HashStep(c)
    PROVE  Inv'
<1> USE DEF Inv, Types
<1> UNCHANGED <<hash, attempt, orders, known>>
  BY DEF HashStep, brokerVars
<1>1. CASE EnsureHashesLoaded(c) /\ UNCHANGED <<canary, outcome, kept>>
  <2>1. Types'
    BY <1>1 DEF EnsureHashesLoaded, Step, Pc
  <2>2. \A d \in Call : Local(d)'
    BY <1>1 DEF EnsureHashesLoaded, Step, Local, Holds, Makes, Waits, Refuses, Passes,
                FirstWrite, Early, InOms, Pc
  <2>3. VerifiedInside'
    BY <1>1 DEF EnsureHashesLoaded, Step, VerifiedInside, hashVars
  <2>4. HeldHash' /\ HeldOnce'
    BY <1>1 DEF EnsureHashesLoaded, Step, HeldHash, HeldOnce, hashVars
  <2> QED
    BY <2>1, <2>2, <2>3, <2>4
<1>2. CASE /\ Lookup(c) \/ Gate(c)
           /\ UNCHANGED <<hashVars, canary, outcome, kept, lost, restored>>
  <2>1. Types'
    BY <1>2 DEF Lookup, Gate, Step, Pc
  <2>2. \A d \in Call : Local(d)'
    BY <1>2 DEF Lookup, Gate, Step, Local, Holds, Makes, Waits, Refuses, Passes,
                FirstWrite, Early, InOms, Pc
  <2>3. VerifiedInside'
    BY <1>2 DEF Lookup, Gate, Step, VerifiedInside, hashVars
  <2>4. HeldHash' /\ HeldOnce'
    BY <1>2 DEF HeldHash, HeldOnce, hashVars
  <2> QED
    BY <2>1, <2>2, <2>3, <2>4
<1>3. CASE /\ CheckCanary(c) \/ MarkExecuted(c)
           /\ UNCHANGED <<order, unverified, kept, lost, restored>>
  <2>1. Types'
    BY <1>3 DEF CheckCanary, MarkExecuted, Step, End, Pc, Outcome
  <2>2. /\ pc[c] = "canary" /\ pc'[c] \in {"reserve", "done"}
        /\ outcome'[c] \in {outcome[c], "shadow"}
        /\ \A d \in Call \ {c} : pc'[d] = pc[d] /\ outcome'[d] = outcome[d]
    BY <1>3 DEF CheckCanary, MarkExecuted, Step, End
  <2>5. \A d \in Call : Local(d)'
    BY <1>3, <2>2 DEF Local, Holds, Makes, Waits, Refuses, Passes, FirstWrite, Early, InOms
  <2>3. VerifiedInside'
    BY <1>3 DEF CheckCanary, MarkExecuted, Step, VerifiedInside
  <2>4. HeldHash' /\ HeldOnce'
    BY <1>3 DEF CheckCanary, MarkExecuted, HeldHash, HeldOnce
  <2> QED
    BY <2>1, <2>5, <2>3, <2>4
<1>4. CASE Reserve(c) /\ UNCHANGED <<unverified, outcome, restored>>
  <2>1. Types'
    BY <1>4 DEF Reserve, Step, Pc
  <2>2. \A d \in Call : Local(d)'
    BY <1>4 DEF Reserve, Step, Local, Holds, Makes, Waits, Refuses, Passes,
                FirstWrite, Early, InOms, Pc
  <2>3. VerifiedInside' /\ ~ unverified
    BY <1>4 DEF Reserve, Step, VerifiedInside
  <2>4. HeldHash' /\ HeldOnce'
    BY <1>4, <2>3 DEF Reserve, HeldHash, HeldOnce
  <2> QED
    BY <2>1, <2>2, <2>3, <2>4
<1>5. CASE KeepOrRelease(c) /\ UNCHANGED <<unverified, canary, outcome, lost, restored>>
  <2>1. Types'
    BY <1>5 DEF KeepOrRelease, Step, Pc
  <2>2. \A d \in Call : Local(d)'
    BY <1>5 DEF KeepOrRelease, Step, Local, Holds, Makes, Waits, Refuses, Passes,
                FirstWrite, Early, InOms, Pc
  <2>3. VerifiedInside'
    BY <1>5 DEF KeepOrRelease, Step, VerifiedInside
  <2>4. c \in kept
    BY <1>5 DEF KeepOrRelease, Step, Local, Holds, InOms
  <2>5. HeldHash'
    <3> SUFFICES ASSUME NEW d \in kept, d \in kept', ~ unverified
                 PROVE  hash[d] \in executed' \cup lost
      BY <1>5 DEF KeepOrRelease, HeldHash
    <3>1. CASE outcome[c] \in Definite
      BY <1>5, <2>4, <3>1 DEF KeepOrRelease, HeldHash, HeldOnce
    <3>2. CASE outcome[c] \notin Definite
      BY <1>5, <3>2 DEF KeepOrRelease, HeldHash
    <3> QED
      BY <3>1, <3>2
  <2>6. HeldOnce'
    BY <1>5 DEF KeepOrRelease, HeldOnce
  <2> QED
    BY <2>1, <2>2, <2>3, <2>5, <2>6
<1>6. CASE CountCanary(c) /\ UNCHANGED <<hashVars, outcome, kept, lost, restored>>
  <2>1. Types'
    BY <1>6 DEF CountCanary, Step, Pc
  <2>2. \A d \in Call : Local(d)'
    BY <1>6 DEF CountCanary, Step, Local, Holds, Makes, Waits, Refuses, Passes,
                FirstWrite, Early, InOms, Pc
  <2>3. VerifiedInside' /\ HeldHash' /\ HeldOnce'
    BY <1>6 DEF CountCanary, Step, VerifiedInside, HeldHash, HeldOnce, hashVars
  <2> QED
    BY <2>1, <2>2, <2>3
<1> QED
  BY <1>1, <1>2, <1>3, <1>4, <1>5, <1>6 DEF HashStep

\* What its steps to the disk and the plane preserve.
LEMMA DurableStepInv ==
    ASSUME Inv, NEW c \in Call, DurableStep(c)
    PROVE  Inv'
<1> USE DEF Inv, Types
<1> UNCHANGED <<hash, outcome, attempt, orders, known, kept, executed, lost, unverified>>
  BY DEF DurableStep, brokerVars, hashVars, history
<1>1. Types'
  BY DEF DurableStep, CopyOrder, WriteCopy, Settle, SaveAmbiguous, Step, Pc
<1>2. CASE CopyOrder(c) \/ WriteCopy(c)
  <2>1. \A d \in Call : Local(d)'
    BY <1>2, <1>1 DEF CopyOrder, WriteCopy, Step, Local, Holds, Makes, Waits, Refuses, Passes,
                      FirstWrite, Early, InOms, Pc
  <2>2. VerifiedInside'
    BY <1>2 DEF CopyOrder, WriteCopy, Step, VerifiedInside
  <2> QED
    BY <1>1, <2>1, <2>2 DEF HeldHash, HeldOnce
<1>3. CASE Settle(c) \/ SaveAmbiguous(c)
  <2>1. \A d \in Call : Local(d)'
    BY <1>3, <1>1 DEF Settle, SaveAmbiguous, Step, Local, Holds, Makes, Waits, Refuses, Passes,
                      FirstWrite, Early, InOms, Pc
  <2>2. VerifiedInside'
    BY <1>3 DEF Settle, SaveAmbiguous, Step, VerifiedInside
  <2> QED
    BY <1>1, <2>1, <2>2 DEF HeldHash, HeldOnce
<1> QED
  BY <1>2, <1>3 DEF DurableStep

\* What one attempt does to the orders.
LEMMA SetOrderEffect ==
    ASSUME Types, NEW c \in Call, NEW i \in 1 .. MaxAttempts, NEW to \in OrderState,
           SetOrder(c, i, to)
    PROVE  /\ orders' \in [Call -> [1 .. MaxAttempts -> OrderState]]
           /\ \A d \in Call \ {c} : orders'[d] = orders[d]
           /\ \A j \in 1 .. MaxAttempts : orders'[c][j] = IF j = i THEN to ELSE orders[c][j]
<1>1. orders' = [orders EXCEPT ![c] = [orders[c] EXCEPT ![i] = to]]
  BY DEF SetOrder
<1>2. [orders[c] EXCEPT ![i] = to] \in [1 .. MaxAttempts -> OrderState]
  BY DEF Types
<1>3. orders'[c] = [orders[c] EXCEPT ![i] = to]
  BY <1>1 DEF Types
<1>4. orders' \in [Call -> [1 .. MaxAttempts -> OrderState]]
  BY <1>1, <1>2 DEF Types
<1>5. \A d \in Call \ {c} : orders'[d] = orders[d]
  BY <1>1 DEF Types
<1>6. \A j \in 1 .. MaxAttempts : orders'[c][j] = IF j = i THEN to ELSE orders[c][j]
  BY <1>3 DEF Types
<1> QED
  BY <1>4, <1>5, <1>6

\* What its steps in the OMS preserve.
LEMMA OmsStepInv ==
    ASSUME Inv, NEW c \in Call, OmsStep(c)
    PROVE  Inv'
<1> USE DEF Inv, Types
<1> UNCHANGED <<hash, kept, executed, lost, unverified>>
  BY DEF OmsStep, hashVars, history
<1>1. Types'
  <2>1. CASE Recheck(c) /\ UNCHANGED <<outcome, attempt, brokerVars>>
    BY <2>1 DEF Recheck, Step, Pc, brokerVars
  <2>2. CASE (GuardSubmit(c) \/ OmsRefuses(c)) /\ UNCHANGED <<attempt, brokerVars>>
    BY <2>2 DEF GuardSubmit, OmsRefuses, Step, End, Pc, Outcome, brokerVars
  <2>3. CASE Submit(c) /\ UNCHANGED attempt
    <3>1. orders' \in [Call -> [1 .. MaxAttempts -> OrderState]]
      BY <2>3, SetOrderEffect DEF Submit, OrderState, brokerVars
    <3>2. known' \in [Call -> IdState]
      BY <2>3 DEF Submit, IdState, brokerVars
    <3> QED
      BY <2>3, <3>1, <3>2 DEF Submit, Step, End, Pc, Outcome
  <2>4. CASE Return(c) /\ UNCHANGED <<attempt, known>>
    <3>1. orders' \in [Call -> [1 .. MaxAttempts -> OrderState]]
      BY <2>4, SetOrderEffect DEF Return, OrderState
    <3> QED
      BY <2>4, <3>1 DEF Return, Step, End, Pc, Outcome
  <2>5. CASE Retry(c) /\ UNCHANGED brokerVars
    <3>1. attempt[c] + 1 \in 1 .. MaxAttempts
      BY <2>5, AttemptRange DEF Retry
    <3>2. attempt' \in [Call -> 1 .. MaxAttempts]
      BY <2>5, <3>1 DEF Retry
    <3> QED
      BY <2>5, <3>2 DEF Retry, Step, End, Pc, Outcome, brokerVars
  <2> QED
    BY <2>1, <2>2, <2>3, <2>4, <2>5 DEF OmsStep
<1>2. VerifiedInside'
  BY DEF OmsStep, Recheck, GuardSubmit, OmsRefuses, Submit, Return, Retry, Step, VerifiedInside
<1>3. ASSUME NEW d \in Call, d # c
      PROVE  Local(d)'
  <2>1. pc'[d] = pc[d]
    BY <1>3 DEF OmsStep, Recheck, GuardSubmit, OmsRefuses, Submit, Return, Retry, Step
  <2>2. outcome'[d] = outcome[d]
    BY <1>3 DEF OmsStep, Recheck, GuardSubmit, OmsRefuses, Submit, Return, Retry, End
  <2>3. attempt'[d] = attempt[d]
    BY <1>3 DEF OmsStep, Recheck, GuardSubmit, OmsRefuses, Submit, Return, Retry
  <2>4. orders'[d] = orders[d]
    BY <1>3, SetOrderEffect DEF OmsStep, Recheck, GuardSubmit, OmsRefuses, Submit, Return,
                                Retry, OrderState, brokerVars
  <2>5. known'[d] = known[d]
    BY <1>3 DEF OmsStep, Recheck, GuardSubmit, OmsRefuses, Submit, Return, Retry, brokerVars
  <2>6. kept' = kept
    OBVIOUS
  <2>7. Holds(d)' /\ Makes(d)'
    BY <2>1, <2>2, <2>3, <2>4, <2>6 DEF Local, Holds, Makes, FirstWrite
  <2>8. Refuses(d)'
    BY <2>1, <2>2, <2>3, <2>4, <2>6 DEF Local, Refuses
  <2>10. Passes(d)'
    BY <2>4, <2>5 DEF Local, Passes
  <2>9. Waits(d)'
    BY <2>3, <2>4 DEF Local, Waits
  <2> QED
    BY <2>7, <2>8, <2>9, <2>10 DEF Local
<1>4. Local(c)'
  <2> USE DEF Step, End, Local, Holds, Makes, Waits, Refuses, Passes, FirstWrite, Early, InOms,
              Alive, Definite, Pc, Outcome
  <2>1. CASE Recheck(c) /\ UNCHANGED <<outcome, attempt, brokerVars>>
    BY <2>1 DEF Recheck, brokerVars
  <2>2. CASE (GuardSubmit(c) \/ OmsRefuses(c)) /\ UNCHANGED <<attempt, brokerVars>>
    BY <2>2 DEF GuardSubmit, OmsRefuses, brokerVars
  <2>3. CASE Submit(c) /\ UNCHANGED attempt
    <3> pc[c] = "checks" /\ c \in kept
      BY <2>3 DEF Submit
    <3>1. CASE known[c] = "known" /\ pc' = [pc EXCEPT ![c] = "done"] /\ UNCHANGED brokerVars
      BY <2>3, <3>1 DEF brokerVars
    <3>2. CASE /\ known[c] # "known" /\ pc' = [pc EXCEPT ![c] = "sending"]
               /\ known' = [known EXCEPT ![c] = IF @ = "new" THEN "known" ELSE @]
               /\ SetOrder(c, attempt[c], "flight")
      <4>1. /\ \A j \in 1 .. MaxAttempts :
                  orders'[c][j] = IF j = attempt[c] THEN "flight" ELSE orders[c][j]
            /\ pc'[c] = "sending" /\ attempt'[c] = attempt[c]
            /\ known'[c] = IF known[c] = "new" THEN "known" ELSE known[c]
        BY <2>3, <3>2, SetOrderEffect DEF OrderState
      <4>2. Waits(c)'
        BY <4>1, AttemptRange
      <4>3. ASSUME known[c] = "new"
            PROVE  Passes(c)'
        <5>1. known'[c] = "known"
          BY <4>1, <4>3
        <5>2. \A j \in 1 .. MaxAttempts : orders[c][j] = "none"
          BY <4>3
        <5>3. \A j \in 1 .. MaxAttempts : orders'[c][j] # "none" => j = attempt[c]
          BY <4>1, <5>2
        <5> QED
          BY <5>1, <5>3
      <4>4. ASSUME known[c] = "forgotten"
            PROVE  Passes(c)'
        BY <4>1, <4>4
      <4>5. Passes(c)'
        BY <3>2, <4>3, <4>4 DEF IdState
      <4> QED
        BY <4>1, <4>2, <4>5
    <3> QED
      BY <2>3, <3>1, <3>2 DEF Submit
  <2>4. CASE Return(c) /\ UNCHANGED <<attempt, known>>
    <3> pc[c] = "sending" /\ c \in kept
      BY <2>4 DEF Return
    <3>1. CASE orders[c][attempt[c]] = "flight" /\ End(c, "refused")
               /\ pc' = [pc EXCEPT ![c] = "settle"] /\ SetOrder(c, attempt[c], "dead")
      <4>1. \A j \in 1 .. MaxAttempts :
                  orders'[c][j] = IF j = attempt[c] THEN "dead" ELSE orders[c][j]
        BY <3>1, SetOrderEffect DEF OrderState
      <4>2. pc'[c] = "settle" /\ attempt'[c] = attempt[c] /\ known'[c] = known[c]
        BY <2>4, <3>1
      <4>3. Waits(c)'
        BY <4>1, <4>2, AttemptRange
      <4>4. Passes(c)'
        <5>1. \A j \in 1 .. MaxAttempts : orders'[c][j] # "none" => orders[c][j] # "none"
          BY <3>1, <4>1
        <5>2. known'[c] = known[c] /\ known[c] # "new"
          BY <3>1, <4>2
        <5> QED
          BY <5>1, <5>2
      <4> QED
        BY <3>1, <4>1, <4>2, <4>3, <4>4
    <3>2. CASE \/ End(c, "filled") /\ orders[c][attempt[c]] = "open"
               \/ End(c, "unknown")
               \/ End(c, "raised")
      BY <2>4, <3>2 DEF Return
    <3> QED
      BY <2>4, <3>1, <3>2 DEF Return
  <2>5. CASE Retry(c) /\ UNCHANGED brokerVars
    <3>1. /\ attempt[c] + 1 \in 1 .. MaxAttempts /\ attempt'[c] = attempt[c] + 1
          /\ pc[c] = "settle" /\ pc'[c] = "oms" /\ c \in kept /\ kept' = kept
          /\ orders' = orders /\ known' = known
      BY <2>5, AttemptRange DEF Retry, brokerVars
    <3>2. orders[c][attempt[c] + 1] = "none"
      BY <3>1, AttemptRange
    <3>3. Waits(c)'
      BY <3>1, <3>2, AttemptRange
    <3> QED
      BY <3>1, <3>2, <3>3
  <2> QED
    BY <2>1, <2>2, <2>3, <2>4, <2>5 DEF OmsStep
<1> QED
  BY <1>1, <1>2, <1>3, <1>4 DEF HeldHash, HeldOnce

\* What a new call, the broker, the gateway, the operators and the calendar
\* preserve.
LEMMA BeginInv ==
    ASSUME Inv, NEW c \in Call, NEW h \in Hash, Begin(c, h)
    PROVE  Inv'
<1> USE DEF Inv, Types
<1>1. UNCHANGED <<outcome, attempt, orders, known, kept, executed, lost, unverified>>
  BY DEF Begin, hashVars, brokerVars
<1>2. Types'
  BY <1>1 DEF Begin, Step, Pc
<1>3. pc[c] = "idle" /\ pc' = [pc EXCEPT ![c] = "load"] /\ hash' = [hash EXCEPT ![c] = h]
  BY DEF Begin, Step
<1>4. \A d \in Call : Local(d)'
  BY <1>1, <1>3 DEF Local, Holds, Makes, Waits, Refuses, Passes, FirstWrite, Early, InOms
<1>5. VerifiedInside'
  BY <1>1, <1>3 DEF VerifiedInside
<1>6. \A d \in kept : d # c
  BY <1>3 DEF Local, Holds, Early
<1>7. HeldHash' /\ HeldOnce'
  BY <1>1, <1>3, <1>6 DEF HeldHash, HeldOnce
<1> QED
  BY <1>2, <1>4, <1>5, <1>7

LEMMA EnvironmentInv ==
    ASSUME Inv, Environment
    PROVE  Inv'
<1> USE DEF Inv, Types
<1>1. ASSUME NEW c \in Call, NEW i \in 1 .. MaxAttempts, Execute(c, i)
      PROVE  Inv'
  <2>1. UNCHANGED <<pc, hash, outcome, attempt, known, kept, executed, lost, unverified>>
    BY <1>1 DEF Execute, callVars, hashVars, history
  <2>2. /\ orders[c][i] = "flight"
        /\ orders' \in [Call -> [1 .. MaxAttempts -> OrderState]]
        /\ \A d \in Call \ {c} : orders'[d] = orders[d]
        /\ \A j \in 1 .. MaxAttempts : orders'[c][j] = IF j = i THEN "open" ELSE orders[c][j]
    BY <1>1, SetOrderEffect DEF Execute, OrderState
  <2>3. ASSUME NEW d \in Call, NEW j \in 1 .. MaxAttempts
        PROVE  \/ orders'[d][j] = orders[d][j]
               \/ orders[d][j] = "flight" /\ orders'[d][j] = "open"
    BY <2>2
  <2>4. ASSUME NEW d \in Call
        PROVE  Makes(d)' /\ Waits(d)'
    <3>1. \A j \in 1 .. MaxAttempts : orders[d][j] = "none" => orders'[d][j] = "none"
      BY <2>3
    <3>2. Waits(d)'
      BY <2>1, <3>1 DEF Local, Waits
    <3>3. Makes(d)'
      BY <2>1, <3>1 DEF Local, Makes, FirstWrite
    <3> QED
      BY <3>2, <3>3
  <2>5. ASSUME NEW d \in Call
        PROVE  Holds(d)' /\ Refuses(d)'
    BY <2>1, <2>3 DEF Local, Holds, Refuses, FirstWrite, Alive
  <2>6. \A d \in Call, j \in 1 .. MaxAttempts : orders'[d][j] # "none" => orders[d][j] # "none"
    BY <2>3
  <2>7. ASSUME NEW d \in Call
        PROVE  Passes(d)'
    <3>1. Passes(d) /\ known'[d] = known[d]
      BY <2>1 DEF Local
    <3> HIDE DEF Inv, Types
    <3> QED
      BY <2>6, <3>1 DEF Passes
  <2> QED
    BY <2>1, <2>2, <2>4, <2>5, <2>7 DEF Local, VerifiedInside, HeldHash, HeldOnce
<1>2. ASSUME NEW c \in Call, GatewayForgets(c)
      PROVE  Inv'
  <2>1. /\ UNCHANGED <<pc, hash, outcome, attempt, orders, kept, executed, lost, unverified>>
        /\ known' = [known EXCEPT ![c] = "forgotten"]
    BY <1>2 DEF GatewayForgets, callVars, hashVars, history
  <2>2. \A d \in Call : Local(d)'
    BY <2>1 DEF Local, Holds, Makes, Waits, Refuses, Passes, FirstWrite
  <2> QED
    BY <2>1, <2>2 DEF VerifiedInside, HeldHash, HeldOnce, IdState
<1>3. ASSUME UNCHANGED <<pc, hash, outcome, attempt, orders, known, kept, executed, lost,
                         unverified>>
      PROVE  Inv'
  BY <1>3 DEF Local, Holds, Makes, Waits, Refuses, Passes, FirstWrite, VerifiedInside,
              HeldHash, HeldOnce
<1>4. ASSUME \/ \E m \in Mode : SetMode(m)
             \/ \E halt \in Halt : SetHalt(halt)
             \/ NextDay
      PROVE  Inv'
  BY <1>3, <1>4 DEF SetMode, SetHalt, NextDay, callVars, hashVars, brokerVars, history
<1>5. ASSUME Restart
      PROVE  Inv'
  <2>1. /\ UNCHANGED <<hash, outcome, attempt, orders, known, kept, lost>>
        /\ pc' = [c \in Call |-> IF pc[c] = "idle" THEN "idle" ELSE "done"]
        /\ unverified' = TRUE
    BY <1>5 DEF Restart, brokerVars
  <2>2. Types'
    BY <2>1 DEF Pc
  <2>3. \A d \in Call : Local(d)'
    BY <2>1 DEF Local, Holds, Makes, Waits, Refuses, Passes, FirstWrite, Early, InOms
  <2> QED
    BY <2>1, <2>2, <2>3 DEF VerifiedInside, HeldHash, HeldOnce
<1> QED
  BY <1>1, <1>2, <1>4, <1>5 DEF Environment

LEMMA StutterInv ==
    ASSUME Inv, UNCHANGED vars
    PROVE  Inv'
BY DEF vars, callVars, hashVars, brokerVars, history, Inv, Types, Local, Holds, Makes, Waits,
       Refuses, Passes, FirstWrite, VerifiedInside, HeldHash, HeldOnce

THEOREM Invariance == Spec => []Inv
<1>1. Init => Inv
  BY InitInv
<1>2. Inv /\ [Next]_vars => Inv'
  BY BeginInv, HashStepInv, DurableStepInv, OmsStepInv, EnvironmentInv, StutterInv DEF Next
<1> QED
  BY <1>1, <1>2, PTL DEF Spec

-----------------------------------------------------------------------------
\* One decision hash opens one order (ExecutionBridge.handle, the atomic
\* reserve): two calls that hold one hash hold it because it was lost, and an
\* order whose call does not hold the hash any more was submitted again.
THEOREM OneOrder == Spec => []OneOrderPerDecision
<1>1. Inv => OneOrderPerDecision
  <2> SUFFICES ASSUME Inv, NEW o \in Opened, NEW p \in Opened,
                      o # p, hash[o[1]] = hash[p[1]]
               PROVE  \/ hash[o[1]] \in lost
                      \/ IF o[1] = p[1] THEN known[o[1]] = "forgotten"
                                        ELSE SubmittedAgain(o) \/ SubmittedAgain(p)
    BY DEF OneOrderPerDecision
  <2> USE DEF Inv, Types
  <2>1. /\ o \in Call \X (1 .. MaxAttempts) /\ orders[o[1]][o[2]] = "open"
        /\ p \in Call \X (1 .. MaxAttempts) /\ orders[p[1]][p[2]] = "open"
    BY DEF Opened
  <2>2. CASE o[1] = p[1]
    <3>1. o[2] # p[2]
      BY <2>1, <2>2
    <3>2. known[o[1]] \notin {"new", "known"}
      BY <2>1, <2>2, <3>1 DEF Local, Passes
    <3> QED
      BY <2>1, <2>2, <3>2 DEF IdState
  <2>3. CASE o[1] # p[1] /\ ~ SubmittedAgain(o) /\ ~ SubmittedAgain(p)
    <3>1. o[2] = attempt[o[1]]
      <4>1. ~ o[2] > attempt[o[1]] /\ ~ o[2] < attempt[o[1]]
        BY <2>1, <2>3 DEF Local, Waits, SubmittedAgain
      <4> QED
        BY <2>1, <4>1
    <3>2. p[2] = attempt[p[1]]
      <4>1. ~ p[2] > attempt[p[1]] /\ ~ p[2] < attempt[p[1]]
        BY <2>1, <2>3 DEF Local, Waits, SubmittedAgain
      <4> QED
        BY <2>1, <4>1
    <3>3. o[1] \in kept /\ p[1] \in kept
      BY <2>1, <3>1, <3>2 DEF Local, Refuses, Alive
    <3> QED
      BY <2>1, <2>3, <3>3 DEF HeldOnce
  <2> QED
    BY <2>2, <2>3
<1> QED
  BY <1>1, Invariance, PTL

-----------------------------------------------------------------------------
\* A kill switch that is armed admits nobody (the second check of handle and
\* broker_submit_block_reason): a call becomes "sending" only through Submit,
\* and arming it takes down who was.
LEMMA HaltHolds == Spec => []HaltAdmitsNoneNew
<1>1. Init => HaltAdmitsNoneNew
  BY DEF Init, HaltAdmitsNoneNew
<1>2. Inv /\ HaltAdmitsNoneNew /\ [Next]_vars => HaltAdmitsNoneNew'
  <2> SUFFICES ASSUME Inv, HaltAdmitsNoneNew, [Next]_vars
               PROVE  HaltAdmitsNoneNew'
    OBVIOUS
  <2> USE DEF Inv, Types
  <2>1. ASSUME NEW c \in Call, NEW h \in Hash, Begin(c, h)
        PROVE  HaltAdmitsNoneNew'
    BY <2>1 DEF Begin, Step, HaltAdmitsNoneNew, planeVars
  <2>2. ASSUME NEW c \in Call, HashStep(c)
        PROVE  HaltAdmitsNoneNew'
    <3>1. UNCHANGED <<killed, atBroker>>
      BY <2>2 DEF HashStep, planeVars
    <3>2. pc'[c] # "sending" /\ \A d \in Call \ {c} : pc'[d] = pc[d]
      BY <2>2 DEF HashStep, EnsureHashesLoaded, Lookup, Gate, CheckCanary, MarkExecuted,
                  Reserve, KeepOrRelease, CountCanary, Step
    <3> QED
      BY <3>1, <3>2 DEF HaltAdmitsNoneNew
  <2>3. ASSUME NEW c \in Call, DurableStep(c)
        PROVE  HaltAdmitsNoneNew'
    <3>1. UNCHANGED <<killed, atBroker>>
      BY <2>3 DEF DurableStep, history
    <3>2. pc'[c] # "sending" /\ \A d \in Call \ {c} : pc'[d] = pc[d]
      BY <2>3 DEF DurableStep, CopyOrder, WriteCopy, Settle, SaveAmbiguous, Step
    <3> QED
      BY <3>1, <3>2 DEF HaltAdmitsNoneNew
  <2>4. ASSUME NEW c \in Call, OmsStep(c)
        PROVE  HaltAdmitsNoneNew'
    <3>1. UNCHANGED <<killed, atBroker>>
      BY <2>4 DEF OmsStep, planeVars, history
    <3>2. /\ pc'[c] = "sending" => ~ killed
          /\ \A d \in Call \ {c} : pc'[d] = pc[d]
      BY <2>4 DEF OmsStep, Recheck, GuardSubmit, OmsRefuses, Submit, Return, Retry, Step
    <3> QED
      BY <3>1, <3>2 DEF HaltAdmitsNoneNew
  <2>5. ASSUME Environment
        PROVE  HaltAdmitsNoneNew'
    <3>1. ASSUME UNCHANGED <<pc, killed, atBroker>>
          PROVE  HaltAdmitsNoneNew'
      BY <3>1 DEF HaltAdmitsNoneNew
    <3>2. CASE \/ \E c \in Call : GatewayForgets(c) \/ \E i \in 1 .. MaxAttempts : Execute(c, i)
               \/ \E m \in Mode : SetMode(m)
               \/ NextDay
      BY <3>1, <3>2 DEF GatewayForgets, Execute, SetMode, NextDay, callVars, planeVars, history
    <3>3. ASSUME NEW halt \in Halt, SetHalt(halt)
          PROVE  HaltAdmitsNoneNew'
      BY <3>3 DEF SetHalt, callVars, HaltAdmitsNoneNew
    <3>4. ASSUME Restart
          PROVE  HaltAdmitsNoneNew'
      BY <3>4 DEF Restart, HaltAdmitsNoneNew
    <3> QED
      BY <2>5, <3>2, <3>3, <3>4 DEF Environment
  <2>6. ASSUME UNCHANGED vars
        PROVE  HaltAdmitsNoneNew'
    BY <2>6 DEF vars, callVars, planeVars, history, HaltAdmitsNoneNew
  <2> QED
    BY <2>1, <2>2, <2>3, <2>4, <2>5, <2>6 DEF Next
<1> QED
  BY <1>1, <1>2, Invariance, PTL DEF Spec

-----------------------------------------------------------------------------
\* SHADOW admits nobody (GuardedOmsSubmitPort): a call is in the OMS only
\* through a guard that read another mode, and setting SHADOW takes down who was.
LEMMA ShadowHolds == Spec => []ShadowAdmitsNoneNew
<1>1. Init => ShadowAdmitsNoneNew
  BY DEF Init, ShadowAdmitsNoneNew
<1>2. Inv /\ ShadowAdmitsNoneNew /\ [Next]_vars => ShadowAdmitsNoneNew'
  <2> SUFFICES ASSUME Inv, ShadowAdmitsNoneNew, [Next]_vars
               PROVE  ShadowAdmitsNoneNew'
    OBVIOUS
  <2> USE DEF Inv, Types
  <2>1. ASSUME NEW c \in Call, NEW h \in Hash, Begin(c, h)
        PROVE  ShadowAdmitsNoneNew'
    BY <2>1 DEF Begin, Step, ShadowAdmitsNoneNew, planeVars
  <2>2. ASSUME NEW c \in Call, HashStep(c)
        PROVE  ShadowAdmitsNoneNew'
    <3>1. UNCHANGED <<opsMode, pastGuard>>
      BY <2>2 DEF HashStep, planeVars
    <3>2. pc'[c] \notin {"checks", "sending"} /\ \A d \in Call \ {c} : pc'[d] = pc[d]
      BY <2>2 DEF HashStep, EnsureHashesLoaded, Lookup, Gate, CheckCanary, MarkExecuted,
                  Reserve, KeepOrRelease, CountCanary, Step
    <3> QED
      BY <3>1, <3>2 DEF ShadowAdmitsNoneNew
  <2>3. ASSUME NEW c \in Call, DurableStep(c)
        PROVE  ShadowAdmitsNoneNew'
    <3>1. UNCHANGED <<opsMode, pastGuard>>
      BY <2>3 DEF DurableStep, history
    <3>2. pc'[c] \notin {"checks", "sending"} /\ \A d \in Call \ {c} : pc'[d] = pc[d]
      BY <2>3 DEF DurableStep, CopyOrder, WriteCopy, Settle, SaveAmbiguous, Step
    <3> QED
      BY <3>1, <3>2 DEF ShadowAdmitsNoneNew
  <2>4. ASSUME NEW c \in Call, OmsStep(c)
        PROVE  ShadowAdmitsNoneNew'
    <3>1. UNCHANGED <<opsMode, pastGuard>>
      BY <2>4 DEF OmsStep, planeVars, history
    <3>2. /\ pc'[c] = "checks" => opsMode # "shadow"
          /\ pc'[c] = "sending" => pc[c] = "checks"
          /\ \A d \in Call \ {c} : pc'[d] = pc[d]
      BY <2>4 DEF OmsStep, Recheck, GuardSubmit, OmsRefuses, Submit, Return, Retry, Step
    <3> QED
      BY <3>1, <3>2 DEF ShadowAdmitsNoneNew
  <2>5. ASSUME Environment
        PROVE  ShadowAdmitsNoneNew'
    <3>1. ASSUME UNCHANGED <<pc, opsMode, pastGuard>>
          PROVE  ShadowAdmitsNoneNew'
      BY <3>1 DEF ShadowAdmitsNoneNew
    <3>2. CASE \/ \E c \in Call : GatewayForgets(c) \/ \E i \in 1 .. MaxAttempts : Execute(c, i)
               \/ \E halt \in Halt : SetHalt(halt)
               \/ NextDay
      BY <3>1, <3>2 DEF GatewayForgets, Execute, SetHalt, NextDay, callVars, planeVars, history
    <3>3. ASSUME NEW m \in Mode, SetMode(m)
          PROVE  ShadowAdmitsNoneNew'
      BY <3>3 DEF SetMode, callVars, ShadowAdmitsNoneNew
    <3>4. ASSUME Restart
          PROVE  ShadowAdmitsNoneNew'
      BY <3>4 DEF Restart, ShadowAdmitsNoneNew
    <3> QED
      BY <2>5, <3>2, <3>3, <3>4 DEF Environment
  <2>6. ASSUME UNCHANGED vars
        PROVE  ShadowAdmitsNoneNew'
    BY <2>6 DEF vars, callVars, planeVars, history, ShadowAdmitsNoneNew
  <2> QED
    BY <2>1, <2>2, <2>3, <2>4, <2>5, <2>6 DEF Next
<1> QED
  BY <1>1, <1>2, Invariance, PTL DEF Spec

\* An armed kill switch and the SHADOW mode let nobody in that was not in before.
THEOREM DoorsHold == Spec => []ClosedDoorsAdmitNone
BY HaltHolds, ShadowHolds, PTL DEF ClosedDoorsAdmitNone

-----------------------------------------------------------------------------
\* A call that marked its hash in shadow mode is over.
ShadowIsDone == \A c \in Call : outcome[c] = "shadow" => pc[c] = "done"

\* Whoever is left of a hash's holders and markers when one call moves.
LEMMA ReasonStays ==
    ASSUME BlockedForAReason, NEW c \in Call,
           \A d \in Call \ {c} : /\ hash'[d] = hash[d] /\ outcome'[d] = outcome[d]
                                 /\ d \in kept => d \in kept',
           \A h \in (executed \ restored)' :
               \/ h \in executed \ restored
               \/ h = hash'[c] /\ (c \in kept' \/ outcome'[c] = "shadow"),
           (c \in kept \/ outcome[c] = "shadow") /\ hash[c] \in (executed \ restored)'
               => hash'[c] = hash[c] /\ (c \in kept' \/ outcome'[c] = "shadow")
    PROVE  BlockedForAReason'
<1> SUFFICES ASSUME NEW h \in (executed \ restored)'
             PROVE  \E d \in Call : hash'[d] = h /\ (d \in kept' \/ outcome'[d] = "shadow")
  BY DEF BlockedForAReason
<1>1. CASE h = hash'[c] /\ (c \in kept' \/ outcome'[c] = "shadow")
  BY <1>1
<1>2. CASE h \in executed \ restored
  <2>1. PICK d \in Call : hash[d] = h /\ (d \in kept \/ outcome[d] = "shadow")
    BY <1>2 DEF BlockedForAReason
  <2> QED
    BY <2>1
<1> QED
  BY <1>1, <1>2

LEMMA ReasonInvariance == Spec => [](BlockedForAReason /\ ShadowIsDone)
<1>1. Init => BlockedForAReason /\ ShadowIsDone
  BY DEF Init, BlockedForAReason, ShadowIsDone
<1>2. Inv /\ BlockedForAReason /\ ShadowIsDone /\ [Next]_vars => (BlockedForAReason /\ ShadowIsDone)'
  <2> SUFFICES ASSUME Inv, BlockedForAReason, ShadowIsDone, [Next]_vars
               PROVE  BlockedForAReason' /\ ShadowIsDone'
    OBVIOUS
  <2> USE DEF Inv, Types
  <2>0. ASSUME UNCHANGED <<hash, outcome, kept, executed, restored>>,
               \A c \in Call : pc[c] = "done" => pc'[c] = "done"
        PROVE  BlockedForAReason' /\ ShadowIsDone'
    BY <2>0 DEF BlockedForAReason, ShadowIsDone
  <2>1. ASSUME NEW c \in Call, NEW h \in Hash, Begin(c, h)
        PROVE  BlockedForAReason' /\ ShadowIsDone'
    <3>1. /\ pc[c] = "idle" /\ c \notin kept /\ outcome[c] # "shadow"
          /\ UNCHANGED <<outcome, kept, executed, restored>>
          /\ hash' = [hash EXCEPT ![c] = h] /\ pc' = [pc EXCEPT ![c] = "load"]
      BY <2>1 DEF Begin, Step, Local, Holds, Early, ShadowIsDone, hashVars
    <3>2. BlockedForAReason'
      BY <3>1, ReasonStays
    <3> QED
      BY <3>1, <3>2 DEF ShadowIsDone
  <2>2. ASSUME NEW c \in Call, HashStep(c)
        PROVE  BlockedForAReason' /\ ShadowIsDone'
    <3>0. hash' = hash
      BY <2>2 DEF HashStep
    <3>1. CASE EnsureHashesLoaded(c) /\ UNCHANGED <<canary, outcome, kept>>
      <4>1. \A h \in (executed \ restored)' : h \in executed \ restored
        BY <3>1 DEF EnsureHashesLoaded, hashVars
      <4>2. BlockedForAReason'
        BY <3>0, <3>1, <4>1, ReasonStays
      <4> QED
        BY <3>1, <4>2 DEF EnsureHashesLoaded, Step, ShadowIsDone
    <3>2. CASE /\ Lookup(c) \/ Gate(c)
               /\ UNCHANGED <<hashVars, canary, outcome, kept, lost, restored>>
      BY <2>0, <3>0, <3>2 DEF Lookup, Gate, Step, hashVars
    <3>3. CASE /\ CheckCanary(c) \/ MarkExecuted(c)
               /\ UNCHANGED <<order, unverified, kept, lost, restored>>
      <4>1. \/ UNCHANGED <<executed, outcome>>
            \/ /\ executed' = executed \cup {hash[c]}
               /\ outcome' = [outcome EXCEPT ![c] = "shadow"] /\ pc' = [pc EXCEPT ![c] = "done"]
        BY <3>3 DEF CheckCanary, MarkExecuted, Step, End
      <4>2. pc[c] = "canary" /\ \A d \in Call \ {c} : pc'[d] = pc[d]
        BY <3>3 DEF CheckCanary, MarkExecuted, Step
      <4>3. BlockedForAReason'
        BY <3>0, <3>3, <4>1, ReasonStays
      <4> QED
        BY <4>1, <4>2, <4>3 DEF ShadowIsDone
    <3>4. CASE Reserve(c) /\ UNCHANGED <<unverified, outcome, restored>>
      <4>1. /\ executed' \subseteq executed \cup {hash[c]} /\ kept' \in {kept, kept \cup {c}}
            /\ executed' = executed \/ c \in kept'
        BY <3>4 DEF Reserve
      <4>2. BlockedForAReason'
        BY <3>0, <3>4, <4>1, ReasonStays
      <4> QED
        BY <3>4, <4>2 DEF Reserve, Step, ShadowIsDone
    <3>5. CASE KeepOrRelease(c) /\ UNCHANGED <<unverified, canary, outcome, lost, restored>>
      <4>1. \/ UNCHANGED <<executed, kept>>
            \/ executed' = executed \ {hash[c]} /\ kept' = kept \ {c}
        BY <3>5 DEF KeepOrRelease
      <4>2. BlockedForAReason'
        BY <3>0, <3>5, <4>1, ReasonStays
      <4> QED
        BY <3>5, <4>2 DEF KeepOrRelease, Step, ShadowIsDone
    <3>6. CASE CountCanary(c) /\ UNCHANGED <<hashVars, outcome, kept, lost, restored>>
      BY <2>0, <3>0, <3>6 DEF CountCanary, Step, hashVars
    <3> QED
      BY <2>2, <3>1, <3>2, <3>3, <3>4, <3>5, <3>6 DEF HashStep
  <2>3. ASSUME NEW c \in Call, DurableStep(c)
        PROVE  BlockedForAReason' /\ ShadowIsDone'
    <3>1. UNCHANGED <<hash, outcome, kept, executed, restored>>
      BY <2>3 DEF DurableStep, hashVars, history
    <3>2. \A d \in Call : pc[d] = "done" => pc'[d] = "done"
      BY <2>3 DEF DurableStep, CopyOrder, WriteCopy, Settle, SaveAmbiguous, Step
    <3> QED
      BY <2>0, <3>1, <3>2
  <2>4. ASSUME NEW c \in Call, OmsStep(c)
        PROVE  BlockedForAReason' /\ ShadowIsDone'
    <3>1. UNCHANGED <<hash, kept, executed, restored>>
      BY <2>4 DEF OmsStep, hashVars, history
    <3>2. /\ pc[c] # "done" /\ outcome[c] # "shadow" /\ outcome'[c] # "shadow"
          /\ \A d \in Call \ {c} : pc'[d] = pc[d] /\ outcome'[d] = outcome[d]
      BY <2>4 DEF OmsStep, Recheck, GuardSubmit, OmsRefuses, Submit, Return, Retry, Step, End,
                  ShadowIsDone
    <3>3. BlockedForAReason'
      BY <3>1, <3>2, ReasonStays
    <3> QED
      BY <3>2, <3>3 DEF ShadowIsDone
  <2>5. ASSUME Environment
        PROVE  BlockedForAReason' /\ ShadowIsDone'
    <3>1. CASE \/ \E c \in Call : GatewayForgets(c) \/ \E i \in 1 .. MaxAttempts : Execute(c, i)
               \/ \E m \in Mode : SetMode(m)
               \/ \E halt \in Halt : SetHalt(halt)
               \/ NextDay
      BY <2>0, <3>1 DEF GatewayForgets, Execute, SetMode, SetHalt, NextDay, callVars, hashVars,
                        history
    <3>2. CASE Restart
      BY <3>2 DEF Restart, BlockedForAReason, ShadowIsDone
    <3> QED
      BY <2>5, <3>1, <3>2 DEF Environment
  <2>6. ASSUME UNCHANGED vars
        PROVE  BlockedForAReason' /\ ShadowIsDone'
    BY <2>0, <2>6 DEF vars, callVars, hashVars, history
  <2> QED
    BY <2>1, <2>2, <2>3, <2>4, <2>5, <2>6 DEF Next
<1> QED
  BY <1>1, <1>2, Invariance, PTL DEF Spec

\* A hash blocks for a reason (KeepOrRelease, Reserve, MarkExecuted).
THEOREM ReasonHolds == Spec => []BlockedForAReason
BY ReasonInvariance, PTL

-----------------------------------------------------------------------------
Past == {"canary", "reserve", "copy", "write", "recheck", "oms", "checks", "sending",
         "settle", "save", "keep", "count"}
Failed(d) == outcome[d] = "unknown"

\* Whoever was over when a call began is over; a call that has not begun has
\* made no order; an answered failure is on record, or its record was lost; and
\* a call past the gate, or with an order, began after no other failure.
OthersOver ==
    /\ before \in [Call -> SUBSET Call]
    /\ \A c \in Call : \A d \in before[c] : pc[d] = "done"
NotBegun == \A c \in Call : pc[c] = "idle" => \A i \in 1 .. MaxAttempts : orders[c][i] = "none"
Recorded ==
    \A d \in Call : Failed(d) => pc[d] = "settle" \/ d \in ambiguous \cup lostMarks
Cleared ==
    \A c \in Call : pc[c] \in Past \/ Sent(c) =>
        \A d \in before[c] \ lostMarks : ~ Failed(d)
Failures == OthersOver /\ NotBegun /\ Recorded /\ Cleared

\* An answered gateway failure keeps later calls away from the broker (the
\* record_ambiguous_outcome of the bridge and the Phase A gate), while its record lasts.
THEOREM FailureBlocks == Spec => []NoRiskAfterGatewayFailure
<1>1. Init => Failures
  BY DEF Init, Failures, OthersOver, NotBegun, Recorded, Cleared, Failed
<1>2. Inv /\ Failures /\ [Next]_vars => Failures'
  <2> SUFFICES ASSUME Inv, Failures, [Next]_vars
               PROVE  Failures'
    OBVIOUS
  <2> USE DEF Inv, Types
  <2>1. ASSUME NEW c \in Call, NEW h \in Hash, Begin(c, h)
        PROVE  Failures'
    <3>1. /\ pc[c] = "idle" /\ pc' = [pc EXCEPT ![c] = "load"]
          /\ UNCHANGED <<outcome, orders, ambiguous, lostMarks>>
          /\ \A d \in Call \ {c} : before'[d] = before[d]
          /\ before' \in [Call -> SUBSET Call]
          /\ \A d \in before'[c] : pc[d] = "done"
      <4>1. before' = [before EXCEPT ![c] =
                          {d \in Call : pc[d] = "done" /\ outcome[d] \in Unclear}]
        BY <2>1 DEF Begin
      <4>2. before \in [Call -> SUBSET Call]
        BY DEF Failures, OthersOver
      <4>3. before' \in [Call -> SUBSET Call] /\ before'[c] \subseteq {d \in Call : pc[d] = "done"}
        BY <4>1, <4>2
      <4> QED
        BY <2>1, <4>1, <4>2, <4>3 DEF Begin, Step, planeVars, brokerVars
    <3>2. OthersOver'
      BY <3>1 DEF Failures, OthersOver
    <3>3. NotBegun' /\ Recorded'
      BY <3>1 DEF Failures, NotBegun, Recorded, Failed
    <3>4. ~ Sent(c)' /\ pc'[c] \notin Past
      BY <3>1 DEF Failures, NotBegun, Sent, Past
    <3>5. Cleared'
      BY <3>1, <3>4 DEF Failures, Cleared, Failed, Sent, Past
    <3> QED
      BY <3>2, <3>3, <3>5 DEF Failures
  <2>2. ASSUME NEW c \in Call, HashStep(c)
        PROVE  Failures'
    <3>1. UNCHANGED <<before, lostMarks, ambiguous, orders>>
      BY <2>2 DEF HashStep, planeVars, brokerVars
    <3>2. /\ pc[c] \notin {"idle", "done", "settle"} /\ pc'[c] # "idle"
          /\ \A d \in Call \ {c} : pc'[d] = pc[d] /\ outcome'[d] = outcome[d]
          /\ outcome'[c] \in {outcome[c], "shadow"}
          /\ pc'[c] \in Past => pc[c] \in Past \/ ambiguous = {}
      BY <2>2 DEF HashStep, EnsureHashesLoaded, Lookup, Gate, CheckCanary, MarkExecuted,
                  Reserve, KeepOrRelease, CountCanary, Step, End, Past
    <3>3. Failed(c)' => c \in ambiguous \cup lostMarks
      BY <3>2 DEF Failures, Recorded, Failed
    <3>4. Sent(c)' <=> Sent(c)
      BY <3>1 DEF Sent
    <3>5. OthersOver' /\ NotBegun'
      BY <3>1, <3>2 DEF Failures, OthersOver, NotBegun
    <3>6. Recorded'
      BY <3>1, <3>2, <3>3 DEF Failures, Recorded, Failed
    <3>7. ASSUME NEW e \in Call, pc'[e] \in Past \/ Sent(e)', NEW d \in before[e] \ lostMarks
          PROVE  ~ Failed(d)'
      <4>1. d \in Call /\ pc[d] = "done" /\ d # c
        BY <3>2, <3>7 DEF Failures, OthersOver
      <4>2. ambiguous = {} => ~ Failed(d)
        BY <3>7, <4>1 DEF Failures, Recorded
      <4>3. pc[e] \in Past \/ Sent(e) => ~ Failed(d)
        BY <3>7 DEF Failures, Cleared
      <4>4. pc[e] \in Past \/ Sent(e) \/ ambiguous = {}
        BY <3>1, <3>2, <3>4, <3>7 DEF Sent
      <4> QED
        BY <3>2, <4>1, <4>2, <4>3, <4>4 DEF Failed
    <3> QED
      BY <3>1, <3>5, <3>6, <3>7 DEF Failures, Cleared
  <2>3. ASSUME NEW c \in Call, DurableStep(c)
        PROVE  Failures'
    <3>1. UNCHANGED <<before, lostMarks, orders, outcome>>
      BY <2>3 DEF DurableStep, brokerVars, history
    <3>2. /\ pc[c] \in Past /\ pc[c] # "done" /\ pc'[c] # "idle"
          /\ \A d \in Call \ {c} : pc'[d] = pc[d]
          /\ ambiguous \subseteq ambiguous'
          /\ pc[c] = "settle" /\ Failed(c) => c \in ambiguous'
      BY <2>3 DEF DurableStep, CopyOrder, WriteCopy, Settle, SaveAmbiguous, Step, Past, Failed
    <3>3. OthersOver' /\ NotBegun'
      BY <3>1, <3>2 DEF Failures, OthersOver, NotBegun
    <3>4. Recorded'
      BY <3>1, <3>2 DEF Failures, Recorded, Failed
    <3>5. Cleared'
      BY <3>1, <3>2 DEF Failures, Cleared, Failed, Sent
    <3> QED
      BY <3>3, <3>4, <3>5 DEF Failures
  <2>4. ASSUME NEW c \in Call, OmsStep(c)
        PROVE  Failures'
    <3>1. UNCHANGED <<before, lostMarks, ambiguous>>
      BY <2>4 DEF OmsStep, planeVars, history
    <3>2. /\ pc[c] \in Past /\ pc[c] # "done" /\ pc'[c] # "idle"
          /\ \A d \in Call \ {c} : pc'[d] = pc[d] /\ outcome'[d] = outcome[d]
      BY <2>4 DEF OmsStep, Recheck, GuardSubmit, OmsRefuses, Submit, Return, Retry, Step, End, Past
    <3>3. \A d \in Call \ {c} : orders'[d] = orders[d]
      BY <2>4, SetOrderEffect DEF OmsStep, Recheck, GuardSubmit, OmsRefuses, Submit, Return,
                                  Retry, OrderState, brokerVars
    <3>4. Failed(c)' => pc'[c] = "settle" \/ (Failed(c) /\ pc[c] # "settle")
      BY <2>4 DEF OmsStep, Recheck, GuardSubmit, OmsRefuses, Submit, Return, Retry, Step, End,
                  Failed
    <3>8. OthersOver'
      BY <3>1, <3>2 DEF Failures, OthersOver
    <3>9. NotBegun
      BY DEF Failures
    <3> HIDE DEF Inv, Types
    <3>5. NotBegun'
      BY <3>2, <3>3, <3>9 DEF NotBegun
    <3>6. Recorded'
      BY <3>1, <3>2, <3>4 DEF Failures, Recorded, Failed
    <3>7. ASSUME NEW e \in Call, pc'[e] \in Past \/ Sent(e)', NEW d \in before[e] \ lostMarks
          PROVE  ~ Failed(d)'
      <4>1. d \in Call /\ pc[d] = "done" /\ d # c
        BY <3>2, <3>7 DEF Failures, OthersOver
      <4>2. pc[e] \in Past \/ Sent(e)
        BY <3>2, <3>3, <3>7 DEF Sent
      <4>3. ~ Failed(d)
        BY <3>7, <4>2 DEF Failures, Cleared
      <4> QED
        BY <3>2, <4>1, <4>3 DEF Failed
    <3> QED
      BY <3>1, <3>5, <3>6, <3>7, <3>8 DEF Failures, Cleared
  <2>5. ASSUME Environment
        PROVE  Failures'
    <3>1. ASSUME UNCHANGED <<pc, outcome, ambiguous, orders, before, lostMarks>>
          PROVE  Failures'
      BY <3>1 DEF Failures, OthersOver, NotBegun, Recorded, Cleared, Failed, Sent
    <3>2. CASE \/ \E c \in Call : GatewayForgets(c)
               \/ \E m \in Mode : SetMode(m)
               \/ \E halt \in Halt : SetHalt(halt)
               \/ NextDay
      BY <3>1, <3>2 DEF GatewayForgets, SetMode, SetHalt, NextDay, callVars, planeVars,
                        brokerVars, history
    <3>3. ASSUME NEW c \in Call, NEW i \in 1 .. MaxAttempts, Execute(c, i)
          PROVE  Failures'
      <4>1. UNCHANGED <<pc, outcome, ambiguous, before, lostMarks>>
        BY <3>3 DEF Execute, callVars, planeVars, history
      <4>2. /\ orders[c][i] = "flight"
            /\ \A d \in Call \ {c} : orders'[d] = orders[d]
            /\ \A j \in 1 .. MaxAttempts : orders'[c][j] = IF j = i THEN "open" ELSE orders[c][j]
        BY <3>3, SetOrderEffect DEF Execute, OrderState
      <4>3. NotBegun'
        BY <4>1, <4>2 DEF Failures, NotBegun
      <4>4. \A e \in Call : Sent(e)' => Sent(e)
        BY <4>2 DEF Sent
      <4>5. Cleared'
        BY <4>1, <4>4 DEF Failures, Cleared, Failed
      <4> QED
        BY <4>1, <4>3, <4>5 DEF Failures, OthersOver, Recorded, Failed
    <3>4. CASE Restart
      <4>1. /\ UNCHANGED <<outcome, orders, before>>
            /\ pc' = [c \in Call |-> IF pc[c] = "idle" THEN "idle" ELSE "done"]
            /\ lostMarks' = lostMarks \cup ({c \in Call : outcome[c] = "unknown"} \ ambiguous')
        BY <3>4 DEF Restart, brokerVars
      <4>2. OthersOver' /\ NotBegun' /\ Recorded'
        BY <4>1 DEF Failures, OthersOver, NotBegun, Recorded, Failed
      <4>3. Cleared'
        BY <4>1 DEF Failures, Cleared, Failed, Sent, Past
      <4> QED
        BY <4>2, <4>3 DEF Failures
    <3> QED
      BY <2>5, <3>2, <3>3, <3>4 DEF Environment
  <2>6. ASSUME UNCHANGED vars
        PROVE  Failures'
    <3>1. UNCHANGED <<pc, outcome, ambiguous, orders, before, lostMarks>>
      BY <2>6 DEF vars, callVars, planeVars, brokerVars, history
    <3> HIDE DEF Inv, Types
    <3> QED
      BY <3>1 DEF Failures, OthersOver, NotBegun, Recorded, Cleared, Failed, Sent
  <2> QED
    BY <2>1, <2>2, <2>3, <2>4, <2>5, <2>6 DEF Next
<1>3. Failures => NoRiskAfterGatewayFailure
  BY DEF Failures, Cleared, NoRiskAfterGatewayFailure, Failed
<1> QED
  BY <1>1, <1>2, <1>3, Invariance, PTL DEF Spec
-----------------------------------------------------------------------------
(* The sequences of hashes. *)

LEMMA SeqRange ==
    ASSUME NEW T, NEW s \in Seq(T)
    PROVE  /\ Len(s) \in Nat /\ DOMAIN s = 1 .. Len(s)
           /\ \A i \in 1 .. Len(s) : s[i] \in T
           /\ Range(s) = {s[i] : i \in 1 .. Len(s)} /\ Range(s) \subseteq T
<1>1. Len(s) \in Nat /\ DOMAIN s = 1 .. Len(s) /\ \A i \in 1 .. Len(s) : s[i] \in T
  BY LenProperties
<1> QED
  BY <1>1 DEF Range

\* Every nonempty set of naturals has a least element.
LEMMA LeastNatural ==
    ASSUME NEW S, S \subseteq Nat, S # {}
    PROVE  \E n \in S : \A m \in S : n <= m
<1>1. \E x \in S : \A y \in S : ~ (<<y, x>> \in OpToRel(<, Nat))
  BY NatLessThanWellFounded, WFMin, Zenon
<1>2. PICK x \in S : \A y \in S : ~ (y < x)
  BY <1>1 DEF OpToRel
<1> QED
  BY <1>2

LEMMA AppendedSeq ==
    ASSUME NEW T, NEW s \in Seq(T), NEW x \in T
    PROVE  /\ Append(s, x) \in Seq(T) /\ Len(Append(s, x)) = Len(s) + 1
           /\ Range(Append(s, x)) = Range(s) \cup {x}
           /\ IsInjective(s) /\ x \notin Range(s) => IsInjective(Append(s, x))
<1> DEFINE t == Append(s, x)
<1>1. /\ t \in Seq(T) /\ Len(t) = Len(s) + 1 /\ Len(s) \in Nat
      /\ \A i \in 1 .. Len(s) : t[i] = s[i]
      /\ t[Len(s) + 1] = x
  BY AppendProperties, SeqRange
<1>2. /\ DOMAIN s = 1 .. Len(s) /\ Range(s) = {s[i] : i \in 1 .. Len(s)}
      /\ DOMAIN t = 1 .. Len(s) + 1 /\ Range(t) = {t[i] : i \in 1 .. Len(s) + 1}
  BY <1>1, SeqRange
<1> HIDE DEF t
<1>3. Range(t) = Range(s) \cup {x}
  BY <1>1, <1>2
<1>4. ASSUME IsInjective(s), x \notin Range(s) PROVE IsInjective(t)
  <2>1. \A i, j \in 1 .. Len(s) : s[i] = s[j] => i = j
    BY <1>2, <1>4 DEF IsInjective
  <2>2. \A i \in 1 .. Len(s) : s[i] # x
    BY <1>2, <1>4
  <2>3. \A i, j \in 1 .. Len(s) + 1 : t[i] = t[j] => i = j
    BY <1>1, <2>1, <2>2
  <2> QED
    BY <1>2, <2>3 DEF IsInjective
<1> QED
  BY <1>1, <1>3, <1>4 DEF t

\* The last n of a sequence (the slice [-n:], and the eviction loop).
LEMMA LastOfSeq ==
    ASSUME NEW T, NEW s \in Seq(T), NEW n \in Nat
    PROVE  /\ LastOf(s, n) \in Seq(T) /\ Len(LastOf(s, n)) <= n
           /\ Range(LastOf(s, n)) \subseteq Range(s)
           /\ IsInjective(s) => IsInjective(LastOf(s, n))
<1> DEFINE m == IF Len(s) > n THEN Len(s) - n + 1 ELSE 1
           t == SubSeq(s, m, Len(s))
<1>1. Len(s) \in Nat /\ DOMAIN s = 1 .. Len(s) /\ \A i \in 1 .. Len(s) : s[i] \in T
  BY SeqRange
<1>2. m \in 1 .. Len(s) + 1 /\ Len(s) - m + 1 <= n
  BY <1>1
<1> HIDE DEF m
<1>3. \A i \in m .. Len(s) : s[i] \in T
  BY <1>1, <1>2
<1>4. /\ t \in Seq(T)
      /\ Len(t) = Len(s) - m + 1
      /\ \A i \in 1 .. Len(s) - m + 1 : t[i] = s[m + i - 1]
  BY <1>1, <1>2, <1>3, SubSeqProperties
<1>5. DOMAIN t = 1 .. Len(s) - m + 1
  BY <1>4, SeqRange
<1>6. LastOf(s, n) = t
  BY DEF LastOf, m
<1> HIDE DEF t
<1>7. Range(t) \subseteq Range(s)
  BY <1>1, <1>2, <1>4, <1>5 DEF Range
<1>8. ASSUME IsInjective(s) PROVE IsInjective(t)
  <2>1. \A i, j \in 1 .. Len(s) : s[i] = s[j] => i = j
    BY <1>1, <1>8 DEF IsInjective
  <2>2. ASSUME NEW i \in 1 .. Len(s) - m + 1, NEW j \in 1 .. Len(s) - m + 1, t[i] = t[j]
        PROVE  i = j
    <3>1. m + i - 1 \in 1 .. Len(s) /\ m + j - 1 \in 1 .. Len(s)
      BY <1>1, <1>2
    <3>2. s[m + i - 1] = s[m + j - 1]
      BY <1>4, <2>2
    <3>3. m + i - 1 = m + j - 1
      BY <2>1, <3>1, <3>2
    <3> QED
      BY <1>1, <1>2, <3>3
  <2> QED
    BY <1>5, <2>2 DEF IsInjective
<1> QED
  BY <1>2, <1>4, <1>6, <1>7, <1>8

LEMMA RemovedSeq ==
    ASSUME NEW T, NEW s \in Seq(T), NEW h
    PROVE  /\ Removed(s, h) \in Seq(T) /\ Len(Removed(s, h)) <= Len(s)
           /\ IsInjective(s) => /\ IsInjective(Removed(s, h))
                                /\ Range(Removed(s, h)) = Range(s) \ {h}
<1>1. Len(s) \in Nat /\ DOMAIN s = 1 .. Len(s) /\ \A i \in 1 .. Len(s) : s[i] \in T
  BY SeqRange
<1>2. CASE h \notin Range(s)
  BY <1>1, <1>2 DEF Removed
<1>3. CASE h \in Range(s)
  <2> DEFINE P(i) == s[i] = h /\ \A j \in 1 .. i - 1 : s[j] # h
             k == CHOOSE i \in DOMAIN s : P(i)
             t == SubSeq(s, 1, k - 1)
             u == SubSeq(s, k + 1, Len(s))
  <2>1. \E i \in DOMAIN s : P(i)
    <3> DEFINE S == {i \in DOMAIN s : s[i] = h}
    <3>1. S \subseteq Nat /\ S # {}
      BY <1>1, <1>3 DEF Range
    <3> HIDE DEF S
    <3>2. PICK i \in S : \A j \in S : i <= j
      BY <3>1, LeastNatural
    <3> QED
      BY <1>1, <3>2 DEF S
  <2>2. k \in 1 .. Len(s) /\ s[k] = h
    <3>1. k \in DOMAIN s /\ P(k)
      BY <2>1
    <3> QED
      BY <1>1, <3>1
  <2>3. Removed(s, h) = t \o u
    BY <1>3 DEF Removed
  <2> HIDE DEF k
  <2>4. /\ t \in Seq(T) /\ Len(t) = k - 1 /\ \A i \in 1 .. k - 1 : t[i] = s[i]
    <3>1. \A i \in 1 .. k - 1 : s[i] \in T
      BY <1>1, <2>2
    <3>2. /\ t \in Seq(T) /\ Len(t) = IF 1 <= k - 1 THEN k - 1 - 1 + 1 ELSE 0
          /\ \A i \in 1 .. k - 1 - 1 + 1 : t[i] = s[1 + i - 1]
      BY <2>2, <3>1, SubSeqProperties
    <3> HIDE DEF t
    <3> QED
      BY <2>2, <3>2
  <2>5. /\ u \in Seq(T) /\ Len(u) = Len(s) - k /\ \A i \in 1 .. Len(s) - k : u[i] = s[k + i]
    <3>1. \A i \in k + 1 .. Len(s) : s[i] \in T
      BY <1>1, <2>2
    <3>2. /\ u \in Seq(T)
          /\ Len(u) = IF k + 1 <= Len(s) THEN Len(s) - (k + 1) + 1 ELSE 0
          /\ \A i \in 1 .. Len(s) - (k + 1) + 1 : u[i] = s[(k + 1) + i - 1]
      BY <1>1, <2>2, <3>1, SubSeqProperties
    <3> HIDE DEF u
    <3>3. Len(u) = Len(s) - k /\ Len(s) - (k + 1) + 1 = Len(s) - k
      <4> DEFINE n == Len(s)
      <4>1. n \in Nat /\ k \in 1 .. n
        BY <1>1, <2>2
      <4>2. Len(u) = IF k + 1 <= n THEN n - (k + 1) + 1 ELSE 0
        BY <3>2
      <4> HIDE DEF n
      <4>3. Len(u) = n - k /\ n - (k + 1) + 1 = n - k
        BY <4>1, <4>2
      <4> QED
        BY <4>3 DEF n
    <3>4. \A i \in 1 .. Len(s) - k : (k + 1) + i - 1 = k + i
      BY <1>1, <2>2
    <3> QED
      BY <3>2, <3>3, <3>4
  <2> DEFINE v == t \o u
  <2> HIDE DEF t, u
  <2>6. /\ v \in Seq(T) /\ Len(v) = Len(s) - 1
        /\ \A i \in 1 .. Len(s) - 1 : v[i] = IF i <= k - 1 THEN s[i] ELSE s[i + 1]
    <3>1. /\ v \in Seq(T) /\ Len(v) = Len(t) + Len(u)
          /\ \A i \in 1 .. Len(t) + Len(u) : v[i] = IF i <= Len(t) THEN t[i] ELSE u[i - Len(t)]
      BY <2>4, <2>5, ConcatProperties
    <3> HIDE DEF v
    <3>2. Len(t) + Len(u) = Len(s) - 1
      BY <1>1, <2>2, <2>4, <2>5
    <3>3. ASSUME NEW i \in 1 .. Len(s) - 1 PROVE v[i] = IF i <= k - 1 THEN s[i] ELSE s[i + 1]
      <4>1. CASE i <= k - 1
        BY <2>2, <2>4, <3>1, <3>2, <4>1
      <4>2. CASE ~ (i <= k - 1)
        <5>1. i - (k - 1) \in 1 .. Len(s) - k /\ k + (i - (k - 1)) = i + 1
          BY <1>1, <2>2, <4>2
        <5>2. v[i] = u[i - (k - 1)]
          BY <2>2, <2>4, <3>1, <3>2, <4>2
        <5>3. u[i - (k - 1)] = s[k + (i - (k - 1))]
          BY <2>5, <5>1
        <5> QED
          BY <4>2, <5>1, <5>2, <5>3
      <4> QED
        BY <4>1, <4>2
    <3> QED
      BY <3>1, <3>2, <3>3
  <2>7. DOMAIN v = 1 .. Len(s) - 1 /\ Range(v) = {v[i] : i \in 1 .. Len(s) - 1}
    BY <2>6, SeqRange
  <2> HIDE DEF v
  <2>8. ASSUME IsInjective(s) PROVE IsInjective(v) /\ Range(v) = Range(s) \ {h}
    <3>1. \A i, j \in 1 .. Len(s) : s[i] = s[j] => i = j
      BY <1>1, <2>8 DEF IsInjective
    <3>2. \A i, j \in 1 .. Len(s) - 1 : v[i] = v[j] => i = j
      BY <1>1, <2>2, <2>6, <3>1
    <3>3. ASSUME NEW i \in 1 .. Len(s) - 1 PROVE v[i] \in Range(s) \ {h}
      <4>1. \E j \in 1 .. Len(s) : j # k /\ v[i] = s[j]
        BY <1>1, <2>2, <2>6
      <4> QED
        BY <1>1, <2>2, <3>1, <4>1 DEF Range
    <3>4. ASSUME NEW i \in 1 .. Len(s), s[i] # h PROVE s[i] \in Range(v)
      <4>1. CASE i < k
        <5>1. i \in 1 .. Len(s) - 1 /\ v[i] = s[i]
          BY <1>1, <2>2, <2>6, <4>1
        <5> QED
          BY <2>7, <5>1
      <4>2. CASE i > k
        <5>1. i - 1 \in 1 .. Len(s) - 1 /\ ~ (i - 1 <= k - 1) /\ (i - 1) + 1 = i
          BY <1>1, <2>2, <4>2
        <5>2. v[i - 1] = s[i]
          BY <2>6, <5>1
        <5> QED
          BY <2>7, <5>1, <5>2
      <4> QED
        BY <1>1, <2>2, <3>4, <4>1, <4>2
    <3>5. Range(v) \subseteq Range(s) \ {h}
      BY <2>7, <3>3
    <3>6. Range(s) \ {h} \subseteq Range(v)
      BY <1>1, <3>4 DEF Range
    <3> QED
      BY <2>7, <3>2, <3>5, <3>6 DEF IsInjective
  <2> QED
    BY <1>1, <2>3, <2>6, <2>8 DEF v
<1> QED
  BY <1>2, <1>3

\* The steps of the union of t into s, the first n of them.
Unites(u, s, t, n) ==
    u = [i \in 0 .. n |->
            IF i = 0 THEN s
            ELSE IF t[i] \in Range(u[i - 1]) THEN u[i - 1]
            ELSE Append(u[i - 1], t[i])]

LEMMA UnitesExists ==
    ASSUME NEW s, NEW t, NEW n \in Nat
    PROVE  \E u : Unites(u, s, t, n)
<1> DEFINE F == {m \in Nat : ~ \E u : Unites(u, s, t, m)}
<1>1. SUFFICES ASSUME F # {} PROVE FALSE
  OBVIOUS
<1>2. PICK m \in F : \A k \in F : m <= k
  <2> HIDE DEF F
  <2>1. F \subseteq Nat
    BY DEF F
  <2> QED
    BY <1>1, <2>1, LeastNatural
<1>3. CASE m = 0
  <2> DEFINE u == [i \in 0 .. 0 |-> s]
  <2>1. u = [i \in 0 .. 0 |->
                IF i = 0 THEN s
                ELSE IF t[i] \in Range(u[i - 1]) THEN u[i - 1]
                ELSE Append(u[i - 1], t[i])]
    OBVIOUS
  <2> HIDE DEF u
  <2>2. Unites(u, s, t, 0)
    BY <2>1 DEF Unites
  <2> QED
    BY <1>2, <1>3, <2>2
<1>4. CASE m # 0
  <2>1. m - 1 \in Nat /\ m - 1 \notin F
    BY <1>2, <1>4
  <2>2. PICK w : Unites(w, s, t, m - 1)
    BY <2>1
  <2> DEFINE last == IF t[m] \in Range(w[m - 1]) THEN w[m - 1] ELSE Append(w[m - 1], t[m])
             u == [i \in 0 .. m |-> IF i = m THEN last ELSE w[i]]
  <2>3. ASSUME NEW i \in 0 .. m
        PROVE  u[i] = IF i = 0 THEN s
                      ELSE IF t[i] \in Range(u[i - 1]) THEN u[i - 1]
                      ELSE Append(u[i - 1], t[i])
    <3>1. CASE i = m
      <4>1. u[m] = last /\ u[m - 1] = w[m - 1]
        BY <2>1, <1>4
      <4> QED
        BY <1>4, <3>1, <4>1
    <3>2. CASE i # m
      <4>1. i \in 0 .. m - 1 /\ u[i] = w[i] /\ (i # 0 => u[i - 1] = w[i - 1])
        BY <2>1, <3>2
      <4>2. w[i] = IF i = 0 THEN s
                   ELSE IF t[i] \in Range(w[i - 1]) THEN w[i - 1]
                   ELSE Append(w[i - 1], t[i])
        BY <2>2, <4>1 DEF Unites
      <4> HIDE DEF u
      <4> QED
        BY <4>1, <4>2
    <3> QED
      BY <3>1, <3>2
  <2>4. u = [i \in 0 .. m |-> u[i]]
    OBVIOUS
  <2> HIDE DEF u
  <2>5. Unites(u, s, t, m)
    BY <2>3, <2>4 DEF Unites
  <2> QED
    BY <1>2, <2>5
<1> QED
  BY <1>3, <1>4

LEMMA UnitedSeq ==
    ASSUME NEW T, NEW s \in Seq(T), NEW t \in Seq(T)
    PROVE  /\ AddNew(s, t) \in Seq(T)
           /\ Range(AddNew(s, t)) = Range(s) \cup Range(t)
           /\ Len(AddNew(s, t)) <= Len(s) + Len(t)
           /\ IsInjective(s) => IsInjective(AddNew(s, t))
<1> DEFINE u == CHOOSE w : Unites(w, s, t, Len(t))
           Upto(i) == {t[j] : j \in 1 .. i}
           P(i) == /\ u[i] \in Seq(T) /\ Range(u[i]) = Range(s) \cup Upto(i)
                   /\ Len(u[i]) <= Len(s) + i
                   /\ IsInjective(s) => IsInjective(u[i])
           F == {i \in 0 .. Len(t) : ~ P(i)}
<1>1. Len(t) \in Nat /\ (\A i \in 1 .. Len(t) : t[i] \in T) /\ Range(t) = Upto(Len(t))
  BY SeqRange
<1>0. Len(s) \in Nat /\ \A v \in Seq(T) : Len(v) \in Nat
  BY SeqRange
<1>2. AddNew(s, t) = u[Len(t)]
  BY DEF AddNew, Unites
<1>3. Unites(u, s, t, Len(t))
  BY <1>1, UnitesExists
<1> HIDE DEF u
<1>4. F = {}
  <2>1. SUFFICES ASSUME F # {} PROVE FALSE
    OBVIOUS
  <2>2. PICK m \in F : \A k \in F : m <= k
    <3>1. F \subseteq Nat
      OBVIOUS
    <3> HIDE DEF F
    <3> QED
      BY <2>1, <3>1, LeastNatural
  <2>3. CASE m = 0
    <3>1. u[0] = s /\ Upto(0) = {}
      BY <1>1, <1>3 DEF Unites
    <3>2. Range(u[0]) = Range(s) \cup Upto(0)
      BY <3>1
    <3>3. Len(u[0]) <= Len(s) + 0
      BY <1>0, <3>1
    <3> HIDE DEF Upto
    <3>4. P(0)
      BY <3>1, <3>2, <3>3
    <3> QED
      BY <2>2, <2>3, <3>4
  <2>4. CASE m # 0
    <3>0. m \in 0 .. Len(t)
      BY <2>2
    <3>1. m \in 1 .. Len(t) /\ m - 1 \in 0 .. Len(t) /\ m - 1 \notin F /\ t[m] \in T
      <4> HIDE DEF F
      <4>1. m \in 1 .. Len(t) /\ m - 1 \in 0 .. Len(t) /\ m - 1 < m
        BY <1>1, <2>4, <3>0
      <4>2. m - 1 \notin F
        BY <2>2, <4>1
      <4> QED
        BY <1>1, <4>1, <4>2
    <3>2. P(m - 1)
      BY <3>1
    <3>3. u[m] = IF t[m] \in Range(u[m - 1]) THEN u[m - 1] ELSE Append(u[m - 1], t[m])
      <4>1. m \in 0 .. Len(t) /\ m # 0
        BY <1>1, <3>1
      <4>2. \A i \in 0 .. Len(t) :
               u[i] = IF i = 0 THEN s
                      ELSE IF t[i] \in Range(u[i - 1]) THEN u[i - 1]
                      ELSE Append(u[i - 1], t[i])
        BY <1>3 DEF Unites
      <4> QED
        BY <4>1, <4>2
    <3>4. Upto(m) = Upto(m - 1) \cup {t[m]}
      <4>1. 1 .. m = (1 .. m - 1) \cup {m}
        BY <3>1
      <4> QED
        BY <4>1
    <3> HIDE DEF Upto
    <3>5. CASE t[m] \in Range(u[m - 1])
      <4>1. P(m)
        BY <1>0, <3>1, <3>2, <3>3, <3>4, <3>5
      <4> QED
        BY <2>2, <4>1
    <3>6. CASE t[m] \notin Range(u[m - 1])
      <4> DEFINE v == u[m - 1]
      <4>1. v \in Seq(T) /\ Range(v) = Range(s) \cup Upto(m - 1) /\ (IsInjective(s) => IsInjective(v))
            /\ Len(v) <= Len(s) + (m - 1) /\ Len(v) \in Nat
        BY <1>0, <3>2
      <4>2. u[m] = Append(v, t[m]) /\ t[m] \notin Range(v)
        BY <3>3, <3>6
      <4> HIDE DEF v
      <4>3. /\ Append(v, t[m]) \in Seq(T) /\ Range(Append(v, t[m])) = Range(v) \cup {t[m]}
            /\ Len(Append(v, t[m])) = Len(v) + 1
            /\ IsInjective(v) => IsInjective(Append(v, t[m]))
        BY <3>1, <4>1, <4>2, AppendedSeq
      <4>4. P(m)
        BY <1>0, <3>1, <3>4, <4>1, <4>2, <4>3
      <4> QED
        BY <2>2, <4>4
    <3> QED
      BY <3>5, <3>6
  <2> QED
    BY <2>3, <2>4
<1>5. P(Len(t))
  BY <1>1, <1>4
<1> HIDE DEF Upto
<1> QED
  BY <1>1, <1>2, <1>5

-----------------------------------------------------------------------------
(* The decision hashes: an order and a set kept in step by hand. *)

Tidy(s) == s \in Seq(Hash) /\ IsInjective(s)
TidyOrders == Tidy(order) /\ Tidy(file) /\ Tidy(pg) /\ \A c \in Call : Tidy(snap[c])

\* A hash that a call marked in shadow mode.
Marked(h) == \E c \in Call : hash[c] = h /\ outcome[c] = "shadow"

\* _executed_hash_order and _executed_hashes agree, through the load, the
\* eviction, the release and the restart: the order names no hash twice and none
\* that does not block, the hashes that block without a place in the order (and
\* so are never evicted nor written) are those of shadow mode, the order keeps
\* its limit, and nothing is remembered before the store has been read.
OrderMirrorsSet ==
    /\ TidyOrders
    /\ Range(order) \subseteq executed
    /\ \A h \in executed \ Range(order) : Marked(h)
    /\ Len(order) <= MaxHashes
    /\ unverified => order = <<>> /\ executed = {}

LEMMA EmptyIsTidy == Tidy(<<>>) /\ Range(<<>>) = {} /\ Len(<<>>) = 0
<1>1. <<>> \in Seq(Hash) /\ Len(<<>>) = 0 /\ DOMAIN <<>> = {}
  BY EmptySeq
<1> QED
  BY <1>1 DEF Tidy, IsInjective, Range

\* What the store holds, when it is read: no hash twice, and no more than fit.
LEMMA LoadedIsTidy ==
    ASSUME TidyOrders
    PROVE  /\ Tidy(Loaded) /\ Len(Loaded) <= MaxHashes
           /\ Tidy(AddNew(<<>>, Loaded)) /\ Range(AddNew(<<>>, Loaded)) = Range(Loaded)
           /\ Len(AddNew(<<>>, Loaded)) <= MaxHashes
<1>1. MaxHashes \in Nat
  BY LimitAssumption
<1> DEFINE a == AddNew(<<>>, file)
           b == AddNew(a, pg)
<1>2. Tidy(a)
  BY EmptyIsTidy, UnitedSeq DEF TidyOrders, Tidy
<1> HIDE DEF a
<1>3. Tidy(b)
  BY <1>2, UnitedSeq DEF TidyOrders, Tidy
<1>4. Loaded = LastOf(b, MaxHashes)
  BY DEF Loaded, a
<1> HIDE DEF b
<1>5. Tidy(Loaded) /\ Len(Loaded) <= MaxHashes
  BY <1>1, <1>3, <1>4, LastOfSeq DEF Tidy
<1> DEFINE d == Loaded
           e == AddNew(<<>>, d)
<1>6. Tidy(d) /\ Len(d) <= MaxHashes
  BY <1>5
<1> HIDE DEF d
<1>0. <<>> \in Seq(Hash) /\ d \in Seq(Hash) /\ IsInjective(<<>>)
  BY <1>6, EmptyIsTidy DEF Tidy
<1>7. /\ e \in Seq(Hash) /\ Range(e) = Range(<<>>) \cup Range(d)
      /\ Len(e) <= Len(<<>>) + Len(d) /\ IsInjective(e)
  BY <1>0, UnitedSeq
<1> HIDE DEF e
<1>8. Len(e) \in Nat /\ Len(d) \in Nat
  BY <1>6, <1>7, SeqRange DEF Tidy
<1>9. Tidy(e) /\ Range(e) = Range(d) /\ Len(e) <= MaxHashes
  BY <1>1, <1>6, <1>7, <1>8, EmptyIsTidy DEF Tidy
<1> QED
  BY <1>6, <1>9 DEF d, e

\* What was marked stays marked: a call that marked its hash is over.
LEMMA MarkedStays ==
    ASSUME Inv, ShadowIsDone, [Next]_vars, NEW h \in Hash, Marked(h)
    PROVE  Marked(h)'
<1> PICK c \in Call : hash[c] = h /\ outcome[c] = "shadow"
  BY DEF Marked
<1>1. pc[c] = "done"
  BY DEF ShadowIsDone
<1> SUFFICES hash'[c] = hash[c] /\ outcome'[c] = outcome[c]
  BY DEF Marked
<1> USE DEF Inv, Types
<1>2. ASSUME NEW d \in Call, NEW g \in Hash, Begin(d, g)
      PROVE  hash'[c] = hash[c] /\ outcome'[c] = outcome[c]
  BY <1>1, <1>2 DEF Begin, Step
<1>3. ASSUME NEW d \in Call, HashStep(d)
      PROVE  hash'[c] = hash[c] /\ outcome'[c] = outcome[c]
  BY <1>1, <1>3 DEF HashStep, EnsureHashesLoaded, Lookup, Gate, CheckCanary, MarkExecuted,
                    Reserve, KeepOrRelease, CountCanary, Step, End
<1>4. ASSUME NEW d \in Call, DurableStep(d)
      PROVE  hash'[c] = hash[c] /\ outcome'[c] = outcome[c]
  BY <1>4 DEF DurableStep
<1>5. ASSUME NEW d \in Call, OmsStep(d)
      PROVE  hash'[c] = hash[c] /\ outcome'[c] = outcome[c]
  BY <1>1, <1>5 DEF OmsStep, Recheck, GuardSubmit, OmsRefuses, Submit, Return, Retry, Step, End
<1>6. ASSUME Environment
      PROVE  hash' = hash /\ outcome' = outcome
  BY <1>6 DEF Environment, GatewayForgets, Execute, SetMode, SetHalt, NextDay, Restart, callVars
<1>7. ASSUME UNCHANGED vars
      PROVE  hash' = hash /\ outcome' = outcome
  BY <1>7 DEF vars, callVars
<1> QED
  BY <1>2, <1>3, <1>4, <1>5, <1>6, <1>7 DEF Next

\* A step that leaves the hashes alone, and the durable copies tidy.
LEMMA MirrorStays ==
    ASSUME Inv, ShadowIsDone, OrderMirrorsSet, [Next]_vars, TidyOrders', UNCHANGED hashVars
    PROVE  OrderMirrorsSet'
<1>1. \A h \in executed : h \in Hash \/ Marked(h)
  BY SeqRange DEF OrderMirrorsSet, TidyOrders, Tidy
<1>2. ASSUME NEW h \in executed \ Range(order)
      PROVE  Marked(h)'
  <2>1. Marked(h) /\ h \in Hash
    BY <1>2 DEF OrderMirrorsSet, Marked, Inv, Types
  <2> QED
    BY <2>1, MarkedStays
<1> QED
  BY <1>2 DEF OrderMirrorsSet, hashVars

\* The load, the reservation, the release, the marking: what each does to both.
LEMMA HashStepMirror ==
    ASSUME Inv, ShadowIsDone, OrderMirrorsSet, NEW c \in Call, HashStep(c), [Next]_vars
    PROVE  OrderMirrorsSet'
<1>0. MaxHashes \in Nat /\ hash[c] \in Hash
  BY LimitAssumption DEF Inv, Types
<1>1. hash' = hash /\ UNCHANGED <<file, pg, snap>>
  BY DEF HashStep, storeVars
<1>2. TidyOrders /\ Range(order) \subseteq executed /\ Len(order) <= MaxHashes
  BY DEF OrderMirrorsSet
<1>3. ASSUME Tidy(order')
      PROVE  TidyOrders'
  BY <1>1, <1>2, <1>3 DEF TidyOrders, Tidy
<1>4. ASSUME NEW h \in executed \ Range(order)
      PROVE  Marked(h)'
  <2>1. Marked(h) /\ h \in Hash
    BY <1>4 DEF OrderMirrorsSet, Marked, Inv, Types
  <2> QED
    BY <2>1, MarkedStays
<1>5. ASSUME UNCHANGED hashVars
      PROVE  OrderMirrorsSet'
  <2>1. TidyOrders'
    BY <1>2, <1>3, <1>5 DEF hashVars, TidyOrders
  <2> QED
    BY <1>5, <2>1, MirrorStays
<1>6. CASE EnsureHashesLoaded(c)
  <2>1. CASE UNCHANGED hashVars
    BY <1>5, <2>1
  <2>2. CASE unverified /\ executed' = executed \cup Range(Loaded)
             /\ order' = AddNew(order, Loaded) /\ unverified' = FALSE
    <3>1. order = <<>> /\ executed = {}
      BY <2>2 DEF OrderMirrorsSet
    <3>2. /\ Tidy(order') /\ Range(order') = executed' /\ Len(order') <= MaxHashes
      BY <1>2, <2>2, <3>1, LoadedIsTidy DEF Tidy
    <3> QED
      BY <1>3, <2>2, <3>2 DEF OrderMirrorsSet
  <2> QED
    BY <1>6, <2>1, <2>2 DEF EnsureHashesLoaded
<1>7. CASE /\ CheckCanary(c) \/ MarkExecuted(c)
           /\ UNCHANGED <<order, unverified>>
  <2>1. CASE UNCHANGED executed
    BY <1>5, <1>7, <2>1 DEF hashVars
  <2>2. CASE MarkExecuted(c)
    <3>1. executed' = executed \cup {hash[c]} /\ outcome'[c] = "shadow" /\ ~ unverified
      BY <2>2 DEF MarkExecuted, Step, End, Inv, Types, VerifiedInside
    <3>2. Tidy(order')
      BY <1>2, <1>7 DEF TidyOrders, Tidy
    <3>3. \A h \in executed' \ Range(order') : Marked(h)'
      <4> SUFFICES ASSUME NEW h \in executed' \ Range(order') PROVE Marked(h)'
        OBVIOUS
      <4>1. CASE h = hash[c]
        BY <1>1, <3>1, <4>1 DEF Marked
      <4>2. CASE h # hash[c]
        <5>1. h \in executed \ Range(order)
          BY <1>7, <3>1, <4>2
        <5> QED
          BY <1>4, <5>1
      <4> QED
        BY <4>1, <4>2
    <3> QED
      BY <1>2, <1>3, <1>7, <3>1, <3>2, <3>3 DEF OrderMirrorsSet
  <2> QED
    BY <1>7, <2>1, <2>2 DEF CheckCanary
<1>8. CASE Reserve(c) /\ UNCHANGED unverified
  <2> DEFINE longer == Append(order, hash[c])
             newOrder == LastOf(longer, MaxHashes)
             evicted == Range(longer) \ Range(newOrder)
  <2>1. CASE UNCHANGED <<executed, order>>
    BY <1>5, <1>8, <2>1 DEF hashVars
  <2>2. CASE /\ hash[c] \notin executed /\ order' = newOrder
             /\ executed' = (executed \cup {hash[c]}) \ evicted
    <3>1. /\ longer \in Seq(Hash) /\ IsInjective(longer)
          /\ Range(longer) = Range(order) \cup {hash[c]}
      BY <1>0, <1>2, <2>2, AppendedSeq DEF TidyOrders, Tidy
    <3> HIDE DEF longer
    <3>2. /\ newOrder \in Seq(Hash) /\ IsInjective(newOrder) /\ Len(newOrder) <= MaxHashes
          /\ Range(newOrder) \subseteq Range(longer)
      BY <1>0, <3>1, LastOfSeq
    <3> HIDE DEF newOrder
    <3>3. Tidy(order') /\ Len(order') <= MaxHashes /\ Range(order') \subseteq executed'
      BY <1>2, <2>2, <3>1, <3>2 DEF Tidy
    <3>4. executed' \ Range(order') \subseteq executed \ Range(order)
      BY <2>2, <3>1, <3>2
    <3>5. ~ unverified'
      BY <1>8 DEF Reserve, Step, Inv, VerifiedInside
    <3> QED
      BY <1>3, <1>4, <3>3, <3>4, <3>5 DEF OrderMirrorsSet
  <2> QED
    BY <1>8, <2>1, <2>2 DEF Reserve
<1>9. CASE KeepOrRelease(c) /\ UNCHANGED unverified
  <2>1. CASE UNCHANGED <<executed, order>>
    BY <1>5, <1>9, <2>1 DEF hashVars
  <2>2. CASE executed' = executed \ {hash[c]} /\ order' = Removed(order, hash[c])
    <3>1. Len(order) \in Nat /\ Len(order') \in Nat
      BY <1>2, <2>2, SeqRange, RemovedSeq DEF TidyOrders, Tidy
    <3>2. Tidy(order') /\ Len(order') <= Len(order) /\ Range(order') = Range(order) \ {hash[c]}
      BY <1>2, <2>2, RemovedSeq DEF TidyOrders, Tidy
    <3>3. Len(order') <= MaxHashes
      BY <1>0, <1>2, <3>1, <3>2
    <3>4. Range(order') \subseteq executed' /\ executed' \ Range(order') \subseteq executed \ Range(order)
      BY <1>2, <2>2, <3>2
    <3>5. ~ unverified'
      BY <1>9 DEF KeepOrRelease, Step, Inv, VerifiedInside
    <3> QED
      BY <1>3, <1>4, <3>2, <3>3, <3>4, <3>5 DEF OrderMirrorsSet
  <2> QED
    BY <1>9, <2>1, <2>2 DEF KeepOrRelease
<1> QED
  BY <1>5, <1>6, <1>7, <1>8, <1>9 DEF HashStep

\* A copy that is taken, and one that is written, is one the bridge has had.
LEMMA DurableStepTidy ==
    ASSUME OrderMirrorsSet, NEW c \in Call, DurableStep(c), snap \in [Call -> Seq(Hash)]
    PROVE  TidyOrders' /\ UNCHANGED hashVars
<1>1. UNCHANGED hashVars /\ TidyOrders
  BY DEF DurableStep, OrderMirrorsSet
<1>2. CASE CopyOrder(c) /\ UNCHANGED storeVars
  BY <1>1, <1>2 DEF CopyOrder, TidyOrders, Tidy, hashVars, storeVars
<1>3. CASE WriteCopy(c) /\ UNCHANGED snap
  <2>1. file' \in {file, snap[c]} /\ pg' \in {pg, snap[c]}
    BY <1>3 DEF WriteCopy, Written
  <2> QED
    BY <1>1, <1>3, <2>1 DEF TidyOrders, Tidy, hashVars
<1>4. CASE UNCHANGED <<snap, file, pg>>
  BY <1>1, <1>4 DEF TidyOrders, Tidy, hashVars
<1> QED
  BY <1>1, <1>2, <1>3, <1>4 DEF DurableStep, storeVars

\* The set and the order of the decision hashes agree (_ensure_hashes_loaded, the
\* atomic reserve with its eviction, the release of handle, the restart).
THEOREM OrderMirrors == Spec => []OrderMirrorsSet
<1> DEFINE Snaps == snap \in [Call -> Seq(Hash)]
<1>1. Init => OrderMirrorsSet /\ Snaps
  <2>1. MaxHashes \in Nat
    BY LimitAssumption
  <2> QED
    BY <2>1, EmptyIsTidy DEF Init, OrderMirrorsSet, TidyOrders, Tidy, Marked
<1>2. Inv /\ ShadowIsDone /\ OrderMirrorsSet /\ Snaps /\ [Next]_vars => OrderMirrorsSet' /\ Snaps'
  <2> SUFFICES ASSUME Inv, ShadowIsDone, OrderMirrorsSet, Snaps, [Next]_vars
               PROVE  OrderMirrorsSet' /\ Snaps'
    OBVIOUS
  <2>0. ASSUME UNCHANGED <<snap, file, pg, hashVars>>
        PROVE  OrderMirrorsSet' /\ Snaps'
    <3>1. TidyOrders'
      BY <2>0 DEF OrderMirrorsSet, TidyOrders, Tidy, hashVars
    <3> QED
      BY <2>0, <3>1, MirrorStays
  <2>1. ASSUME NEW c \in Call, NEW h \in Hash, Begin(c, h)
        PROVE  OrderMirrorsSet' /\ Snaps'
    BY <2>0, <2>1 DEF Begin, storeVars
  <2>2. ASSUME NEW c \in Call, HashStep(c)
        PROVE  OrderMirrorsSet' /\ Snaps'
    BY <2>2, HashStepMirror DEF HashStep
  <2>3. ASSUME NEW c \in Call, DurableStep(c)
        PROVE  OrderMirrorsSet' /\ Snaps'
    <3>1. TidyOrders' /\ UNCHANGED hashVars
      BY <2>3, DurableStepTidy
    <3>2. Snaps'
      BY <2>3 DEF DurableStep, CopyOrder, WriteCopy, Settle, SaveAmbiguous, OrderMirrorsSet,
                  TidyOrders, Tidy
    <3> QED
      BY <3>1, <3>2, MirrorStays
  <2>4. ASSUME NEW c \in Call, OmsStep(c)
        PROVE  OrderMirrorsSet' /\ Snaps'
    BY <2>0, <2>4 DEF OmsStep, storeVars
  <2>5. ASSUME Environment
        PROVE  OrderMirrorsSet' /\ Snaps'
    <3>1. CASE \/ \E c \in Call : GatewayForgets(c) \/ \E i \in 1 .. MaxAttempts : Execute(c, i)
               \/ \E m \in Mode : SetMode(m)
               \/ \E halt \in Halt : SetHalt(halt)
               \/ NextDay
      BY <2>0, <3>1 DEF GatewayForgets, Execute, SetMode, SetHalt, NextDay, callVars, storeVars
    <3>2. CASE Restart
      <4>1. /\ executed' = {} /\ order' = <<>> /\ unverified' = TRUE
            /\ file' \in {file, <<>>} /\ UNCHANGED <<snap, pg>>
        BY <3>2 DEF Restart, Written
      <4>2. TidyOrders'
        BY <4>1, EmptyIsTidy DEF OrderMirrorsSet, TidyOrders, Tidy
      <4>3. Range(order') = {} /\ Len(order') = 0 /\ MaxHashes \in Nat
        BY <4>1, EmptyIsTidy, LimitAssumption
      <4> QED
        BY <4>1, <4>2, <4>3 DEF OrderMirrorsSet
    <3> QED
      BY <2>5, <3>1, <3>2 DEF Environment
  <2>6. ASSUME UNCHANGED vars
        PROVE  OrderMirrorsSet' /\ Snaps'
    BY <2>0, <2>6 DEF vars, callVars, storeVars
  <2> QED
    BY <2>1, <2>2, <2>3, <2>4, <2>5, <2>6 DEF Next
<1> QED
  BY <1>1, <1>2, Invariance, ReasonInvariance, PTL DEF Spec

-----------------------------------------------------------------------------
\* The values that Types does not name: those of the calls, and of the rest.
CallTypes ==
    /\ mode \in [Call -> Modes]
    /\ on \in [Call -> 0 .. MaxDay]
    /\ snap \in [Call -> Seq(Hash)]
    /\ noted \in [Call -> SUBSET Call]
    /\ before \in [Call -> SUBSET Call]
PlaneTypes ==
    /\ canary \in [day : 0 .. MaxDay, count : Nat]
    /\ opsMode \in Mode
    /\ killed \in BOOLEAN
    /\ ambiguous \subseteq Call
    /\ savedAmbiguous \subseteq Call
    /\ today \in 0 .. MaxDay /\ restarts \in 0 .. MaxRestarts
    /\ faults \in 0 .. MaxFaults
    /\ lostMarks \subseteq Call
    /\ atBroker \subseteq Call /\ pastGuard \subseteq Call
HashTypes ==
    /\ executed \subseteq Hash
    /\ unverified \in BOOLEAN
    /\ order \in Seq(Hash) /\ file \in Seq(Hash) /\ pg \in Seq(Hash)
    /\ lost \subseteq Hash /\ restored \subseteq Hash

LEMMA FailsBounded ==
    ASSUME NEW n \in Nat, faults \in 0 .. MaxFaults, Fails(n)
    PROVE  faults' \in 0 .. MaxFaults
BY LimitAssumption DEF Fails

LEMMA HashTypesStay ==
    ASSUME Inv, HashTypes, CallTypes, TidyOrders, TidyOrders', [Next]_vars
    PROVE  HashTypes'
<1> USE DEF HashTypes, Inv, Types
<1>1. order' \in Seq(Hash) /\ file' \in Seq(Hash) /\ pg' \in Seq(Hash)
  BY DEF TidyOrders, Tidy
<1>0. Range(Loaded) \subseteq Hash
  <2>1. Loaded \in Seq(Hash)
    BY LoadedIsTidy DEF Tidy
  <2> QED
    BY <2>1, SeqRange
<1>2. ASSUME UNCHANGED <<executed, unverified, lost, restored>>
      PROVE  HashTypes'
  BY <1>1, <1>2
<1>3. ASSUME NEW c \in Call, HashStep(c)
      PROVE  HashTypes'
  <2>1. CASE EnsureHashesLoaded(c)
    BY <1>0, <1>1, <2>1 DEF EnsureHashesLoaded, hashVars
  <2>2. CASE (Lookup(c) \/ Gate(c) \/ CountCanary(c)) /\ UNCHANGED <<hashVars, lost, restored>>
    BY <1>2, <2>2 DEF hashVars
  <2>3. CASE (CheckCanary(c) \/ MarkExecuted(c)) /\ UNCHANGED <<order, unverified, lost, restored>>
    BY <1>1, <2>3 DEF CheckCanary, MarkExecuted
  <2>4. CASE Reserve(c) /\ UNCHANGED <<unverified, restored>>
    <3>1. Range(Append(order, hash[c])) \subseteq Hash
      BY AppendedSeq, SeqRange
    <3>2. executed' \subseteq executed \cup {hash[c]}
          /\ lost' \subseteq lost \cup Range(Append(order, hash[c]))
      BY <2>4 DEF Reserve
    <3> QED
      BY <1>1, <2>4, <3>1, <3>2
  <2>5. CASE KeepOrRelease(c) /\ UNCHANGED <<unverified, lost, restored>>
    BY <1>1, <2>5 DEF KeepOrRelease
  <2> QED
    BY <1>3, <2>1, <2>2, <2>3, <2>4, <2>5 DEF HashStep
<1>4. ASSUME NEW c \in Call, DurableStep(c) \/ OmsStep(c) \/ \E h \in Hash : Begin(c, h)
      PROVE  HashTypes'
  BY <1>2, <1>4 DEF DurableStep, OmsStep, Begin, hashVars, history
<1>5. ASSUME Environment
      PROVE  HashTypes'
  <2>1. CASE Restart
    BY <1>1, <2>1 DEF Restart
  <2>2. CASE ~ Restart
    BY <1>2, <1>5, <2>2 DEF Environment, GatewayForgets, Execute, SetMode, SetHalt, NextDay,
                            hashVars, history
  <2> QED
    BY <2>1, <2>2
<1>6. ASSUME UNCHANGED vars
      PROVE  HashTypes'
  BY <1>2, <1>6 DEF vars, hashVars, history
<1> QED
  BY <1>3, <1>4, <1>5, <1>6 DEF Next

LEMMA CallTypesStay ==
    ASSUME Inv, HashTypes, CallTypes, PlaneTypes, [Next]_vars
    PROVE  CallTypes'
<1> USE DEF HashTypes, CallTypes, PlaneTypes, Inv, Types
<1>1. ASSUME NEW c \in Call, NEW h \in Hash, Begin(c, h)
      PROVE  CallTypes'
  <2>1. opsMode \in Modes /\ today \in 0 .. MaxDay
    BY ModeAssumption
  <2>2. {d \in Call : pc[d] = "done" /\ outcome[d] \in Unclear} \in SUBSET Call
    OBVIOUS
  <2> QED
    BY <1>1, <2>1, <2>2 DEF Begin
<1>2. ASSUME NEW c \in Call, HashStep(c) \/ OmsStep(c)
      PROVE  CallTypes'
  BY <1>2 DEF HashStep, OmsStep, history
<1>3. ASSUME NEW c \in Call, DurableStep(c)
      PROVE  CallTypes'
  <2>1. CASE CopyOrder(c) /\ UNCHANGED noted
    BY <1>3, <2>1 DEF DurableStep, CopyOrder, history
  <2>2. CASE Settle(c) /\ UNCHANGED snap
    <3>1. ambiguous \cup {c} \in SUBSET Call
      OBVIOUS
    <3>2. noted' = noted \/ noted' = [noted EXCEPT ![c] = ambiguous \cup {c}]
      BY <2>2 DEF Settle
    <3>3. noted' \in [Call -> SUBSET Call]
      BY <3>1, <3>2
    <3> QED
      BY <1>3, <2>2, <3>3 DEF DurableStep, history
  <2>3. CASE UNCHANGED <<snap, noted>>
    BY <1>3, <2>3 DEF DurableStep, history
  <2> QED
    BY <1>3, <2>1, <2>2, <2>3 DEF DurableStep
<1>4. ASSUME Environment \/ UNCHANGED vars
      PROVE  CallTypes'
  BY <1>4 DEF Environment, GatewayForgets, Execute, SetMode, SetHalt, NextDay, Restart, callVars,
              history, vars
<1> QED
  BY <1>1, <1>2, <1>3, <1>4 DEF Next

LEMMA PlaneTypesStay ==
    ASSUME Inv, CallTypes, PlaneTypes, [Next]_vars
    PROVE  PlaneTypes'
<1> USE DEF CallTypes, PlaneTypes, Inv, Types
<1>1. ASSUME NEW c \in Call, HashStep(c)
      PROVE  PlaneTypes'
  <2>1. CanaryOn(on[c]) \in [day : 0 .. MaxDay, count : Nat]
    BY DEF CanaryOn
  <2> DEFINE n == CanaryOn(on[c])
  <2>2. [n EXCEPT !.count = @ + 1] \in [day : 0 .. MaxDay, count : Nat]
    <3> HIDE DEF n
    <3>1. n \in [day : 0 .. MaxDay, count : Nat]
      BY <2>1 DEF n
    <3>2. n.count + 1 \in Nat
      BY <3>1
    <3> QED
      BY <3>1, <3>2
  <2>3. canary' \in {canary, CanaryOn(on[c]), [CanaryOn(on[c]) EXCEPT !.count = @ + 1]}
    BY <1>1 DEF HashStep, EnsureHashesLoaded, Lookup, Gate, CheckCanary, MarkExecuted, Reserve,
                KeepOrRelease, CountCanary
  <2>4. UNCHANGED <<planeVars, storeVars, clockVars, lostMarks, atBroker, pastGuard>>
    BY <1>1 DEF HashStep
  <2> QED
    BY <2>1, <2>2, <2>3, <2>4 DEF planeVars, storeVars, clockVars
<1>2. ASSUME NEW c \in Call, DurableStep(c)
      PROVE  PlaneTypes'
  <2>1. ambiguous' \subseteq Call
    BY <1>2 DEF DurableStep, Settle
  <2>2. savedAmbiguous' \in {savedAmbiguous, noted[c]} \/ UNCHANGED storeVars
    BY <1>2 DEF DurableStep, SaveAmbiguous, Written
  <2>3. savedAmbiguous' \subseteq Call
    BY <2>2 DEF storeVars
  <2>4. faults' \in 0 .. MaxFaults
    <3>1. faults' = faults \/ \E n \in Nat : Fails(n)
      <4>1. ASSUME NEW n \in 0 .. 1, NEW m \in 0 .. 1
            PROVE  n + m \in Nat /\ n \in Nat
        BY <4>1
      <4> QED
        BY <1>2, <4>1 DEF DurableStep, WriteCopy, SaveAmbiguous
    <3> QED
      BY <3>1, FailsBounded
  <2> QED
    BY <1>2, <2>1, <2>3, <2>4 DEF DurableStep, history
<1>3. ASSUME NEW c \in Call, OmsStep(c) \/ \E h \in Hash : Begin(c, h)
      PROVE  PlaneTypes'
  BY <1>3 DEF OmsStep, Begin, planeVars, storeVars, clockVars, history
<1>4. ASSUME Environment
      PROVE  PlaneTypes'
  <2>1. ASSUME NEW c \in Call, GatewayForgets(c) \/ \E i \in 1 .. MaxAttempts : Execute(c, i)
        PROVE  PlaneTypes'
    <3>1. faults' \in 0 .. MaxFaults
      BY <2>1, FailsBounded DEF GatewayForgets, Execute, clockVars
    <3> QED
      BY <2>1, <3>1 DEF GatewayForgets, Execute, planeVars, storeVars, clockVars, history
  <2>2. ASSUME NEW m \in Mode, SetMode(m)
        PROVE  PlaneTypes'
    BY <2>2 DEF SetMode, storeVars, clockVars
  <2>3. ASSUME NEW halt \in Halt, SetHalt(halt)
        PROVE  PlaneTypes'
    BY <2>3, HaltAssumption DEF SetHalt, storeVars, clockVars
  <2>4. CASE NextDay
    BY <2>4, LimitAssumption DEF NextDay, planeVars, storeVars, history
  <2>5. CASE Restart
    <3>1. restarts' \in 0 .. MaxRestarts
      BY <2>5, LimitAssumption DEF Restart
    <3>2. ambiguous' \in {{}, savedAmbiguous} /\ \E n \in Nat : Fails(n)
      <4>1. PICK n \in 0 .. 1, m \in 0 .. 1 :
                Written({}, savedAmbiguous, ambiguous', m) /\ Fails(n + m)
        BY <2>5 DEF Restart
      <4>2. n + m \in Nat
        OBVIOUS
      <4> QED
        BY <4>1, <4>2 DEF Written
    <3>3. faults' \in 0 .. MaxFaults
      BY <3>2, FailsBounded
    <3>4. canary' \in [day : 0 .. MaxDay, count : Nat]
      BY <2>5, LimitAssumption DEF Restart
    <3>5. /\ opsMode' \in Mode /\ killed' \in BOOLEAN
          /\ UNCHANGED <<savedAmbiguous, today>>
          /\ atBroker' = {} /\ pastGuard' = {}
          /\ lostMarks' \subseteq Call
      BY <2>5, HaltAssumption DEF Restart
    <3> QED
      BY <3>1, <3>2, <3>3, <3>4, <3>5
  <2> QED
    BY <1>4, <2>1, <2>2, <2>3, <2>4, <2>5 DEF Environment
<1>5. ASSUME UNCHANGED vars
      PROVE  PlaneTypes'
  BY <1>5 DEF vars, planeVars, storeVars, clockVars, history
<1> QED
  BY <1>1, <1>2, <1>3, <1>4, <1>5 DEF Next

\* Every variable keeps to its type, the bounded counters of the instance and the
\* two durable copies of the hash order included.
THEOREM TypeCorrect == Spec => []TypeOK
<1>1. Init => HashTypes /\ CallTypes /\ PlaneTypes
  <2> SUFFICES ASSUME Init PROVE HashTypes /\ CallTypes /\ PlaneTypes
    OBVIOUS
  <2>1. HashTypes
    BY EmptyIsTidy DEF Init, HashTypes, Tidy
  <2>2. CallTypes
    <3>1. (CHOOSE m \in Mode : TRUE) \in Modes
      BY ModeAssumption
    <3>2. 0 \in 0 .. MaxDay /\ <<>> \in Seq(Hash)
      BY EmptyIsTidy, LimitAssumption DEF Tidy
    <3> QED
      BY <3>1, <3>2 DEF Init, CallTypes
  <2>3. PlaneTypes
    <3>1. 0 \in 0 .. MaxDay /\ 0 \in 0 .. MaxRestarts /\ 0 \in 0 .. MaxFaults
      BY LimitAssumption
    <3>2. [day |-> 0, count |-> 0] \in [day : 0 .. MaxDay, count : Nat]
      BY <3>1
    <3> QED
      BY <3>1, <3>2 DEF Init, PlaneTypes
  <2> QED
    BY <2>1, <2>2, <2>3
<1>2. /\ Inv /\ OrderMirrorsSet /\ OrderMirrorsSet'
      /\ HashTypes /\ CallTypes /\ PlaneTypes /\ [Next]_vars
      => (HashTypes /\ CallTypes /\ PlaneTypes)'
  BY HashTypesStay, CallTypesStay, PlaneTypesStay DEF OrderMirrorsSet
<1>3. Inv /\ HashTypes /\ CallTypes /\ PlaneTypes => TypeOK
  BY DEF Inv, Types, HashTypes, CallTypes, PlaneTypes, TypeOK
<1> QED
  BY <1>1, <1>2, <1>3, Invariance, OrderMirrors, PTL DEF Spec

-----------------------------------------------------------------------------
(* The bridge stays within what the order route promises.                    *)

\* The record of an attempt, once it has passed.
Attempts == Call \X (1 .. MaxAttempts)
RecordOf(o, fate) == [of |-> o, id |-> o[1], fate |-> fate]

(* A step that sets one order replaces its record, or adds it.               *)
LEMMA SetOrderPasses ==
    ASSUME Types, NEW c \in Call, NEW i \in 1 .. MaxAttempts,
           NEW to \in OrderState \ {"none"}, SetOrder(c, i, to)
    PROVE  /\ orders[c][i] = "none" => Passed' = Passed \cup {RecordOf(<<c, i>>, to)}
           /\ orders[c][i] # "none" =>
                 /\ RecordOf(<<c, i>>, orders[c][i]) \in Passed
                 /\ Passed' = (Passed \ {RecordOf(<<c, i>>, orders[c][i])})
                                  \cup {RecordOf(<<c, i>>, to)}
<1> DEFINE q == <<c, i>>
           F(o) == orders[o[1]][o[2]]
           G(o) == orders'[o[1]][o[2]]
<1>1. q \in Attempts /\ G(q) = to /\ F(q) = orders[c][i] /\ to # "none"
  BY SetOrderEffect DEF Attempts
<1>2. \A o \in Attempts \ {q} : G(o) = F(o)
  <2> SUFFICES ASSUME NEW d \in Call, NEW j \in 1 .. MaxAttempts, <<d, j>> # q
               PROVE  orders'[d][j] = orders[d][j]
    BY DEF Attempts
  <2> QED
    BY SetOrderEffect
<1>3. /\ Passed = {RecordOf(o, F(o)) : o \in {o \in Attempts : F(o) # "none"}}
      /\ Passed' = {RecordOf(o, G(o)) : o \in {o \in Attempts : G(o) # "none"}}
  BY DEF Passed, Placed, RecordOf, Attempts
<1>4. \A o, p, f, g : RecordOf(o, f) = RecordOf(p, g) => o = p
  BY DEF RecordOf
<1> HIDE DEF q, F, G
<1>5. CASE F(q) = "none"
  BY <1>1, <1>2, <1>3, <1>5 DEF q
<1>6. CASE F(q) # "none"
  BY <1>1, <1>2, <1>3, <1>4, <1>6 DEF q
<1> QED
  BY <1>1, <1>5, <1>6

(* Submit lets the attempt pass under an id that is not remembered.          *)
LEMMA SubmitAdmits ==
    ASSUME Inv, NEW c \in Call, Submit(c), brokerVars' # brokerVars
    PROVE  Gateway!Next
<1> USE DEF Inv, Types
<1> DEFINE o == <<c, attempt[c]>>
<1>1. /\ known[c] # "known"
      /\ known' = [known EXCEPT ![c] = IF @ = "new" THEN "known" ELSE @]
      /\ SetOrder(c, attempt[c], "flight") /\ pc[c] = "checks"
  BY DEF Submit, Step
<1>2. orders[c][attempt[c]] = "none"
  BY <1>1 DEF Local, Makes
<1>3. Passed' = Passed \cup {RecordOf(o, "flight")}
  BY <1>1, <1>2, SetOrderPasses DEF OrderState
<1>4. \A x \in Passed : x.of # o
  BY <1>2 DEF Passed, Placed
<1>5. \A d \in Call : Gateway!AfterForgetting(d, {}) = known[d]
  BY DEF Gateway!AfterForgetting
<1>6. known' = [d \in Call |-> IF d = c /\ known[d] = "new" THEN "known" ELSE known[d]]
  BY <1>1
<1>7. o[1] = c /\ o \in Call \X (1 .. MaxAttempts)
  OBVIOUS
<1> HIDE DEF o
<1>8. Gateway!Forgotten({}) /\ Gateway!AfterForgetting(c, {}) # "known"
  BY <1>1, <1>5 DEF Gateway!Forgotten
<1>9. known' = [d \in Call |-> IF d = c /\ Gateway!AfterForgetting(d, {}) = "new" THEN "known"
                               ELSE Gateway!AfterForgetting(d, {})]
  BY <1>5, <1>6
<1>10. Passed' = Passed \cup {[of |-> o, id |-> c, fate |-> "flight"]}
  BY <1>3, <1>7 DEF RecordOf
<1>11. Gateway!Admit(o, c, {})
  BY <1>4, <1>8, <1>9, <1>10 DEF Gateway!Admit
<1> QED
  BY <1>7, <1>11 DEF Gateway!Next

LEMMA LosesNone ==
    ASSUME Types
    PROVE  Gateway!Forgotten({}) /\ known = [d \in Call |-> Gateway!AfterForgetting(d, {})]
BY DEF Gateway!Forgotten, Gateway!AfterForgetting, Types

(* A definite refusal loses the order of the attempt.                        *)
LEMMA ReturnLoses ==
    ASSUME Inv, NEW c \in Call, Return(c), known' = known, orders' # orders
    PROVE  Gateway!Next
<1> DEFINE x == RecordOf(<<c, attempt[c]>>, "flight")
           y == RecordOf(<<c, attempt[c]>>, "dead")
<1>1. orders[c][attempt[c]] = "flight" /\ SetOrder(c, attempt[c], "dead")
  BY DEF Return
<1>2. x \in Passed /\ Passed' = (Passed \ {x}) \cup {y}
  BY <1>1, SetOrderPasses DEF Inv, Types, OrderState
<1>3. x.fate = "flight" /\ [x EXCEPT !.fate = "dead"] = y
  BY DEF RecordOf
<1> HIDE DEF x, y
<1>4. {[z EXCEPT !.fate = "dead"] : z \in {x}} = {y}
  BY <1>3
<1>5. Gateway!Lose({}, {x})
  BY <1>2, <1>3, <1>4, LosesNone DEF Gateway!Lose, Inv
<1> QED
  BY <1>2, <1>5 DEF Gateway!Next

LEMMA ExecuteExecutes ==
    ASSUME Inv, NEW c \in Call, NEW i \in 1 .. MaxAttempts, Execute(c, i)
    PROVE  Gateway!Next
<1> DEFINE x == RecordOf(<<c, i>>, "flight")
           y == RecordOf(<<c, i>>, "open")
<1>1. orders[c][i] = "flight" /\ SetOrder(c, i, "open") /\ known' = known
  BY DEF Execute
<1>2. x \in Passed /\ Passed' = (Passed \ {x}) \cup {y}
  BY <1>1, SetOrderPasses DEF Inv, OrderState
<1>3. x.fate = "flight" /\ [x EXCEPT !.fate = "open"] = y
  BY DEF RecordOf
<1> HIDE DEF x, y
<1> QED
  BY <1>1, <1>2, <1>3 DEF Gateway!Next, Gateway!Execute

LEMMA ForgettingLoses ==
    ASSUME Inv, NEW c \in Call, GatewayForgets(c)
    PROVE  Gateway!Next
<1>1. known[c] = "known" /\ known' = [known EXCEPT ![c] = "forgotten"] /\ orders' = orders
  BY DEF GatewayForgets
<1>2. known' = [d \in Call |-> Gateway!AfterForgetting(d, {c})]
  BY <1>1 DEF Gateway!AfterForgetting, Inv, Types
<1>3. Gateway!Forgotten({c})
  BY <1>1 DEF Gateway!Forgotten
<1>4. Passed' = Passed
  BY <1>1 DEF Passed, Placed
<1>5. Gateway!Lose({c}, {})
  BY <1>2, <1>3, <1>4 DEF Gateway!Lose
<1> QED
  BY <1>5 DEF Gateway!Next

LEMMA GatewayInit == Init => Gateway!Init
<1> SUFFICES ASSUME Init PROVE Gateway!Init
  OBVIOUS
<1>1. Placed = {}
  BY DEF Init, Placed
<1> QED
  BY <1>1 DEF Init, Passed, Gateway!Init

LEMMA GatewayStep == Inv /\ [Next]_vars => [Gateway!Next]_(Gateway!vars)
<1> SUFFICES ASSUME Inv, [Next]_vars PROVE [Gateway!Next]_(Gateway!vars)
  OBVIOUS
<1> USE DEF brokerVars
<1>1. ASSUME UNCHANGED brokerVars PROVE UNCHANGED Gateway!vars
  BY <1>1 DEF Gateway!vars, Passed, Placed
<1>2. ASSUME NEW c \in Call, OmsStep(c) PROVE [Gateway!Next]_(Gateway!vars)
  <2>1. CASE Submit(c)
    BY <1>1, <2>1, SubmitAdmits
  <2>2. CASE Return(c) /\ UNCHANGED known
    BY <1>1, <2>2, ReturnLoses
  <2>3. CASE UNCHANGED brokerVars
    BY <1>1, <2>3
  <2> QED
    BY <1>2, <2>1, <2>2, <2>3 DEF OmsStep
<1>3. ASSUME NEW c \in Call,
             (\E h \in Hash : Begin(c, h)) \/ HashStep(c) \/ DurableStep(c)
      PROVE  UNCHANGED brokerVars
  BY <1>3 DEF Begin, HashStep, DurableStep
<1>4. CASE Environment
  <2>1. CASE \/ \E m \in Mode : SetMode(m)
             \/ \E halt \in Halt : SetHalt(halt)
             \/ NextDay \/ Restart
    BY <1>1, <2>1 DEF SetMode, SetHalt, NextDay, Restart
  <2> QED
    BY <1>4, <2>1, ExecuteExecutes, ForgettingLoses DEF Environment
<1>5. CASE UNCHANGED vars
  BY <1>1, <1>5 DEF vars
<1> QED
  BY <1>1, <1>2, <1>3, <1>4, <1>5 DEF Next

(* Whatever the calls, retries and restarts of the bridge do, the gateway    *)
(* and the broker that answer them here do nothing that OrderEntry rules     *)
(* out: no attempt passes under an id that is remembered, and none is        *)
(* executed twice or after it was refused (RetryingOmsSubmitPort over the    *)
(* registry of order_guard.py).                                              *)
THEOREM BridgeUsesEntry == Spec => UsesOrderEntry
BY GatewayInit, GatewayStep, Invariance, PTL DEF Spec, UsesOrderEntry, Gateway!Spec
=============================================================================
