------------------------------ MODULE OrderEntry ------------------------------
(***************************************************************************)
(* What the order route of the gateway promises whoever sends it orders,   *)
(* told without threads, locks, timeouts and registry: a request id lets   *)
(* one order pass for as long as it is remembered, an order that was let   *)
(* pass is executed or lost, at any time, and what became of it is final.  *)
(*                                                                         *)
(* GatewayOrderSend implements it with its registry and its workers, and   *)
(* the gateway that ExecutionBridge sees keeps to it as well.              *)
(***************************************************************************)
CONSTANTS
    Order,          \* attempts to place an order
    Id              \* request ids

VARIABLES
    memory,         \* what is remembered of an id
    orders          \* the orders that were let pass

vars == <<memory, orders>>

Memory == {"new", "known", "forgotten"}
Fate == {"flight", "open", "dead"}
OrderRecord == [of : Order, id : Id, fate : Fate]

Init ==
    /\ memory = [i \in Id |-> "new"]
    /\ orders = {}

\* Remembered ids that are forgotten; an id that was forgotten stays so.
Forgotten(dropped) == dropped \subseteq {i \in Id : memory[i] # "new"}
AfterForgetting(i, dropped) == IF i \in dropped THEN "forgotten" ELSE memory[i]

\* An order passes under an id that is not remembered, or not any more; other
\* ids may have to make room for it.
Admit(o, i, dropped) ==
    /\ \A x \in orders : x.of # o
    /\ Forgotten(dropped)
    /\ AfterForgetting(i, dropped) # "known"
    /\ memory' = [j \in Id |-> IF j = i /\ AfterForgetting(j, dropped) = "new" THEN "known"
                               ELSE AfterForgetting(j, dropped)]
    /\ orders' = orders \cup {[of |-> o, id |-> i, fate |-> "flight"]}

Execute(x) ==
    /\ x.fate = "flight"
    /\ orders' = (orders \ {x}) \cup {[x EXCEPT !.fate = "open"]}
    /\ UNCHANGED memory

\* Ids are forgotten and orders are lost: an id expires, the broker refuses an
\* order, the process dies.
Lose(dropped, dying) ==
    /\ Forgotten(dropped)
    /\ memory' = [i \in Id |-> AfterForgetting(i, dropped)]
    /\ \A x \in dying : x.fate = "flight"
    /\ orders' = (orders \ dying) \cup {[x EXCEPT !.fate = "dead"] : x \in dying}

Next ==
    \/ \E dropped \in SUBSET Id, dying \in SUBSET orders : Lose(dropped, dying)
    \/ \E x \in orders : Execute(x)
    \/ \E o \in Order, i \in Id, dropped \in SUBSET Id : Admit(o, i, dropped)

Spec == Init /\ [][Next]_vars

\* Two orders of one id need an id that was forgotten in between.
OneOrderPerId ==
    \A x, y \in orders : x.id = y.id /\ memory[x.id] # "forgotten" => x = y

\* An order that was executed stays so, and one that was lost never comes back.
FateIsFinal == [][\A x \in orders : x.fate # "flight" => x \in orders']_vars
=============================================================================
