---------------------------- MODULE DurableRecord ----------------------------
(***************************************************************************)
(* What the operator state promises its callers: one record, into which a  *)
(* save merges its patch in one step and leaves every other key alone.     *)
(* The promise is withdrawn (trusted becomes FALSE) when something the     *)
(* store cannot hide has happened; from then on the record may be any.     *)
(* OpsState implements it; the components that save their state use Put.   *)
(***************************************************************************)
EXTENDS Naturals

CONSTANTS
    Key,            \* keys of the payload
    Version         \* what a key can hold; for the store the number of the
                    \* save that wrote it, 0 for an absent key

VARIABLES
    rec,            \* what a load would return, key by key
    trusted         \* nothing has happened that could have spoilt it

vars == <<rec, trusted>>

\* A save merges a patch, a function over some of the keys.
Put(patch) ==
    /\ rec' = [k \in Key |-> IF k \in DOMAIN patch THEN patch[k] ELSE rec[k]]
    /\ trusted' = trusted

Init ==
    /\ rec = [k \in Key |-> 0]
    /\ trusted = TRUE

\* A save of a version that no key holds yet.
Save(keys, v) ==
    /\ \A k \in Key : v > rec[k]
    /\ Put([k \in keys |-> v])

\* Something that spoils the record, and anything after it.
Spoil ==
    /\ trusted' = FALSE
    /\ rec' \in [Key -> Version]

Next ==
    \/ \E keys \in SUBSET Key, v \in Version : Save(keys, v)
    \/ Spoil

Spec == Init /\ [][Next]_vars
=============================================================================
