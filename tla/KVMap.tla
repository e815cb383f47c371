------------------------------- MODULE KVMap -------------------------------
(***************************************************************************)
(* What a set or a dictionary promises: no two of its keys are equal, an   *)
(* operation is over in one step and answers for the map as it is then,    *)
(* whatever the equal method of the keys does meanwhile.  HashDict         *)
(* implements it.                                                          *)
(***************************************************************************)
CONSTANTS
    Keys, Vals,
    Equal(_, _),  \* what the equal method of the keys says
    NoVal         \* the value of a member of a set; also nil

VARIABLES
    kind,   \* "set" or "dict"
    map,    \* the [key, val] pairs held
    frozen,
    ret     \* what the last operation returned or raised

kvars == <<kind, map, frozen, ret>>

Pair(k, v) == [key |-> k, val |-> v]

NoPair == Pair(NoVal, NoVal)

Matching(k) == {e \in map : Equal(k, e.key)}

Result(op, k, what, e) == [op |-> op, of |-> k, what |-> what, key |-> e.key, val |-> e.val]

NoResult == Result("none", NoVal, "nil", NoPair)

KInit ==
    /\ kind \in {"set", "dict"} /\ map = {} /\ frozen = FALSE
    /\ ret = NoResult

\* at of a set.
Member(k) ==
    /\ kind = "set"
    /\ ret' = Result("at", k, IF Matching(k) = {} THEN "false" ELSE "true", NoPair)
    /\ UNCHANGED <<map, frozen>>

At(k) ==
    /\ kind = "dict"
    /\ IF Matching(k) = {} THEN ret' = Result("at", k, "nil", NoPair)
       ELSE \E e \in Matching(k) : ret' = Result("at", k, "pair", e)
    /\ UNCHANGED <<map, frozen>>

Ate(k) ==
    /\ kind = "dict"
    /\ IF Matching(k) = {} THEN ret' = Result("ate", k, "system.no-member", NoPair)
       ELSE \E e \in Matching(k) : ret' = Result("ate", k, "value", Pair(NoVal, e.val))
    /\ UNCHANGED <<map, frozen>>

Put(k) ==
    /\ kind = "set"
    /\ map' = IF Matching(k) = {} THEN map \cup {Pair(k, NoVal)} ELSE map
    /\ ret' = Result("put", k, "value", Pair(k, NoVal))
    /\ UNCHANGED frozen

AtPut(k, v) ==
    /\ kind = "dict" /\ ~frozen
    /\ map' = (map \ Matching(k)) \cup {Pair(k, v)}
    /\ ret' = Result("atput", k, "value", Pair(k, v))
    /\ UNCHANGED frozen

Refuse(k) ==
    /\ kind = "dict" /\ frozen
    /\ ret' = Result("atput", k, "system.frozen", NoPair)
    /\ UNCHANGED <<map, frozen>>

Del(k) ==
    /\ kind = "dict"
    /\ map' = map \ Matching(k)
    /\ ret' = Result("del", k, "value", Pair(k, NoVal))
    /\ UNCHANGED frozen

Freeze == frozen' = TRUE /\ UNCHANGED <<map, ret>>

\* A call begins: there is no answer yet.
Call == ret' = NoResult /\ UNCHANGED <<map, frozen>>

KNext ==
    /\ \/ \E k \in Keys :
             Member(k) \/ At(k) \/ Ate(k) \/ Put(k) \/ Refuse(k) \/ Del(k) \/ \E v \in Vals : AtPut(k, v)
       \/ Freeze \/ Call
    /\ UNCHANGED kind

KSpec == KInit /\ [][KNext]_kvars

=============================================================================
