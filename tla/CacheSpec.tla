----------------------------- MODULE CacheSpec -----------------------------
(***************************************************************************)
(* What the stores that sit behind a cache may rely on                     *)
(* (cache.CacheInterface): a hit returns the value that was last set for   *)
(* the key, was not deleted since and has not expired.  Anything else may  *)
(* be forgotten at any time.                                               *)
(***************************************************************************)
EXTENDS Naturals

CONSTANTS
    Keys, Values,
    TTL,            \* how long a value may be returned after it was set
    None

VARIABLES
    known,          \* per key, the value that may be returned and until when
    clock,
    last            \* what the last Set stored or the last Get returned, None
                    \* after a miss

specVars == <<known, clock, last>>

Init ==
    /\ known = [k \in Keys |-> None]
    /\ clock = 0
    /\ last = None

\* Nothing is learnt: each entry stays as it is or is forgotten.
Forgets == \A k \in Keys : known'[k] \in {known[k], None}

Set(k, v) ==
    /\ known' \in [Keys -> [value : Values, expiry : Nat] \cup {None}]
    /\ known'[k] \in {[value |-> v, expiry |-> clock + TTL], None}
    /\ \A l \in Keys \ {k} : known'[l] \in {known[l], None}
    /\ last' = [key |-> k, value |-> v]
    /\ UNCHANGED clock

\* What a hit returns is a value of the key that has not expired.
Get(k) ==
    /\ Forgets
    /\ known' \in [Keys -> [value : Values, expiry : Nat] \cup {None}]
    /\ \/ last' = None
       \/ /\ known[k] # None
          /\ clock <= known[k].expiry
          /\ last' = [key |-> k, value |-> known[k].value]
    /\ UNCHANGED clock

Delete(k) ==
    /\ known' = [known EXCEPT ![k] = None]
    /\ UNCHANGED <<clock, last>>

Forget ==
    /\ Forgets
    /\ known' \in [Keys -> [value : Values, expiry : Nat] \cup {None}]
    /\ UNCHANGED <<clock, last>>

Tick ==
    /\ clock' = clock + 1
    /\ UNCHANGED <<known, last>>

Next ==
    \/ \E k \in Keys, v \in Values : Set(k, v)
    \/ \E k \in Keys : Get(k) \/ Delete(k)
    \/ Forget
    \/ Tick

Spec == Init /\ [][Next]_specVars

=============================================================================
