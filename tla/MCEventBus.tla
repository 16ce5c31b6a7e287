----------------------------- MODULE MCEventBus -----------------------------
(* Two subscribers, one of them for every category, events of different    *)
(* categories and up to two concurrent callers of Shutdown.                *)
EXTENDS EventBus, TLC

CONSTANTS s1, s2, e1, e2, authn, token, all

MCCategory == [e \in Events |-> IF e = e1 THEN authn ELSE token]
MCInterests == (s1 :> {authn}) @@ (s2 :> {all})

=============================================================================
