--------------------------- MODULE EventDelivery ---------------------------
(***************************************************************************)
(* What the event bus promises, without locks, goroutines or WaitGroup: an *)
(* accepted event is owed to some subscribers; each owed copy is handled   *)
(* once, or dropped because the bus stopped; a subscriber is closed only   *)
(* after the bus stopped and while no copy is being handled, and only once.*)
(***************************************************************************)
CONSTANTS Subscribers, Events

VARIABLES delivery, accepting, closed

deliveryVars == <<delivery, accepting, closed>>

Copies == Events \X Subscribers

Init ==
    /\ delivery = [d \in Copies |-> "none"]
    /\ accepting = TRUE
    /\ closed = {}

\* Event e becomes owed to the subscribers in S.
Accept(e, S) ==
    /\ accepting
    /\ \A s \in Subscribers : delivery[<<e, s>>] = "none"
    /\ delivery' = [d \in Copies |-> IF d[1] = e /\ d[2] \in S THEN "owed" ELSE delivery[d]]
    /\ UNCHANGED <<accepting, closed>>

Begin(d) ==
    /\ accepting
    /\ delivery[d] = "owed"
    /\ delivery' = [delivery EXCEPT ![d] = "handling"]
    /\ UNCHANGED <<accepting, closed>>

Finish(d) ==
    /\ delivery[d] = "handling"
    /\ delivery' = [delivery EXCEPT ![d] = "handled"]
    /\ UNCHANGED <<accepting, closed>>

Drop(d) ==
    /\ ~accepting
    /\ delivery[d] = "owed"
    /\ delivery' = [delivery EXCEPT ![d] = "skipped"]
    /\ UNCHANGED <<accepting, closed>>

Stop ==
    /\ accepting
    /\ accepting' = FALSE
    /\ UNCHANGED <<delivery, closed>>

Close(s) ==
    /\ ~accepting
    /\ \A d \in Copies : delivery[d] # "handling"
    /\ s \notin closed
    /\ closed' = closed \cup {s}
    /\ UNCHANGED <<delivery, accepting>>

Settle(d) == Begin(d) \/ Finish(d) \/ Drop(d)

Next ==
    \/ \E e \in Events, S \in SUBSET Subscribers : Accept(e, S)
    \/ \E d \in Copies : Settle(d)
    \/ Stop
    \/ \E s \in Subscribers : Close(s)

Spec == Init /\ [][Next]_deliveryVars /\ \A d \in Copies : WF_deliveryVars(Settle(d))
=============================================================================
