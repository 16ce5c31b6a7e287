--------------------------- MODULE FlowExecProofs ---------------------------
(***************************************************************************)
(* Proofs about the execution of flows, for any graph (cyclic ones too),   *)
(* any number of requests and any interleaving, failure and restart.       *)
(***************************************************************************)
EXTENDS FlowExec, TLAPS

-----------------------------------------------------------------------------
(* The inductive invariant.                                                *)

\* A request that has not begun has no flow but its own, and no account.
IdleFresh ==
    \A r \in Requests : pc[r] = "idle" => flow[r] = r /\ reply[r] = "none" /\ r \notin accounts

\* The engine is at a node, and a flow is complete only beyond the last one.
AtNodes ==
    \A r \in Requests :
        /\ pc[r] \in {"running", "creating"} => ctx[r].node \in Nodes /\ reply[r] = "none"
        /\ reply[r] = "COMPLETE" => ctx[r].node = NoNode

\* Accounts are created at provisioning nodes.
CreatingAtProvisioning ==
    \A r \in Requests : pc[r] = "creating" => Identity(ctx[r].node)

\* Only the request that created a flow stores it first, when it ends; whoever
\* loads it comes later.
StoredByItsRequest ==
    /\ \A f \in Flows : store[f] # NoRow => pc[f] = "answered"
    /\ \A r \in Requests :
        flow[r] # r /\ reply[r] \notin {"client_error", "server_error"} => Ended(flow[r])
    /\ \A r \in Requests : before[r] \subseteq {q \in Requests : Ended(q)}

\* A context is sound: no node was left behind that did not complete, and an
\* authenticated user was supplied by a node that was executed.
UserSupplied(c) == c.authn => \E n \in Nodes : Identity(n) /\ c.history[n] # "none"

SoundContexts ==
    /\ \A f \in Flows : store[f] # NoRow => StepsPassed(store[f]) /\ UserSupplied(store[f])
    /\ \A r \in Requests : StepsPassed(ctx[r]) /\ UserSupplied(ctx[r])
    /\ \A r \in Requests : asserted[r] => ctx[r].authn

\* While a request is the only one of its flow, the flow stays stored.
AloneKeepsRow ==
    \A r \in Requests :
        pc[r] \in {"running", "creating", "persisting"} /\ flow[r] # r /\ Alone(r) =>
            store[flow[r]] # NoRow

\* Between looking for an account and creating one, only requests that overlap
\* can have created it.
LookedBefore ==
    \A r \in Requests :
        pc[r] = "creating" =>
            \A q \in accounts : Person[flow[q]] = Person[flow[r]] => q \notin before[r]

IInv ==
    /\ TypeOK
    /\ IdleFresh
    /\ AtNodes
    /\ CreatingAtProvisioning
    /\ StoredByItsRequest
    /\ SoundContexts
    /\ AloneKeepsRow
    /\ LookedBefore
    /\ EndedIsGone
    /\ LastAnswerStands
    /\ NoAccountTwice

-----------------------------------------------------------------------------
(* The operators the engine is built from.                                 *)

NodeResponses ==
    [status : {"COMPLETE", "INCOMPLETE", "FAILURE"}, authn : BOOLEAN, flags : SUBSET Flags,
     next : Nodes \cup {NoNode}, assertion : BOOLEAN]

NodeStatuses == {"COMPLETE", "INCOMPLETE", "FAILURE"}

\* A response without a user and without an assertion.
LEMMA PlainResponse ==
  ASSUME NEW s \in NodeStatuses
  PROVE  /\ Response(s) \in NodeResponses
         /\ Response(s).status = s
         /\ Response(s).authn = FALSE
         /\ Response(s).assertion = FALSE
  BY DEF Response, NodeResponses, NodeStatuses, Flags

\* The responses that carry something.
LEMMA RichResponse ==
  LET C == Response("COMPLETE") IN
  /\ \A n \in Nodes : /\ [C EXCEPT !.next = n] \in NodeResponses
                      /\ [C EXCEPT !.next = n].authn = FALSE
                      /\ [C EXCEPT !.next = n].assertion = FALSE
  /\ [C EXCEPT !.authn = TRUE] \in NodeResponses
  /\ [C EXCEPT !.authn = TRUE].assertion = FALSE
  /\ [C EXCEPT !.flags = {"eligible"}] \in NodeResponses
  /\ [C EXCEPT !.flags = {"eligible"}].assertion = FALSE
  /\ [C EXCEPT !.authn = TRUE, !.flags = {"skip"}] \in NodeResponses
  /\ [C EXCEPT !.authn = TRUE, !.flags = {"skip"}].assertion = FALSE
  /\ [C EXCEPT !.assertion = TRUE] \in NodeResponses
  /\ [C EXCEPT !.assertion = TRUE].authn = FALSE
  BY DEF Response, NodeResponses, NodeStatuses, Flags

\* What a node may answer: only an identity executor supplies a user, and only
\* the assertion executor an assertion, for an authenticated user.
LEMMA ResponseFacts ==
  ASSUME NEW n \in Nodes, NEW c \in Contexts, NEW known, NEW resp \in Responses(n, c, known)
  PROVE  /\ resp \in NodeResponses
         /\ resp.authn => Identity(n)
         /\ resp.assertion => c.authn /\ NodeType[n] = "TASK_EXECUTION" /\ Executor[n] = "assert"
<1>1. CASE NodeType[n] = "DECISION"
  <2> DEFINE next == {NextNodes[n][i] : i \in DOMAIN NextNodes[n]}
  <2>1. next \subseteq Nodes
    BY GraphAssumption
  <2>2. resp \in DecisionResponses(n, c)
    BY <1>1 DEF Responses
  <2>3. \/ \E s \in NodeStatuses : resp = Response(s)
        \/ \E m \in Nodes : resp = [Response("COMPLETE") EXCEPT !.next = m]
    <3> HIDE DEF next
    <3>1. DecisionResponses(n, c) =
            CASE c.action = NoAction /\ next # {} -> {Response("INCOMPLETE")}
              [] c.action = NoAction /\ next = {} -> {}
              [] c.action \in next -> {[Response("COMPLETE") EXCEPT !.next = c.action]}
              [] OTHER -> {Response("FAILURE")}
      BY DEF DecisionResponses, next
    <3>2. CASE c.action = NoAction
      <4>1. c.action \notin next
        BY <2>1, <3>2, GraphAssumption
      <4>2. CASE next = {}
        BY <2>2, <3>1, <3>2, <4>1, <4>2
      <4>3. CASE next # {}
        BY <2>2, <3>1, <3>2, <4>1, <4>3 DEF NodeStatuses
      <4> QED BY <4>2, <4>3
    <3>3. CASE c.action # NoAction /\ c.action \in next
      BY <2>1, <2>2, <3>1, <3>3 DEF NodeStatuses
    <3>4. CASE c.action # NoAction /\ c.action \notin next
      BY <2>2, <3>1, <3>4 DEF NodeStatuses
    <3> QED BY <3>2, <3>3, <3>4
  <2> QED BY <2>3, PlainResponse, RichResponse
<1>2. CASE NodeType[n] = "PROMPT_ONLY"
  <2>1. \E s \in NodeStatuses : resp = Response(s)
    BY <1>2 DEF Responses, PromptResponses, NodeStatuses
  <2> QED BY <2>1, PlainResponse
<1>3. CASE NodeType[n] = "TASK_EXECUTION" /\ Executor[n] = "authn"
  <2>1. resp \in AuthnResponses(n, c)
    BY <1>3 DEF Responses
  <2>2. \/ \E s \in NodeStatuses : resp = Response(s)
        \/ resp = [Response("COMPLETE") EXCEPT !.authn = TRUE]
        \/ resp = [Response("COMPLETE") EXCEPT !.flags = {"eligible"}]
        \/ resp = [Response("COMPLETE") EXCEPT !.authn = TRUE, !.flags = {"skip"}]
    BY <2>1 DEF AuthnResponses, NodeStatuses
  <2>3. Identity(n)
    BY <1>3 DEF Identity
  <2> QED BY <2>2, <2>3, PlainResponse, RichResponse
<1>4. CASE NodeType[n] = "TASK_EXECUTION" /\ Executor[n] = "assert"
  <2>1. resp \in AssertResponses(c)
    BY <1>4 DEF Responses
  <2>2. \/ resp = Response("FAILURE")
        \/ c.authn /\ resp = [Response("COMPLETE") EXCEPT !.assertion = TRUE]
    BY <2>1 DEF AssertResponses
  <2> QED BY <1>4, <2>2, PlainResponse, RichResponse DEF NodeStatuses
<1>5. CASE NodeType[n] = "TASK_EXECUTION" /\ Executor[n] = "provisioning"
  <2>1. resp \in ProvisioningResponses(n, c, known)
    BY <1>5 DEF Responses
  <2>2. \E s \in NodeStatuses : resp = Response(s)
    BY <2>1 DEF ProvisioningResponses, NodeStatuses
  <2> QED BY <2>2, PlainResponse
<1>6. CASE ~(\/ NodeType[n] \in {"DECISION", "PROMPT_ONLY"}
             \/ NodeType[n] = "TASK_EXECUTION" /\ Executor[n] \in {"authn", "assert", "provisioning"})
  <2>1. resp \in OtherResponses(n, c)
    BY <1>6 DEF Responses
  <2>2. \E s \in NodeStatuses : resp = Response(s)
    BY <2>1 DEF OtherResponses, NodeStatuses
  <2> QED BY <2>2, PlainResponse
<1> QED BY <1>1, <1>2, <1>3, <1>4, <1>5, <1>6

\* The context after a node: recorded at the same node, sound if it was.
LEMMA AfterNodeFacts ==
  ASSUME NEW c \in Contexts, c.node \in Nodes, NEW resp \in NodeResponses,
         resp.authn => Identity(c.node), StepsPassed(c), UserSupplied(c)
  PROVE  /\ AfterNode(c, resp) \in Contexts
         /\ AfterNode(c, resp).node = c.node
         /\ AfterNode(c, resp).history[c.node] = AttemptStatus(resp.status)
         /\ \A n \in Nodes : n # c.node => AfterNode(c, resp).history[n] = c.history[n]
         /\ StepsPassed(AfterNode(c, resp))
         /\ UserSupplied(AfterNode(c, resp))
         /\ ~UpdatesUser(c.node, c.flags \cup resp.flags) => AfterNode(c, resp).authn = c.authn
<1> DEFINE a == AfterNode(c, resp)
<1>1. AttemptStatus(resp.status) \in Statuses \ {"none"}
  BY DEF AttemptStatus, NodeResponses, Statuses
<1>2. /\ a \in Contexts
      /\ a.node = c.node
      /\ a.history = [c.history EXCEPT ![c.node] = AttemptStatus(resp.status)]
      /\ a.authn = IF UpdatesUser(c.node, c.flags \cup resp.flags) THEN resp.authn ELSE c.authn
  BY <1>1 DEF AfterNode, Contexts, NodeResponses
<1>3. c.history \in [Nodes -> Statuses]
  BY DEF Contexts
<1>4. /\ a.history[c.node] = AttemptStatus(resp.status)
      /\ \A n \in Nodes : n # c.node => a.history[n] = c.history[n]
  BY <1>2, <1>3
<1>5. StepsPassed(a)
  BY <1>2, <1>4 DEF StepsPassed
<1>6. UserSupplied(a)
  <2>1. CASE UpdatesUser(c.node, c.flags \cup resp.flags)
    BY <1>1, <1>2, <1>4, <2>1 DEF UserSupplied
  <2>2. CASE ~UpdatesUser(c.node, c.flags \cup resp.flags)
    BY <1>1, <1>2, <1>4, <2>2 DEF UserSupplied
  <2> QED BY <2>1, <2>2
<1> QED BY <1>2, <1>4, <1>5, <1>6

\* Where the engine goes next is a node or the end.
LEMMA NextNodeType ==
  ASSUME NEW n \in Nodes, NEW resp \in NodeResponses
  PROVE  NextNode(n, resp) \in Nodes \cup {NoNode}
<1>1. resp.next \in Nodes \cup {NoNode}
  BY DEF NodeResponses
<1>2. NextNodes[n] # <<>> => NextNodes[n][1] \in Nodes
  BY GraphAssumption
<1> QED BY <1>1, <1>2 DEF NextNode

-----------------------------------------------------------------------------
(* The invariant is inductive: how a request begins.                       *)

\* A context that no node has run on is sound.
LEMMA FreshFacts ==
  /\ FreshContext \in Contexts
  /\ FreshContext # NoRow
  /\ StepsPassed(FreshContext)
  /\ UserSupplied(FreshContext)
<1>1. [n \in Nodes |-> "none"] \in [Nodes -> Statuses]
  BY DEF Statuses
<1>2. FreshContext \in Contexts
  BY <1>1 DEF FreshContext, Contexts
<1>3. /\ FreshContext.authn = FALSE
      /\ \A n \in Nodes : FreshContext.history[n] = "none"
  BY DEF FreshContext
<1> QED BY <1>2, <1>3, NoRowAssumption DEF StepsPassed, UserSupplied

\* What the context of a request is when the engine takes it.
LEMMA EnterFacts ==
  ASSUME NEW c \in Contexts, NEW a \in SentActions, NEW i \in SUBSET Inputs,
         StepsPassed(c), UserSupplied(c)
  PROVE  LET e == AtNode(Prepared(c, a, i)) IN
         e \in Contexts /\ e.node \in Nodes /\ StepsPassed(e) /\ UserSupplied(e)
<1> DEFINE p == Prepared(c, a, i)
           e == AtNode(p)
<1>1. p \in Contexts /\ p.node = c.node /\ p.history = c.history /\ p.authn = c.authn
  BY GraphAssumption DEF Prepared, Contexts
<1>2. /\ e \in Contexts /\ e.node \in Nodes /\ e.history = c.history /\ e.authn = c.authn
      /\ e.node = IF c.node = NoNode THEN StartNode ELSE c.node
  <2> HIDE DEF p
  <2> QED BY <1>1, GraphAssumption DEF AtNode, Contexts
<1>3. StepsPassed(e)
  <2> HIDE DEF e
  <2> QED BY <1>2, GraphAssumption DEF StepsPassed
<1>4. UserSupplied(e)
  <2> HIDE DEF e
  <2> QED BY <1>2 DEF UserSupplied
<1> QED BY <1>2, <1>3, <1>4

\* A request begins to run flow f.
LEMMA RunsFlow ==
  ASSUME IInv, NEW r \in Requests, NEW f \in Flows, NEW c \in Contexts,
         NEW a \in SentActions, NEW i \in SUBSET Inputs,
         StepsPassed(c), UserSupplied(c),
         Begin(r), f = r \/ store[f] # NoRow,
         flow' = [flow EXCEPT ![r] = f],
         EnterEngine(r, Prepared(c, a, i)),
         UNCHANGED <<store, reply, accounts, restarts>>
  PROVE  IInv'
<1> DEFINE e == AtNode(Prepared(c, a, i))
<1>1. e \in Contexts /\ e.node \in Nodes /\ StepsPassed(e) /\ UserSupplied(e)
  BY EnterFacts
<1>2. /\ ctx' = [ctx EXCEPT ![r] = e]
      /\ asserted' = [asserted EXCEPT ![r] = FALSE]
      /\ pc' = [pc EXCEPT ![r] = "running"]
      /\ started' \in {started, started \cup {r}}
      /\ pc[r] = "idle"
      /\ before' = [before EXCEPT ![r] = {q \in Requests : Ended(q)}]
  BY DEF EnterEngine, Begin
<1> HIDE DEF e
<1>3. TypeOK'
  BY <1>1, <1>2 DEF IInv, TypeOK, Flows
<1>4. IdleFresh'
  BY <1>2 DEF IInv, TypeOK, IdleFresh
<1>5. AtNodes'
  BY <1>1, <1>2, GraphAssumption DEF IInv, TypeOK, AtNodes, IdleFresh
<1>6. /\ \A q \in Requests : Ended(q)' <=> Ended(q)
      /\ \A q \in Requests \ {r} : pc'[q] = pc[q] /\ flow'[q] = flow[q]
                                 /\ before'[q] = before[q] /\ ctx'[q] = ctx[q]
      /\ pc'[r] = "running" /\ flow'[r] = f /\ reply[r] = "none" /\ r \notin accounts
      /\ before'[r] = {q \in Requests : Ended(q)}
  BY <1>2 DEF IInv, TypeOK, Ended, IdleFresh
<1>7. StoredByItsRequest'
  <2>1. \A g \in Flows : store'[g] # NoRow => pc'[g] = "answered"
    BY <1>2 DEF IInv, TypeOK, StoredByItsRequest, Flows
  <2>2. (\A q \in Requests :
          flow[q] # q /\ reply[q] \notin {"client_error", "server_error"} => Ended(flow[q]))'
    BY <1>6 DEF IInv, TypeOK, StoredByItsRequest, Ended, Flows
  <2>3. \A q \in Requests : before'[q] \subseteq {p \in Requests : Ended(p)'}
    BY <1>6 DEF IInv, TypeOK, StoredByItsRequest
  <2> QED BY <2>1, <2>2, <2>3 DEF StoredByItsRequest
<1>8. SoundContexts'
  BY <1>1, <1>2 DEF IInv, TypeOK, SoundContexts, StepsPassed, UserSupplied
<1>9. ASSUME NEW q \in Requests, q # r, Alone(q)' PROVE Alone(q)
  BY <1>2, <1>6, <1>9 DEF Alone
<1>10. AloneKeepsRow'
  <2> SUFFICES ASSUME NEW q \in Requests, pc'[q] \in {"running", "creating", "persisting"},
                      flow'[q] # q, Alone(q)'
               PROVE  store[flow'[q]] # NoRow
    BY DEF AloneKeepsRow
  <2> QED BY <1>6, <1>9 DEF IInv, AloneKeepsRow
<1>11. LookedBefore'
  BY <1>6 DEF IInv, TypeOK, LookedBefore
<1>12. EndedIsGone'
  BY <1>6 DEF IInv, EndedIsGone
<1>13. LastAnswerStands'
  <2> SUFFICES ASSUME NEW q \in Requests, pc'[q] = "answered",
                      reply'[q] \in {"INCOMPLETE", "ERROR"}, Alone(q)'
               PROVE  store'[flow'[q]] = ctx'[q]
    BY DEF LastAnswerStands
  <2>1. q # r
    BY <1>6
  <2> QED BY <1>6, <1>9, <2>1 DEF IInv, LastAnswerStands
<1>14. NoAccountTwice'
  BY <1>6 DEF IInv, TypeOK, NoAccountTwice
<1>15. CreatingAtProvisioning'
  BY <1>6 DEF IInv, CreatingAtProvisioning
<1> QED BY <1>3, <1>4, <1>5, <1>7, <1>8, <1>10, <1>11, <1>12, <1>13, <1>14, <1>15 DEF IInv

\* A request ends without running: it is refused, fails, or only initiates.
LEMMA EndsAtOnce ==
  ASSUME IInv, NEW r \in Requests, NEW f \in Flows, Begin(r),
         NEW a \in {"client_error", "server_error", "INITIATED"},
         a = "INITIATED" => f = r,
         flow' = [flow EXCEPT ![r] = f],
         Answer(r, a),
         \/ store' = store
         \/ f = r /\ store' = [store EXCEPT ![r] = FreshContext],
         UNCHANGED <<ctx, asserted, accounts, started, restarts>>
  PROVE  IInv'
<1>1. /\ pc' = [pc EXCEPT ![r] = "answered"]
      /\ reply' = [reply EXCEPT ![r] = a]
      /\ pc[r] = "idle"
      /\ before' = [before EXCEPT ![r] = {q \in Requests : Ended(q)}]
  BY DEF Begin, Answer
<1>2. /\ FreshContext \in Contexts /\ FreshContext # NoRow
      /\ StepsPassed(FreshContext) /\ UserSupplied(FreshContext)
  BY FreshFacts
<1>3. TypeOK'
  BY <1>1, <1>2 DEF IInv, TypeOK, Flows, Replies
<1>4. /\ \A q \in Requests : Ended(q) => pc'[q] \in {"answered", "lost"}
      /\ \A q \in Requests \ {r} : pc'[q] = pc[q] /\ flow'[q] = flow[q]
                                 /\ before'[q] = before[q] /\ reply'[q] = reply[q]
      /\ pc'[r] = "answered" /\ flow'[r] = f /\ reply'[r] = a /\ r \notin accounts
      /\ before'[r] = {q \in Requests : Ended(q)} /\ ~Ended(r)
  BY <1>1 DEF IInv, TypeOK, Ended, IdleFresh
<1>5. \A q \in Requests \ {r} :
        flow[q] = r => reply[q] \in {"client_error", "server_error"} \/ pc[q] = "idle"
  BY <1>4 DEF IInv, StoredByItsRequest, IdleFresh
<1>6. \A q \in Requests \ {r} : flow[q] # r => store'[flow[q]] = store[flow[q]]
  BY DEF IInv, TypeOK, Flows
<1>7. IdleFresh' /\ AtNodes' /\ CreatingAtProvisioning'
  <2>1. IdleFresh'
    BY <1>4 DEF IInv, IdleFresh
  <2>2. AtNodes'
    BY <1>4 DEF IInv, AtNodes
  <2>3. CreatingAtProvisioning'
    BY <1>4 DEF IInv, CreatingAtProvisioning
  <2> QED BY <2>1, <2>2, <2>3
<1>8. StoredByItsRequest'
  <2>1. \A g \in Flows : store'[g] # NoRow => pc'[g] = "answered"
    BY <1>1, <1>4 DEF IInv, TypeOK, StoredByItsRequest, Flows
  <2>2. (\A q \in Requests :
          flow[q] # q /\ reply[q] \notin {"client_error", "server_error"} => Ended(flow[q]))'
    BY <1>4 DEF IInv, TypeOK, StoredByItsRequest, Ended, Flows
  <2>3. \A q \in Requests : before'[q] \subseteq {p \in Requests : pc'[p] \in {"answered", "lost"}}
    BY <1>4 DEF IInv, TypeOK, StoredByItsRequest
  <2> QED BY <2>1, <2>2, <2>3 DEF StoredByItsRequest, Ended
<1>9. SoundContexts'
  <2>1. \A g \in Flows : store'[g] # NoRow => StepsPassed(store'[g]) /\ UserSupplied(store'[g])
    BY <1>2 DEF IInv, TypeOK, SoundContexts, Flows
  <2> QED BY <2>1 DEF IInv, SoundContexts, StepsPassed, UserSupplied
<1>10. ASSUME NEW q \in Requests, q # r, Alone(q)' PROVE Alone(q)
  BY <1>1, <1>4, <1>10 DEF Alone
<1>11. AloneKeepsRow'
  <2> SUFFICES ASSUME NEW q \in Requests, pc'[q] \in {"running", "creating", "persisting"},
                      flow'[q] # q, Alone(q)'
               PROVE  store'[flow'[q]] # NoRow
    BY DEF AloneKeepsRow
  <2>1. q # r /\ flow'[q] = flow[q] /\ Alone(q)
    BY <1>4, <1>10
  <2>2. store[flow[q]] # NoRow
    BY <1>4, <2>1 DEF IInv, AloneKeepsRow
  <2> QED BY <1>2, <2>1, <2>2 DEF IInv, TypeOK, Flows
<1>12. LookedBefore' /\ NoAccountTwice'
  BY <1>4 DEF IInv, TypeOK, LookedBefore, NoAccountTwice
<1>13. EndedIsGone'
  BY <1>4, <1>5, <1>6 DEF IInv, EndedIsGone
<1>14. LastAnswerStands'
  <2> SUFFICES ASSUME NEW q \in Requests, pc'[q] = "answered",
                      reply'[q] \in {"INCOMPLETE", "ERROR"}, Alone(q)'
               PROVE  store'[flow'[q]] = ctx'[q]
    BY DEF LastAnswerStands
  <2>1. q # r /\ flow'[q] = flow[q] /\ Alone(q) /\ flow[q] # r
    BY <1>4, <1>5, <1>10
  <2> QED BY <1>4, <1>6, <2>1 DEF IInv, LastAnswerStands
<1> QED BY <1>3, <1>7, <1>8, <1>9, <1>11, <1>12, <1>13, <1>14 DEF IInv

-----------------------------------------------------------------------------
(* The invariant is inductive: the engine, and the end of a request.       *)

\* A request moves on inside the engine, with a sound context c.
LEMMA EngineStep ==
  ASSUME IInv, NEW r \in Requests, pc[r] \in {"running", "creating"},
         NEW c \in Contexts, StepsPassed(c), UserSupplied(c),
         NEW b \in BOOLEAN, b => c.authn,
         NEW p \in {"running", "creating", "persisting"},
         NEW a \in Replies,
         p # "persisting" => c.node \in Nodes /\ a = "none",
         a = "COMPLETE" => c.node = NoNode,
         p = "creating" => Identity(c.node),
         p = "creating" => \A q \in accounts : Person[flow[q]] # Person[flow[r]],
         ctx' = [ctx EXCEPT ![r] = c],
         asserted' = [asserted EXCEPT ![r] = b],
         pc' = [pc EXCEPT ![r] = p],
         reply' = [reply EXCEPT ![r] = a],
         \/ accounts' = accounts
         \/ pc[r] = "creating" /\ p # "creating" /\ accounts' = accounts \cup {r},
         UNCHANGED <<store, flow, started, before, restarts>>
  PROVE  IInv'
<1>1. TypeOK'
  BY DEF IInv, TypeOK
<1>2. /\ \A q \in Requests : (pc'[q] \in {"answered", "lost"}) <=> Ended(q)
      /\ \A q \in Requests : pc'[q] = "idle" <=> pc[q] = "idle"
      /\ \A q \in Requests \ {r} : pc'[q] = pc[q] /\ ctx'[q] = ctx[q] /\ reply'[q] = reply[q]
      /\ pc'[r] = p /\ ctx'[r] = c /\ reply'[r] = a /\ reply[r] = "none" /\ ~Ended(r)
  BY DEF IInv, TypeOK, Ended, AtNodes
<1>3. \A q \in Requests : r \notin before[q]
  BY <1>2 DEF IInv, StoredByItsRequest
<1>4. IdleFresh' /\ AtNodes' /\ CreatingAtProvisioning'
  BY <1>2, GraphAssumption DEF IInv, TypeOK, IdleFresh, AtNodes, CreatingAtProvisioning
<1>5. StoredByItsRequest'
  <2>1. \A g \in Flows : store'[g] # NoRow => pc'[g] = "answered"
    BY <1>2 DEF IInv, StoredByItsRequest, Flows, Ended
  <2>2. (\A q \in Requests :
          flow[q] # q /\ reply[q] \notin {"client_error", "server_error"} => Ended(flow[q]))'
    BY <1>2 DEF IInv, TypeOK, StoredByItsRequest, Ended, Flows
  <2>3. \A q \in Requests : before'[q] \subseteq {x \in Requests : pc'[x] \in {"answered", "lost"}}
    BY <1>2 DEF IInv, TypeOK, StoredByItsRequest
  <2> QED BY <2>1, <2>2, <2>3 DEF StoredByItsRequest, Ended
<1>6. SoundContexts'
  BY DEF IInv, TypeOK, SoundContexts, StepsPassed, UserSupplied
<1>7. \A q \in Requests : Alone(q)' <=> Alone(q)
  BY <1>2 DEF Alone
<1>8. AloneKeepsRow'
  BY <1>2, <1>7 DEF IInv, AloneKeepsRow
<1>9. LookedBefore'
  <2> SUFFICES ASSUME NEW q \in Requests, pc'[q] = "creating", NEW x \in accounts',
                      Person[flow[x]] = Person[flow[q]]
               PROVE  x \notin before[q]
    BY DEF LookedBefore
  <2>1. CASE x \in accounts
    BY <1>2, <2>1 DEF IInv, LookedBefore
  <2>2. CASE x = r
    BY <1>3, <2>2
  <2> QED BY <2>1, <2>2
<1>10. NoAccountTwice'
  <2>1. CASE accounts' = accounts
    BY <2>1 DEF IInv, NoAccountTwice
  <2>2. CASE pc[r] = "creating" /\ accounts' = accounts \cup {r}
    BY <1>3, <2>2 DEF IInv, TypeOK, NoAccountTwice, LookedBefore
  <2> QED BY <2>1, <2>2
<1>11. EndedIsGone' /\ LastAnswerStands'
  BY <1>2, <1>7 DEF IInv, EndedIsGone, LastAnswerStands
<1> QED BY <1>1, <1>4, <1>5, <1>6, <1>8, <1>9, <1>10, <1>11 DEF IInv

\* A request stores, updates or removes its context and is answered.
LEMMA PersistStep ==
  ASSUME IInv, NEW r \in Requests, pc[r] = "persisting",
         NEW a \in {reply[r], "server_error"},
         pc' = [pc EXCEPT ![r] = "answered"],
         reply' = [reply EXCEPT ![r] = a],
         \/ a = "server_error" /\ store' = store
         \/ store' = [store EXCEPT ![flow[r]] = Persisted(r)],
         UNCHANGED <<flow, ctx, asserted, accounts, started, before, restarts>>
  PROVE  IInv'
<1>1. /\ Persisted(r) \in Contexts \cup {NoRow}
      /\ Persisted(r) \in {NoRow, ctx[r], store[flow[r]]}
      /\ flow[r] \in Flows
  BY DEF IInv, TypeOK, Persisted, Flows
<1>2. TypeOK'
  BY <1>1 DEF IInv, TypeOK, Replies
<1>3. /\ \A q \in Requests : Ended(q) => pc'[q] \in {"answered", "lost"}
      /\ \A q \in Requests : pc'[q] = "idle" <=> pc[q] = "idle"
      /\ \A q \in Requests \ {r} : pc'[q] = pc[q] /\ reply'[q] = reply[q]
      /\ pc'[r] = "answered" /\ reply'[r] = a /\ ~Ended(r)
  BY DEF IInv, TypeOK, Ended
<1>4. /\ \A q \in Requests : r \notin before[q]
      /\ \A q \in Requests : Alone(q)' <=> Alone(q)
  BY <1>3 DEF IInv, StoredByItsRequest, Alone
<1>5. \A g \in Flows : g # flow[r] => store'[g] = store[g]
  BY DEF IInv, TypeOK
<1>6. store'[flow[r]] \in {store[flow[r]], Persisted(r)}
  BY <1>1 DEF IInv, TypeOK
\* Another request of the same flow is not the only one.
<1>7. \A q \in Requests \ {r} : flow[q] = flow[r] => ~Alone(q)
  BY <1>4 DEF Alone
\* A row appears only when the request that creates the flow is answered.
<1>8. store'[flow[r]] # NoRow => flow[r] = r \/ store[flow[r]] # NoRow
  BY <1>6 DEF Persisted, IsNew
<1>9. IdleFresh' /\ AtNodes' /\ CreatingAtProvisioning'
  BY <1>3 DEF IInv, IdleFresh, AtNodes, CreatingAtProvisioning
<1>10. StoredByItsRequest'
  <2>1. \A g \in Flows : store'[g] # NoRow => pc'[g] = "answered"
    BY <1>3, <1>5, <1>8 DEF IInv, StoredByItsRequest, Flows
  <2>2. (\A q \in Requests :
          flow[q] # q /\ reply[q] \notin {"client_error", "server_error"} => Ended(flow[q]))'
    BY <1>3 DEF IInv, TypeOK, StoredByItsRequest, Ended, Flows
  <2>3. \A q \in Requests : before'[q] \subseteq {x \in Requests : pc'[x] \in {"answered", "lost"}}
    BY <1>3 DEF IInv, StoredByItsRequest
  <2> QED BY <2>1, <2>2, <2>3 DEF StoredByItsRequest, Ended
<1>11. SoundContexts'
  <2>1. \A g \in Flows : store'[g] # NoRow => StepsPassed(store'[g]) /\ UserSupplied(store'[g])
    BY <1>1, <1>5, <1>6 DEF IInv, SoundContexts
  <2> QED BY <2>1 DEF IInv, SoundContexts, StepsPassed, UserSupplied
<1>12. AloneKeepsRow'
  <2> SUFFICES ASSUME NEW q \in Requests, pc'[q] \in {"running", "creating", "persisting"},
                      flow[q] # q, Alone(q)
               PROVE  store'[flow[q]] # NoRow
    BY <1>4 DEF AloneKeepsRow
  <2>1. q # r /\ flow[q] # flow[r]
    BY <1>3, <1>7
  <2> QED BY <1>3, <1>5, <2>1 DEF IInv, TypeOK, AloneKeepsRow
<1>13. LookedBefore' /\ NoAccountTwice'
  BY <1>3 DEF IInv, LookedBefore, NoAccountTwice
<1>14. EndedIsGone'
  <2> SUFFICES ASSUME NEW q \in Requests, pc'[q] = "answered",
                      reply'[q] \in {"COMPLETE", "engine_error"}
               PROVE  store'[flow[q]] = NoRow
    BY DEF EndedIsGone
  <2>1. CASE q = r
    <3>1. reply[r] \in {"COMPLETE", "engine_error"} /\ a = reply[r]
      BY <1>3, <2>1
    <3>2. store'[flow[r]] = Persisted(r)
      BY <1>1, <3>1 DEF IInv, TypeOK
    <3> QED BY <2>1, <3>1, <3>2 DEF IInv, StoredByItsRequest, Persisted, IsNew, Flows
  <2>2. CASE q # r /\ flow[q] = flow[r]
    <3>1. store[flow[r]] = NoRow
      BY <1>3, <2>2 DEF IInv, EndedIsGone
    <3>2. flow[r] # r
      BY <1>3, <2>2 DEF IInv, StoredByItsRequest
    <3> QED BY <1>8, <2>2, <3>1, <3>2
  <2>3. CASE q # r /\ flow[q] # flow[r]
    BY <1>3, <1>5, <2>3 DEF IInv, TypeOK, EndedIsGone
  <2> QED BY <2>1, <2>2, <2>3
<1>15. LastAnswerStands'
  <2> SUFFICES ASSUME NEW q \in Requests, pc'[q] = "answered",
                      reply'[q] \in {"INCOMPLETE", "ERROR"}, Alone(q)
               PROVE  store'[flow[q]] = ctx[q]
    BY <1>4 DEF LastAnswerStands
  <2>1. CASE q = r
    <3>1. reply[r] \in {"INCOMPLETE", "ERROR"} /\ a = reply[r]
      BY <1>3, <2>1
    <3>2. store'[flow[r]] = Persisted(r)
      BY <1>1, <3>1 DEF IInv, TypeOK
    <3>3. flow[r] = r \/ store[flow[r]] # NoRow
      BY <2>1 DEF IInv, AloneKeepsRow
    <3>4. Persisted(r) = ctx[r]
      <4>1. reply[r] \notin {"COMPLETE", "engine_error"}
        BY <3>1
      <4>2. CASE flow[r] = r
        BY <4>1, <4>2 DEF Persisted, IsNew
      <4>3. CASE flow[r] # r
        BY <3>3, <4>1, <4>3 DEF Persisted, IsNew
      <4> QED BY <4>2, <4>3
    <3> QED BY <2>1, <3>2, <3>4
  <2>2. CASE q # r
    <3>1. flow[q] # flow[r]
      BY <1>7, <2>2
    <3> QED BY <1>3, <1>5, <2>2, <3>1 DEF IInv, TypeOK, LastAnswerStands
  <2> QED BY <2>1, <2>2
<1> QED BY <1>2, <1>9, <1>10, <1>11, <1>12, <1>13, <1>14, <1>15 DEF IInv

\* The server restarts.
LEMMA RestartStep ==
  ASSUME IInv, Restart
  PROVE  IInv'
<1>1. TypeOK'
  BY GraphAssumption DEF IInv, TypeOK, Restart
<1>2. /\ \A q \in Requests : Ended(q) => pc'[q] = pc[q]
      /\ \A q \in Requests : pc'[q] \in {pc[q], "lost"}
      /\ \A q \in Requests : pc'[q] = "idle" <=> pc[q] = "idle"
      /\ \A q \in Requests : pc'[q] \notin {"running", "creating", "persisting"}
  BY DEF IInv, TypeOK, Restart, Ended
<1>3. /\ UNCHANGED <<store, flow, ctx, asserted, reply, accounts, started, before>>
      /\ \A q \in Requests : Ended(q) => Ended(q)'
  BY <1>2 DEF Restart, Ended
<1>4. \A q \in Requests : Alone(q)' <=> Alone(q)
  BY <1>2, <1>3 DEF Alone
<1>5. IdleFresh' /\ AtNodes' /\ CreatingAtProvisioning' /\ AloneKeepsRow' /\ LookedBefore'
  BY <1>2, <1>3
  DEF IInv, IdleFresh, AtNodes, CreatingAtProvisioning, AloneKeepsRow, LookedBefore
<1>6. StoredByItsRequest'
  <2>1. (\A g \in Flows : store[g] # NoRow => pc[g] = "answered")'
    BY <1>2, <1>3 DEF IInv, StoredByItsRequest, Flows, Ended
  <2>2. (\A q \in Requests :
          flow[q] # q /\ reply[q] \notin {"client_error", "server_error"} => Ended(flow[q]))'
    BY <1>3 DEF IInv, TypeOK, StoredByItsRequest, Flows
  <2>3. (\A q \in Requests : before[q] \subseteq {x \in Requests : Ended(x)})'
    BY <1>3 DEF IInv, StoredByItsRequest
  <2> QED BY <2>1, <2>2, <2>3 DEF StoredByItsRequest
<1>7. SoundContexts' /\ NoAccountTwice'
  BY <1>3 DEF IInv, SoundContexts, StepsPassed, UserSupplied, NoAccountTwice
<1>8. EndedIsGone' /\ LastAnswerStands'
  BY <1>2, <1>3, <1>4 DEF IInv, EndedIsGone, LastAnswerStands
<1> QED BY <1>1, <1>5, <1>6, <1>7, <1>8 DEF IInv

\* A node has executed: the request goes on with what processNodeResponse made
\* of the response.
LEMMA ProcessStep ==
  ASSUME IInv, NEW r \in Requests, pc[r] \in {"running", "creating"},
         NEW resp \in NodeResponses,
         resp.authn => Identity(ctx[r].node),
         resp.assertion => ctx[r].authn /\ NodeType[ctx[r].node] = "TASK_EXECUTION"
                                        /\ Executor[ctx[r].node] = "assert",
         Process(r, resp),
         \/ accounts' = accounts
         \/ pc[r] = "creating" /\ accounts' = accounts \cup {r},
         UNCHANGED <<store, flow, started, before, restarts>>
  PROVE  IInv'
<1> DEFINE n == ctx[r].node
           c == AfterNode(ctx[r], resp)
           m == NextNode(n, resp)
<1>1. /\ ctx[r] \in Contexts /\ n \in Nodes /\ reply[r] = "none"
      /\ StepsPassed(ctx[r]) /\ UserSupplied(ctx[r])
  BY DEF IInv, TypeOK, AtNodes, SoundContexts
<1>2. /\ resp \in NodeResponses
      /\ resp.authn => Identity(n)
      /\ resp.assertion => ctx[r].authn /\ NodeType[n] = "TASK_EXECUTION" /\ Executor[n] = "assert"
  OBVIOUS
<1>3. /\ c \in Contexts /\ c.node = n /\ c.history \in [Nodes -> Statuses]
      /\ c.history[n] = AttemptStatus(resp.status)
      /\ StepsPassed(c) /\ UserSupplied(c)
      /\ ~UpdatesUser(n, ctx[r].flags \cup resp.flags) => c.authn = ctx[r].authn
  <2>1. /\ c \in Contexts /\ c.node = n
        /\ c.history[n] = AttemptStatus(resp.status)
        /\ StepsPassed(c) /\ UserSupplied(c)
        /\ ~UpdatesUser(n, ctx[r].flags \cup resp.flags) => c.authn = ctx[r].authn
    BY <1>1, <1>2, AfterNodeFacts
  <2> QED BY <2>1 DEF Contexts
<1>4. m \in Nodes \cup {NoNode}
  BY <1>1, <1>2, NextNodeType
<1>5. resp.assertion => c.authn
  BY <1>2, <1>3 DEF UpdatesUser
<1>6. /\ resp.assertion \in BOOLEAN
      /\ resp.status \in NodeStatuses
      /\ resp.status # "COMPLETE" => AttemptStatus(resp.status) \in {"INCOMPLETE", "ERROR"}
  BY <1>2 DEF NodeResponses, NodeStatuses, AttemptStatus
<1>7. /\ asserted' = [asserted EXCEPT ![r] = resp.assertion]
      /\ \/ resp.status = "COMPLETE" /\ MoveTo(r, c, m)
         \/ /\ resp.status # "COMPLETE"
            /\ ctx' = [ctx EXCEPT ![r] = c]
            /\ pc' = [pc EXCEPT ![r] = "persisting"]
            /\ reply' = [reply EXCEPT ![r] = AttemptStatus(resp.status)]
  BY <1>3 DEF Process
<1> HIDE DEF n, c, m
<1>8. CASE resp.status # "COMPLETE"
  <2>1. PICK a \in {"INCOMPLETE", "ERROR"} : a = AttemptStatus(resp.status)
    BY <1>6, <1>8
  <2>2. /\ ctx' = [ctx EXCEPT ![r] = c]
        /\ pc' = [pc EXCEPT ![r] = "persisting"]
        /\ reply' = [reply EXCEPT ![r] = a]
        /\ a \in Replies
    BY <1>7, <1>8, <2>1 DEF Replies
  <2> QED BY <1>3, <1>5, <1>6, <1>7, <2>1, <2>2, EngineStep
<1>9. CASE resp.status = "COMPLETE"
  <2> DEFINE e == [c EXCEPT !.node = m]
  <2>1. /\ e \in Contexts /\ e.node = m /\ e.history = c.history /\ e.authn = c.authn
    BY <1>3, <1>4 DEF Contexts
  <2>2. ctx' = [ctx EXCEPT ![r] = e]
    BY <1>7, <1>9 DEF MoveTo
  <2> HIDE DEF e
  <2>3. StepsPassed(e) /\ UserSupplied(e)
    BY <1>3, <1>9, <2>1 DEF StepsPassed, UserSupplied, AttemptStatus
  <2>4. resp.assertion => e.authn
    BY <1>5, <2>1
  <2>5. CASE m = NoNode
    <3>1. /\ pc' = [pc EXCEPT ![r] = "persisting"]
          /\ reply' = [reply EXCEPT ![r] = "COMPLETE"]
      BY <1>7, <1>9, <2>5 DEF MoveTo
    <3>2. "COMPLETE" \in Replies
      BY DEF Replies
    <3> QED BY <1>6, <1>7, <2>1, <2>2, <2>3, <2>4, <2>5, <3>1, <3>2, EngineStep
  <2>6. CASE m # NoNode
    <3>1. /\ pc' = [pc EXCEPT ![r] = "running"]
          /\ reply' = [reply EXCEPT ![r] = "none"]
      BY <1>1, <1>7, <1>9, <2>6 DEF MoveTo
    <3>2. "none" \in Replies /\ m \in Nodes
      BY <1>4, <2>6 DEF Replies
    <3> QED BY <1>6, <1>7, <2>1, <2>2, <2>3, <2>4, <3>1, <3>2, EngineStep
  <2> QED BY <2>5, <2>6
<1> QED BY <1>8, <1>9

\* A condition that is not met: the context moves on, with its history.
LEMMA SkipStep ==
  ASSUME IInv, NEW r \in Requests, SkipNode(r)
  PROVE  IInv'
<1> DEFINE n == ctx[r].node
           m == NextNode(n, Response("COMPLETE"))
           e == [ctx[r] EXCEPT !.node = m]
<1>1. /\ ctx[r] \in Contexts /\ n \in Nodes /\ reply[r] = "none" /\ pc[r] = "running"
      /\ n \in Conditional /\ asserted[r] \in BOOLEAN /\ (asserted[r] => ctx[r].authn)
      /\ StepsPassed(ctx[r]) /\ UserSupplied(ctx[r])
  BY DEF IInv, TypeOK, AtNodes, SoundContexts, SkipNode
<1>2. m \in Nodes \cup {NoNode}
  BY <1>1, NextNodeType, PlainResponse DEF NodeStatuses
<1>3. /\ e \in Contexts /\ e.node = m /\ e.history = ctx[r].history /\ e.authn = ctx[r].authn
  BY <1>1, <1>2 DEF Contexts
<1>4. /\ MoveTo(r, ctx[r], m)
      /\ ctx' = [ctx EXCEPT ![r] = e]
      /\ UNCHANGED <<store, flow, asserted, accounts, started, before, restarts>>
  BY DEF SkipNode, MoveTo
<1>5. asserted' = [asserted EXCEPT ![r] = asserted[r]]
  BY <1>4 DEF IInv, TypeOK
<1> HIDE DEF n, m, e
<1>6. StepsPassed(e) /\ UserSupplied(e)
  BY <1>1, <1>3 DEF StepsPassed, UserSupplied, n
<1>7. CASE m = NoNode
  <2>1. /\ pc' = [pc EXCEPT ![r] = "persisting"]
        /\ reply' = [reply EXCEPT ![r] = "COMPLETE"]
    BY <1>4, <1>7 DEF MoveTo
  <2>2. "COMPLETE" \in Replies
    BY DEF Replies
  <2> QED BY <1>1, <1>3, <1>4, <1>5, <1>6, <1>7, <2>1, <2>2, EngineStep
<1>8. CASE m # NoNode
  <2>1. /\ pc' = [pc EXCEPT ![r] = "running"]
        /\ reply' = [reply EXCEPT ![r] = "none"]
    BY <1>1, <1>4, <1>8 DEF MoveTo
  <2>2. "none" \in Replies /\ m \in Nodes
    BY <1>2, <1>8 DEF Replies
  <2> QED BY <1>1, <1>3, <1>4, <1>5, <1>6, <2>1, <2>2, EngineStep
<1> QED BY <1>7, <1>8

\* The context stays as it is: nobody was identified, or the engine gave up.
LEMMA SameContextStep ==
  ASSUME IInv, NEW r \in Requests, IdentifyNobody(r) \/ EngineError(r)
  PROVE  IInv'
<1>1. /\ ctx[r] \in Contexts /\ ctx[r].node \in Nodes /\ reply[r] = "none"
      /\ pc[r] = "running" /\ asserted[r] \in BOOLEAN /\ (asserted[r] => ctx[r].authn)
      /\ StepsPassed(ctx[r]) /\ UserSupplied(ctx[r])
  BY DEF IInv, TypeOK, AtNodes, SoundContexts, IdentifyNobody, EngineError
<1>2. /\ ctx' = [ctx EXCEPT ![r] = ctx[r]]
      /\ asserted' = [asserted EXCEPT ![r] = asserted[r]]
      /\ UNCHANGED <<store, flow, accounts, started, before, restarts>>
  BY DEF IInv, TypeOK, IdentifyNobody, EngineError
<1>3. CASE IdentifyNobody(r)
  <2>1. /\ pc' = [pc EXCEPT ![r] = "creating"]
        /\ reply' = [reply EXCEPT ![r] = "none"]
    BY <1>1, <1>3 DEF IInv, TypeOK, IdentifyNobody
  <2>2. \A q \in accounts : Person[flow[q]] # Person[flow[r]]
    BY <1>3 DEF IdentifyNobody, Creates, HasAccount
  <2>3. "none" \in Replies /\ Identity(ctx[r].node)
    BY <1>3 DEF Replies, IdentifyNobody, Creates, Identity
  <2> QED BY <1>1, <1>2, <2>1, <2>2, <2>3, EngineStep
<1>4. CASE EngineError(r)
  <2>1. /\ pc' = [pc EXCEPT ![r] = "persisting"]
        /\ reply' = [reply EXCEPT ![r] = "engine_error"]
    BY <1>4 DEF EngineError
  <2>2. "engine_error" \in Replies
    BY DEF Replies
  <2> QED BY <1>1, <1>2, <2>1, <2>2, EngineStep
<1> QED BY <1>3, <1>4

\* The account is created: its node is a provisioning node, and its user the
\* authenticated user.
LEMMA CreateStep ==
  ASSUME IInv, NEW r \in Requests, CreateAccount(r)
  PROVE  IInv'
<1>1. Identity(ctx[r].node)
  BY DEF IInv, CreatingAtProvisioning, CreateAccount
<1>2. PICK resp \in {[Response("COMPLETE") EXCEPT !.authn = TRUE], Response("FAILURE")} :
        Process(r, resp)
  BY DEF CreateAccount
<1>3. resp \in NodeResponses /\ resp.assertion = FALSE
  BY <1>2, PlainResponse, RichResponse DEF NodeStatuses
<1> QED BY <1>1, <1>2, <1>3, ProcessStep DEF CreateAccount

-----------------------------------------------------------------------------
(* The theorems.                                                           *)

LEMMA InitInvariant ==
  ASSUME Init
  PROVE  IInv
<1>1. /\ TypeOK
      /\ StepsPassed(FreshContext) /\ UserSupplied(FreshContext)
  BY FreshFacts, GraphAssumption DEF Init, TypeOK, Flows, Replies
<1>2. /\ \A f \in Flows : store[f] = NoRow
      /\ \A r \in Requests :
            /\ pc[r] = "idle" /\ flow[r] = r /\ reply[r] = "none"
            /\ ctx[r] = FreshContext /\ asserted[r] = FALSE /\ before[r] = {}
      /\ accounts = {}
  BY DEF Init
<1>3. IdleFresh /\ AtNodes /\ CreatingAtProvisioning /\ StoredByItsRequest
  BY <1>2 DEF IdleFresh, AtNodes, CreatingAtProvisioning, StoredByItsRequest
<1>4. SoundContexts /\ AloneKeepsRow /\ LookedBefore
  BY <1>1, <1>2 DEF SoundContexts, AloneKeepsRow, LookedBefore
<1>5. EndedIsGone /\ LastAnswerStands /\ NoAccountTwice
  BY <1>2 DEF EndedIsGone, LastAnswerStands, NoAccountTwice
<1> QED BY <1>1, <1>3, <1>4, <1>5 DEF IInv

LEMMA StepInvariant ==
  ASSUME IInv, [Next]_flowVars
  PROVE  IInv'
<1> USE DEF Flows
<1>1. ASSUME NEW r \in Requests, NEW a \in SentActions, NEW i \in SUBSET Inputs,
             NewFlow(r, a, i)
      PROVE  IInv'
  BY <1>1, RunsFlow, FreshFacts DEF NewFlow
<1>2. ASSUME NEW r \in Requests, NEW f \in Flows, NEW a \in SentActions,
             NEW i \in SUBSET Inputs, ContinueFlow(r, f, a, i)
      PROVE  IInv'
  <2>1. store[f] \in Contexts /\ StepsPassed(store[f]) /\ UserSupplied(store[f])
    BY <1>2 DEF IInv, TypeOK, SoundContexts, ContinueFlow
  <2> QED BY <1>2, <2>1, RunsFlow DEF ContinueFlow
<1>3. ASSUME NEW r \in Requests, NEW f \in Flows, UnknownFlow(r, f) \/ LoadFails(r, f)
      PROVE  IInv'
  <2>1. CASE UnknownFlow(r, f)
    BY <2>1, EndsAtOnce DEF UnknownFlow
  <2>2. CASE LoadFails(r, f)
    <3>1. PICK a \in {"client_error", "server_error"} : Answer(r, a)
      BY <2>2 DEF LoadFails
    <3> QED BY <2>2, <3>1, EndsAtOnce DEF LoadFails
  <2> QED BY <1>3, <2>1, <2>2
<1>4. ASSUME NEW r \in Requests, InitiateFlow(r)
      PROVE  IInv'
  <2>1. PICK a \in {"INITIATED", "server_error"} : Answer(r, a)
    BY <1>4 DEF InitiateFlow
  <2> QED BY <1>4, <2>1, EndsAtOnce DEF InitiateFlow
<1>5. ASSUME NEW r \in Requests, SkipNode(r)
      PROVE  IInv'
  BY <1>5, SkipStep
<1>6. ASSUME NEW r \in Requests, ExecuteNode(r)
      PROVE  IInv'
  <2>1. PICK resp \in Responses(ctx[r].node, ctx[r], HasAccount(Person[flow[r]])) :
          Process(r, resp)
    BY <1>6 DEF ExecuteNode
  <2>2. ctx[r] \in Contexts /\ ctx[r].node \in Nodes
    BY <1>6 DEF IInv, TypeOK, AtNodes, ExecuteNode
  <2>3. /\ resp \in NodeResponses
        /\ resp.authn => Identity(ctx[r].node)
        /\ resp.assertion => ctx[r].authn /\ NodeType[ctx[r].node] = "TASK_EXECUTION"
                                          /\ Executor[ctx[r].node] = "assert"
    BY <2>1, <2>2, ResponseFacts
  <2> QED BY <1>6, <2>1, <2>3, ProcessStep DEF ExecuteNode
<1>7. ASSUME NEW r \in Requests, IdentifyNobody(r) \/ EngineError(r)
      PROVE  IInv'
  BY <1>7, SameContextStep
<1>8. ASSUME NEW r \in Requests, CreateAccount(r)
      PROVE  IInv'
  BY <1>8, CreateStep
<1>9. ASSUME NEW r \in Requests, Persist(r) \/ PersistFails(r)
      PROVE  IInv'
  <2>1. CASE Persist(r)
    <3>1. reply' = [reply EXCEPT ![r] = reply[r]]
      BY <2>1 DEF Persist, IInv, TypeOK
    <3> QED BY <2>1, <3>1, PersistStep DEF Persist
  <2>2. CASE PersistFails(r)
    BY <2>2, PersistStep DEF PersistFails, Answer
  <2> QED BY <1>9, <2>1, <2>2
<1>10. CASE UNCHANGED flowVars
  <2>1. UNCHANGED <<store, pc, flow, ctx, asserted, reply, accounts, started, before, restarts>>
    BY <1>10 DEF flowVars
  <2> QED
    BY <2>1 DEF IInv, TypeOK, IdleFresh, AtNodes, CreatingAtProvisioning, StoredByItsRequest,
                SoundContexts, StepsPassed, UserSupplied, AloneKeepsRow, Alone, LookedBefore,
                EndedIsGone, LastAnswerStands, NoAccountTwice, Ended
<1>11. CASE Next
  BY <1>1, <1>2, <1>3, <1>4, <1>5, <1>6, <1>7, <1>8, <1>9, <1>11, RestartStep
  DEF Next, Arrive, Run
<1> QED BY <1>10, <1>11

THEOREM Invariance == Spec => []IInv
<1>1. Init => IInv
  BY InitInvariant
<1>2. IInv /\ [Next]_flowVars => IInv'
  BY StepInvariant
<1> QED BY <1>1, <1>2, PTL DEF Spec

\* Every variable keeps its type, whatever the graph and the requests.
THEOREM TypeCorrect == Spec => []TypeOK
<1>1. IInv => TypeOK
  BY DEF IInv
<1> QED BY <1>1, Invariance, PTL

\* flowExecService.Execute removes the context of a flow that completed or
\* that the engine gave up, and no overlapping request brings it back.
THEOREM EndedIsGoneCorrect == Spec => []EndedIsGone
<1>1. IInv => EndedIsGone
  BY DEF IInv
<1> QED BY <1>1, Invariance, PTL

\* The answer a sequential client received last is what the store holds, also
\* after failures and restarts.
THEOREM LastAnswerStandsCorrect == Spec => []LastAnswerStands
<1>1. IInv => LastAnswerStands
  BY DEF IInv
<1> QED BY <1>1, Invariance, PTL

\* processNodeResponse leaves a node only when it completed, or when its
\* condition is not met: in memory and in the store.
THEOREM EveryStepPassedCorrect == Spec => []EveryStepPassed
<1>1. IInv => EveryStepPassed
  BY DEF IInv, SoundContexts, EveryStepPassed
<1> QED BY <1>1, Invariance, PTL

\* An assertion that is answered belongs to a user that an authentication or
\* provisioning node of the flow supplied.
THEOREM AssertionBackedCorrect == Spec => []AssertionBacked
<1>1. IInv => AssertionBacked
  <2> SUFFICES ASSUME IInv, NEW r \in Requests, pc[r] = "answered",
                      reply[r] = "COMPLETE", asserted[r]
               PROVE  /\ ctx[r].authn
                      /\ \E n \in Nodes : Identity(n) /\ ctx[r].history[n] # "none"
                      /\ \A n \in Nodes \ Conditional : ctx[r].history[n] \in {"none", "COMPLETE"}
    BY DEF AssertionBacked
  <2>1. ctx[r].authn /\ UserSupplied(ctx[r]) /\ StepsPassed(ctx[r]) /\ ctx[r].node \notin Nodes
    BY GraphAssumption DEF IInv, SoundContexts, AtNodes
  <2> QED BY <2>1 DEF UserSupplied, StepsPassed
<1> QED BY <1>1, Invariance, PTL

\* Only provisioning requests that overlap register one person twice.
THEOREM NoAccountTwiceCorrect == Spec => []NoAccountTwice
<1>1. IInv => NoAccountTwice
  BY DEF IInv
<1> QED BY <1>1, Invariance, PTL
=============================================================================
