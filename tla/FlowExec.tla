------------------------------ MODULE FlowExec ------------------------------
(***************************************************************************)
(* Execution of authentication and registration flows                      *)
(* (internal/flow/flowexec and internal/flow/core).                        *)
(*                                                                         *)
(* A request starts a new flow, continues a stored one or only initiates   *)
(* one.  It works on a copy of the flow's context: it loads the copy, runs *)
(* the graph's nodes on it until a node needs the user, fails, or the      *)
(* graph ends, and then stores, updates or removes the context.  Nothing   *)
(* keeps two requests from working on the same flow at the same time, the  *)
(* server may stop between two steps, and each database call may fail.     *)
(* A store operation is one step: its transaction commits or fails whole,  *)
(* and a commit may take effect though its result is an error.             *)
(***************************************************************************)
EXTENDS Naturals, Sequences, FiniteSets

CONSTANTS
    Requests,       \* API calls; the UUID of a new flow is named after its call
    Nodes,          \* node IDs of the flow graph
    StartNode,
    NodeType,       \* [Nodes -> {"TASK_EXECUTION", "DECISION", "PROMPT_ONLY"}]
    NextNodes,      \* [Nodes -> Seq(Nodes)], nextNodeList
    Conditional,    \* the nodes that have a condition
    Executor,       \* executor of a task node: "authn", "provisioning", "assert", "other"
    Required,       \* [Nodes -> SUBSET Inputs], required input data
    Inputs,
    SentActions,    \* the action IDs clients send, NoAction for none
    FlowType,       \* "AUTHENTICATION" or "REGISTRATION"
    Person,         \* [Requests -> ...], whom a flow's attributes identify
    NoNode, NoAction, NoRow,
    MaxRestarts     \* bound on server restarts

Flows == Requests

ASSUME GraphAssumption ==
    /\ StartNode \in Nodes
    /\ NextNodes \in [Nodes -> Seq(Nodes)]
    /\ NoNode \notin Nodes
    /\ NoAction \notin Nodes
    /\ Required \in [Nodes -> SUBSET Inputs]
    /\ SentActions \subseteq Nodes \cup {NoAction}
    /\ MaxRestarts \in Nat

Identity(n) == NodeType[n] = "TASK_EXECUTION" /\ Executor[n] \in {"authn", "provisioning"}

Flags == {"eligible", "skip"}
Statuses == {"none", "INCOMPLETE", "COMPLETE", "ERROR"}

\* EngineContext, as far as it is stored: current node and action, input names,
\* the two runtime keys the engine reads, AuthenticatedUser.IsAuthenticated and
\* the status of each execution record ("none": no record).
Contexts ==
    [node : Nodes \cup {NoNode}, action : Nodes \cup {NoAction}, inputs : SUBSET Inputs,
     flags : SUBSET Flags, authn : BOOLEAN, history : [Nodes -> Statuses]]

ASSUME NoRowAssumption == NoRow \notin Contexts

FreshContext ==
    [node |-> NoNode, action |-> NoAction, inputs |-> {}, flags |-> {},
     authn |-> FALSE, history |-> [n \in Nodes |-> "none"]]

VARIABLES
    store,      \* [Flows -> row], FLOW_CONTEXT joined with FLOW_USER_DATA
    pc,         \* where each request is
    flow,       \* the flow a request works on
    ctx,        \* its EngineContext
    asserted,   \* CurrentNodeResponse carries an assertion
    reply,      \* its outcome: FlowStep status or error, "none" before
    accounts,   \* requests whose provisioning executor created an account
    started,    \* requests that published the flow started event
    before,     \* history: requests that had ended when this one began
    restarts

flowVars == <<store, pc, flow, ctx, asserted, reply, accounts, started, before, restarts>>

Replies == {"none", "INITIATED", "INCOMPLETE", "ERROR", "COMPLETE",
            "client_error", "engine_error", "server_error"}

TypeOK ==
    /\ store \in [Flows -> Contexts \cup {NoRow}]
    /\ pc \in [Requests -> {"idle", "running", "creating", "persisting", "answered", "lost"}]
    /\ flow \in [Requests -> Flows]
    /\ ctx \in [Requests -> Contexts]
    /\ asserted \in [Requests -> BOOLEAN]
    /\ reply \in [Requests -> Replies]
    /\ accounts \in SUBSET Requests
    /\ started \in SUBSET Requests
    /\ before \in [Requests -> SUBSET Requests]
    /\ restarts \in 0..MaxRestarts

Init ==
    /\ store = [f \in Flows |-> NoRow]
    /\ pc = [r \in Requests |-> "idle"]
    /\ flow = [r \in Requests |-> r]
    /\ ctx = [r \in Requests |-> FreshContext]
    /\ asserted = [r \in Requests |-> FALSE]
    /\ reply = [r \in Requests |-> "none"]
    /\ accounts = {}
    /\ started = {}
    /\ before = [r \in Requests |-> {}]
    /\ restarts = 0

Ended(r) == pc[r] \in {"answered", "lost"}

\* r begins: note who had ended by then.
Begin(r) ==
    /\ pc[r] = "idle"
    /\ before' = [before EXCEPT ![r] = {q \in Requests : Ended(q)}]

\* r ends with reply a.
Answer(r, a) ==
    /\ pc' = [pc EXCEPT ![r] = "answered"]
    /\ reply' = [reply EXCEPT ![r] = a]

-----------------------------------------------------------------------------
(* The context when a request begins.                                      *)

\* prepareContext: merge the inputs, take the action if there is one.
Prepared(c, action, inputs) ==
    [c EXCEPT !.inputs = @ \cup inputs, !.action = IF action = NoAction THEN @ ELSE action]

\* setCurrentExecutionNode.
AtNode(c) == [c EXCEPT !.node = IF @ = NoNode THEN StartNode ELSE @]

\* flowEngine.Execute up to its loop: the flow started event is published
\* when the execution history is empty.
EnterEngine(r, c) ==
    /\ ctx' = [ctx EXCEPT ![r] = AtNode(c)]
    /\ asserted' = [asserted EXCEPT ![r] = FALSE]
    /\ started' = IF \A n \in Nodes : c.history[n] = "none" THEN started \cup {r} ELSE started
    /\ pc' = [pc EXCEPT ![r] = "running"]

\* Execute without a flow ID.
NewFlow(r, action, inputs) ==
    /\ Begin(r)
    /\ flow' = [flow EXCEPT ![r] = r]
    /\ EnterEngine(r, Prepared(FreshContext, action, inputs))
    /\ UNCHANGED <<store, reply, accounts, restarts>>

\* Execute with the ID of flow f: one query reads both tables.
ContinueFlow(r, f, action, inputs) ==
    /\ Begin(r)
    /\ store[f] # NoRow
    /\ flow' = [flow EXCEPT ![r] = f]
    /\ EnterEngine(r, Prepared(store[f], action, inputs))
    /\ UNCHANGED <<store, reply, accounts, restarts>>

\* The flow is not stored (any more): ErrorInvalidFlowID.
UnknownFlow(r, f) ==
    /\ Begin(r)
    /\ f # r
    /\ store[f] = NoRow
    /\ flow' = [flow EXCEPT ![r] = f]
    /\ Answer(r, "client_error")
    /\ UNCHANGED <<store, ctx, asserted, accounts, started, restarts>>

\* The query, the application lookup or the graph lookup fails: the context is
\* neither run nor removed.
LoadFails(r, f) ==
    /\ Begin(r)
    /\ flow' = [flow EXCEPT ![r] = f]
    /\ \E a \in {"client_error", "server_error"} : Answer(r, a)
    /\ UNCHANGED <<store, ctx, asserted, accounts, started, restarts>>

\* InitiateFlow: store a context that no node has run on.  A commit may be
\* applied and yet reported as failed; a plain failure is LoadFails.
InitiateFlow(r) ==
    /\ Begin(r)
    /\ flow' = [flow EXCEPT ![r] = r]
    /\ store' = [store EXCEPT ![r] = FreshContext]
    /\ \E a \in {"INITIATED", "server_error"} : Answer(r, a)
    /\ UNCHANGED <<ctx, asserted, accounts, started, restarts>>

-----------------------------------------------------------------------------
(* What a node may answer.                                                 *)

Response(status) ==
    [status |-> status, authn |-> FALSE, flags |-> {}, next |-> NoNode, assertion |-> FALSE]

Missing(n, c) == ~(Required[n] \subseteq c.inputs)

\* decisionNode.Execute: the action names the next node.
DecisionResponses(n, c) ==
    LET next == {NextNodes[n][i] : i \in DOMAIN NextNodes[n]} IN
    CASE c.action = NoAction /\ next # {} -> {Response("INCOMPLETE")}
      [] c.action = NoAction /\ next = {} -> {}
      [] c.action \in next -> {[Response("COMPLETE") EXCEPT !.next = c.action]}
      [] OTHER -> {Response("FAILURE")}

\* promptOnlyNode.Execute.
PromptResponses(n, c) == {Response(IF Missing(n, c) THEN "INCOMPLETE" ELSE "COMPLETE")}

\* Authentication executors.  In an authentication flow the user is known and
\* authenticated, or unknown and eligible for provisioning; in a registration
\* flow unknown, or known and to be skipped by the provisioning.  A redirection
\* or a code that was sent leaves the node incomplete.
AuthnResponses(n, c) ==
    IF Missing(n, c) THEN {Response("INCOMPLETE")}
    ELSE {Response("INCOMPLETE"), Response("FAILURE")} \cup
         IF FlowType = "AUTHENTICATION"
         THEN {[Response("COMPLETE") EXCEPT !.authn = TRUE],
               [Response("COMPLETE") EXCEPT !.flags = {"eligible"}]}
         ELSE {Response("COMPLETE"),
               [Response("COMPLETE") EXCEPT !.authn = TRUE, !.flags = {"skip"}]}

\* authAssertExecutor.Execute.
AssertResponses(c) ==
    IF c.authn THEN {[Response("COMPLETE") EXCEPT !.assertion = TRUE]} ELSE {Response("FAILURE")}

HasAccount(p) == \E r \in accounts : Person[flow[r]] = p

\* provisioningExecutor.Execute up to the creation of the account.
SkipsProvisioning(c) == FlowType = "AUTHENTICATION" /\ "eligible" \notin c.flags

\* Required data that was not sent may be among the attributes an
\* authentication executor has put into the context.
MayProvision(n, c) ==
    \/ ~Missing(n, c)
    \/ \E m \in Nodes : Identity(m) /\ Executor[m] = "authn" /\ c.history[m] # "none"

ProvisioningResponses(n, c, known) ==
    IF SkipsProvisioning(c) THEN {Response("COMPLETE")}
    ELSE (IF Missing(n, c) THEN {Response("INCOMPLETE")} ELSE {}) \cup
         (IF MayProvision(n, c)
          THEN {Response(IF known /\ FlowType = "REGISTRATION" /\ "skip" \in c.flags
                         THEN "COMPLETE" ELSE "FAILURE")}
          ELSE {})

OtherResponses(n, c) ==
    IF Missing(n, c) THEN {Response("INCOMPLETE")}
    ELSE {Response("COMPLETE"), Response("INCOMPLETE"), Response("FAILURE")}

Responses(n, c, known) ==
    CASE NodeType[n] = "DECISION" -> DecisionResponses(n, c)
      [] NodeType[n] = "PROMPT_ONLY" -> PromptResponses(n, c)
      [] NodeType[n] = "TASK_EXECUTION" /\ Executor[n] = "authn" -> AuthnResponses(n, c)
      [] NodeType[n] = "TASK_EXECUTION" /\ Executor[n] = "assert" -> AssertResponses(c)
      [] NodeType[n] = "TASK_EXECUTION" /\ Executor[n] = "provisioning" ->
            ProvisioningResponses(n, c, known)
      [] OTHER -> OtherResponses(n, c)

-----------------------------------------------------------------------------
(* The engine's loop.                                                      *)

\* shouldUpdateAuthenticatedUser, after the runtime data was merged.  It does
\* not look at the status of the response.
UpdatesUser(n, flags) ==
    NodeType[n] = "TASK_EXECUTION" /\
    CASE FlowType = "AUTHENTICATION" ->
            Executor[n] = "authn" \/ (Executor[n] = "provisioning" /\ "eligible" \in flags)
      [] OTHER ->
            IF "skip" \in flags THEN Executor[n] = "authn" ELSE Executor[n] = "provisioning"

AttemptStatus(status) == IF status = "FAILURE" THEN "ERROR" ELSE status

\* recordNodeExecution and updateContextWithNodeResponse.
AfterNode(c, resp) ==
    LET flags == c.flags \cup resp.flags IN
    [c EXCEPT !.history[c.node] = AttemptStatus(resp.status),
              !.action = NoAction,
              !.flags = flags,
              !.authn = IF UpdatesUser(c.node, flags) THEN resp.authn ELSE @]

\* Fault: the engine stays at a task or prompt that completed.
SameNode(n, resp) == IF NodeType[n] = "DECISION" THEN resp.next ELSE n

\* resolveToNextNode: only a decision chooses, any other node has one next node.
NextNode(n, resp) ==
    IF NodeType[n] = "DECISION" THEN resp.next
    ELSE IF NextNodes[n] = <<>> THEN NoNode ELSE NextNodes[n][1]

\* Move to node n, or end the flow when there is none.
MoveTo(r, c, n) ==
    /\ ctx' = [ctx EXCEPT ![r] = [c EXCEPT !.node = n]]
    /\ pc' = [pc EXCEPT ![r] = IF n = NoNode THEN "persisting" ELSE "running"]
    /\ reply' = [reply EXCEPT ![r] = IF n = NoNode THEN "COMPLETE" ELSE @]

\* Fault: a node that failed is left behind like one that completed.
ProcessFailureAsComplete(r, resp) ==
    LET c == AfterNode(ctx[r], resp) IN
    /\ asserted' = [asserted EXCEPT ![r] = resp.assertion]
    /\ \/ resp.status # "INCOMPLETE" /\ MoveTo(r, c, NextNode(c.node, resp))
       \/ /\ resp.status = "INCOMPLETE"
          /\ ctx' = [ctx EXCEPT ![r] = c]
          /\ pc' = [pc EXCEPT ![r] = "persisting"]
          /\ reply' = [reply EXCEPT ![r] = AttemptStatus(resp.status)]

\* processNodeResponse.
Process(r, resp) ==
    LET c == AfterNode(ctx[r], resp) IN
    /\ asserted' = [asserted EXCEPT ![r] = resp.assertion]
    /\ \/ resp.status = "COMPLETE" /\ MoveTo(r, c, NextNode(c.node, resp))
       \/ /\ resp.status # "COMPLETE"
          /\ ctx' = [ctx EXCEPT ![r] = c]
          /\ pc' = [pc EXCEPT ![r] = "persisting"]
          /\ reply' = [reply EXCEPT ![r] = AttemptStatus(resp.status)]

\* A condition that is not met: skip the node.  Decision nodes always execute.
SkipNode(r) ==
    /\ pc[r] = "running"
    /\ ctx[r].node \in Conditional
    /\ NodeType[ctx[r].node] # "DECISION"
    /\ MoveTo(r, ctx[r], NextNode(ctx[r].node, Response("COMPLETE")))
    /\ UNCHANGED <<store, flow, asserted, accounts, started, before, restarts>>

\* Fault: the account is created without looking for one.
CreatesUnchecked(r) ==
    /\ NodeType[ctx[r].node] = "TASK_EXECUTION"
    /\ Executor[ctx[r].node] = "provisioning"
    /\ ~SkipsProvisioning(ctx[r])
    /\ MayProvision(ctx[r].node, ctx[r])

\* A provisioning node that is to create an account: first look for one.
Creates(r) ==
    /\ NodeType[ctx[r].node] = "TASK_EXECUTION"
    /\ Executor[ctx[r].node] = "provisioning"
    /\ ~SkipsProvisioning(ctx[r])
    /\ MayProvision(ctx[r].node, ctx[r])
    /\ ~HasAccount(Person[flow[r]])

ExecuteNode(r) ==
    /\ pc[r] = "running"
    /\ \E resp \in Responses(ctx[r].node, ctx[r], HasAccount(Person[flow[r]])) : Process(r, resp)
    /\ UNCHANGED <<store, flow, accounts, started, before, restarts>>

\* IdentifyUser, here and again in CreateUser, has found nobody.
IdentifyNobody(r) ==
    /\ pc[r] = "running"
    /\ Creates(r)
    /\ pc' = [pc EXCEPT ![r] = "creating"]
    /\ UNCHANGED <<store, flow, ctx, asserted, reply, accounts, started, before, restarts>>

\* The account is inserted, whoever inserted one meanwhile.  The insert may be
\* applied and yet reported as failed.
CreateAccount(r) ==
    /\ pc[r] = "creating"
    /\ accounts' = accounts \cup {r}
    /\ \E resp \in {[Response("COMPLETE") EXCEPT !.authn = TRUE], Response("FAILURE")} :
          Process(r, resp)
    /\ UNCHANGED <<store, flow, started, before, restarts>>

\* An executor returns an error, is not registered, or answers with a response
\* the engine cannot use; or a decision has nothing to offer.
EngineError(r) ==
    /\ pc[r] = "running"
    /\ \/ NodeType[ctx[r].node] = "TASK_EXECUTION"
       \/ NodeType[ctx[r].node] = "DECISION" /\ NextNodes[ctx[r].node] = <<>>
    /\ pc' = [pc EXCEPT ![r] = "persisting"]
    /\ reply' = [reply EXCEPT ![r] = "engine_error"]
    /\ UNCHANGED <<store, flow, ctx, asserted, accounts, started, before, restarts>>

-----------------------------------------------------------------------------
(* The end of a request.                                                   *)

IsNew(r) == flow[r] = r

\* Fault: the context is stored whether or not its row is still there.
PersistedByUpsert(r) ==
    IF reply[r] \in {"COMPLETE", "engine_error"}
    THEN IF IsNew(r) THEN store[flow[r]] ELSE NoRow
    ELSE ctx[r]

\* What Execute does to the flow's row.  UPDATE and DELETE of a row that is
\* gone change nothing and report no error.
Persisted(r) ==
    IF reply[r] \in {"COMPLETE", "engine_error"}
    THEN IF IsNew(r) THEN store[flow[r]] ELSE NoRow
    ELSE IF IsNew(r) \/ store[flow[r]] # NoRow THEN ctx[r] ELSE NoRow

Persist(r) ==
    /\ pc[r] = "persisting"
    /\ store' = [store EXCEPT ![flow[r]] = Persisted(r)]
    /\ pc' = [pc EXCEPT ![r] = "answered"]
    /\ UNCHANGED <<flow, ctx, asserted, reply, accounts, started, before, restarts>>

\* Fault: an error of the transaction is logged, and the step answered.
PersistFailureIgnored(r) ==
    /\ pc[r] = "persisting"
    /\ ~(IsNew(r) /\ reply[r] \in {"COMPLETE", "engine_error"})
    /\ pc' = [pc EXCEPT ![r] = "answered"]
    /\ \/ UNCHANGED store
       \/ store' = [store EXCEPT ![flow[r]] = Persisted(r)]
    /\ UNCHANGED <<flow, ctx, asserted, reply, accounts, started, before, restarts>>

\* The transaction fails, or its commit is applied but reported as failed:
\* InternalServerError.  A new flow that ended needs no transaction.
PersistFails(r) ==
    /\ pc[r] = "persisting"
    /\ ~(IsNew(r) /\ reply[r] \in {"COMPLETE", "engine_error"})
    /\ Answer(r, "server_error")
    /\ \/ UNCHANGED store
       \/ store' = [store EXCEPT ![flow[r]] = Persisted(r)]
    /\ UNCHANGED <<flow, ctx, asserted, accounts, started, before, restarts>>

\* The server stops and starts again: the requests in progress are lost.
Restart ==
    /\ restarts < MaxRestarts
    /\ restarts' = restarts + 1
    /\ pc' = [r \in Requests |->
                IF pc[r] \in {"running", "creating", "persisting"} THEN "lost" ELSE pc[r]]
    /\ UNCHANGED <<store, flow, ctx, asserted, reply, accounts, started, before>>

-----------------------------------------------------------------------------
Arrive(r) ==
    \/ \E a \in SentActions, i \in SUBSET Inputs : NewFlow(r, a, i)
    \/ \E f \in Flows, a \in SentActions, i \in SUBSET Inputs : ContinueFlow(r, f, a, i)
    \/ \E f \in Flows : UnknownFlow(r, f) \/ LoadFails(r, f)
    \/ InitiateFlow(r)

Run(r) ==
    \/ SkipNode(r) \/ ExecuteNode(r) \/ IdentifyNobody(r) \/ CreateAccount(r) \/ EngineError(r)
    \/ Persist(r) \/ PersistFails(r)

Next ==
    \/ \E r \in Requests : Arrive(r) \/ Run(r)
    \/ Restart

\* A request that has begun keeps running (net/http and the Go scheduler), and
\* executors and the database answer.  Nobody has to send a request.
Spec == Init /\ [][Next]_flowVars /\ \A r \in Requests : WF_flowVars(Run(r))

-----------------------------------------------------------------------------
(* Properties.                                                             *)

\* A flow that was answered as complete, or that the engine gave up, is gone
\* for good: a request that loaded it before cannot store it again.
EndedIsGone ==
    \A r \in Requests :
        pc[r] = "answered" /\ reply[r] \in {"COMPLETE", "engine_error"} => store[flow[r]] = NoRow

\* The only request of its flow: the others had ended when it began.
Alone(r) ==
    \A q \in Requests \ {r} : flow[q] = flow[r] /\ pc[q] # "idle" => q \in before[r]

\* A client that sends one request at a time is told where its flow really is:
\* after an answer INCOMPLETE or ERROR the stored context is the one the engine
\* left, whatever failed or was lost before (Execute stores after the engine).
LastAnswerStands ==
    \A r \in Requests :
        pc[r] = "answered" /\ reply[r] \in {"INCOMPLETE", "ERROR"} /\ Alone(r) =>
            store[flow[r]] = ctx[r]

\* Every context, stored or in use: no node is left behind that did not
\* complete, except by a condition.
StepsPassed(c) ==
    \A n \in Nodes \ Conditional : n # c.node => c.history[n] \in {"none", "COMPLETE"}

EveryStepPassed ==
    /\ \A f \in Flows : store[f] # NoRow => StepsPassed(store[f])
    /\ \A r \in Requests : StepsPassed(ctx[r])

\* An assertion is answered only for a user that an authentication or
\* provisioning executor of this flow supplied, and only when every node that
\* was executed has completed at last.
AssertionBacked ==
    \A r \in Requests :
        pc[r] = "answered" /\ reply[r] = "COMPLETE" /\ asserted[r] =>
            /\ ctx[r].authn
            /\ \E n \in Nodes : Identity(n) /\ ctx[r].history[n] # "none"
            /\ \A n \in Nodes \ Conditional : ctx[r].history[n] \in {"none", "COMPLETE"}

\* Retrying a registration, after a failure or a restart, does not register
\* the person twice: only requests that overlap can.
NoAccountTwice ==
    \A r, q \in accounts :
        r # q /\ Person[flow[r]] = Person[flow[q]] => q \notin before[r] /\ r \notin before[q]

\* Every request is answered, unless the server stops.
RequestsAnswered == \A r \in Requests : pc[r] = "running" ~> Ended(r)

=============================================================================
