----------------------------- MODULE FlowGraphs -----------------------------
(***************************************************************************)
(* The flow graphs the server works with (internal/flow/flowmgt and        *)
(* internal/flow/core): definitions are read from files and built into     *)
(* graphs, and an authentication graph without a registration graph of its *)
(* own gets one that is inferred from it.  The maps of Go are iterated in  *)
(* an order nobody chooses.                                                *)
(***************************************************************************)
EXTENDS SequencesExt

CONSTANTS
    Definitions,    \* of the files: [id, type, nodes], of nodes that differ in their IDs and
                    \* name each next node once: [id, type, executor, next, condition]
    Executors,      \* names in the executor registry
    RegistrationID  \* getRegistrationGraphID, from the ID of an authentication graph

\* The prefixes of the IDs tell authentication graphs from registration graphs.  The loop
\* that redirects edges changes the lists it walks: of two edges to one node it may leave one.
ASSUME DefinitionsAssumption ==
    /\ \A d, e \in Definitions : d.id = e.id => d = e
    /\ \A d \in Definitions : \A n, m \in ToSet(d.nodes) : n.id = m.id => n = m
    /\ \A d \in Definitions : \A n \in ToSet(d.nodes) :
          n.next \in Seq(ToSet(n.next)) /\ IsInjective(n.next)
    /\ \A d, e \in Definitions : d.type = "AUTHENTICATION" /\ e.type = "AUTHENTICATION" =>
          RegistrationID[d.id] # e.id /\ (RegistrationID[d.id] = RegistrationID[e.id] => d = e)

VARIABLES
    graphs,         \* s.graphs
    configured      \* the graphs built from files that are not registered yet, by ID

graphVars == <<graphs, configured>>

Backed == {"TASK_EXECUTION", "AUTHENTICATION_SUCCESS", "REGISTRATION_START"}
NodeTypes == Backed \cup {"DECISION", "PROMPT_ONLY"}

\* The executor that a node has if its definition names none.
ExecutorOf(node) ==
    IF node.executor # "" THEN node.executor
    ELSE IF node.type = "AUTHENTICATION_SUCCESS" THEN "AuthAssertExecutor"
    ELSE IF node.type = "REGISTRATION_START" THEN "UserTypeResolver" ELSE ""

Buildable(definition) ==
    LET nodes == ToSet(definition.nodes)
    IN  /\ nodes # {}
        /\ definition.type \in {"AUTHENTICATION", "REGISTRATION"}
        /\ \A n \in nodes :
              /\ n.type \in NodeTypes
              /\ ExecutorOf(n) # "" => n.type \in Backed /\ ExecutorOf(n) \in Executors
              /\ \A m \in ToSet(n.next) : \E k \in nodes : k.id = m

\* CreateNode: all that have an executor become task nodes.
Node(type, executor, next, final, condition) ==
    [type |-> IF type \in Backed THEN "TASK_EXECUTION" ELSE type,
     executor |-> executor, next |-> next, final |-> final, condition |-> condition]

\* AddEdge and RemoveEdge, as far as the lists of next nodes go; those of previous
\* nodes are read to find a start only.
WithEdge(nodes, from, to) ==
    [nodes EXCEPT ![from].next = IF to \in ToSet(@) THEN @ ELSE Append(@, to)]

WithoutEdge(nodes, from, to) == [nodes EXCEPT ![from].next = RemoveFirst(@, to)]

\* buildGraphFromDefinition: any node without a predecessor may become the start.
Built(definition) ==
    LET IDs == {n.id : n \in ToSet(definition.nodes)}
        Of(id) == CHOOSE n \in ToSet(definition.nodes) : n.id = id
        nodes == [id \in IDs |-> Node(Of(id).type, ExecutorOf(Of(id)), Of(id).next,
                                     Of(id).next = <<>>, Of(id).condition)]
        starts == {id \in IDs : \A m \in IDs : id \notin ToSet(Of(m).next)}
    IN  IF ~Buildable(definition) THEN {}
        ELSE {[type |-> definition.type, nodes |-> nodes, start |-> s] : s \in starts}

\* Fault: one edge leads to the new node, the others pass it by.
RedirectOne(nodes, edges, final, new) ==
    LET sources == {n \in DOMAIN edges : final \in ToSet(edges[n])}
    IN  IF sources = {} THEN nodes
        ELSE LET n == CHOOSE n \in sources : TRUE
             IN  WithEdge(WithoutEdge(nodes, n, final), n, new)

\* The edges that lead to a final node lead to the new node instead; each turn of the loop
\* touches the list of one node.
Redirect(nodes, edges, final, new) ==
    LET sources == {n \in DOMAIN edges : final \in ToSet(edges[n])}
        Turned(n) == WithEdge(WithoutEdge(nodes, n, final), n, new)[n]
    IN  [n \in DOMAIN nodes |-> IF n \in sources THEN Turned(n) ELSE nodes[n]]

\* Provisioning is put before a final node, and the resolution of the user type before
\* the start.  A node of the new one's name is replaced, its edges stay.
RegistrationGraph(graph, final) ==
    LET edges == [n \in DOMAIN graph.nodes |-> graph.nodes[n].next]
        Added(nodes, id, node) ==
            [n \in DOMAIN nodes \cup {id} |-> IF n = id THEN node ELSE nodes[n]]
        provisioned == Redirect(
            Added(graph.nodes, "provisioning",
                  Node("TASK_EXECUTION", "ProvisioningExecutor", <<>>, FALSE, "")),
            edges, final, "provisioning")
        started == Added(
            WithEdge(provisioned, "provisioning", final), "registration_start",
            Node("REGISTRATION_START", "UserTypeResolver", <<>>, FALSE, ""))
    IN  [type |-> "REGISTRATION", nodes |-> WithEdge(started, "registration_start", graph.start),
         start |-> "registration_start"]

\* createRegistrationGraph takes any final node if there are several.
Inferred(graph) ==
    {RegistrationGraph(graph, f) : f \in {n \in DOMAIN graph.nodes : graph.nodes[n].final}}

-----------------------------------------------------------------------------
GraphsInit ==
    /\ graphs = << >>
    /\ configured = << >>

\* The files are read; those that define no graph are skipped.
ReadGraphs ==
    LET read == {d \in Definitions : Built(d) # {}}
        Read(id) == CHOOSE d \in read : d.id = id
    IN  /\ configured' \in {f \in [{d.id : d \in read} -> UNION {Built(d) : d \in read}] :
                              \A id \in DOMAIN f : f[id] \in Built(Read(id))}
        /\ UNCHANGED graphs

Put(registry, id, graph) ==
    [i \in DOMAIN registry \cup {id} |-> IF i = id THEN graph ELSE registry[i]]

\* One turn of the loop that registers what was read.  If no registration graph can be
\* inferred, the authentication graph is not registered either.
RegisterGraph(id) ==
    /\ id \in DOMAIN configured
    /\ LET graph == configured[id]
           register == Put(graphs, id, graph)
       IN  IF graph.type # "AUTHENTICATION" \/ RegistrationID[id] \in DOMAIN graphs
           THEN graphs' = register
           ELSE \/ \E r \in Inferred(graph) : graphs' = Put(register, RegistrationID[id], r)
                \/ Inferred(graph) = {} /\ UNCHANGED graphs
    /\ configured' = [i \in DOMAIN configured \ {id} |-> configured[i]]

-----------------------------------------------------------------------------
(* Properties.                                                             *)

\* Where the engine goes from a node: a decision may go anywhere, the others go to the
\* first of their next nodes.
Steps(graph, n) ==
    LET next == graph.nodes[n].next
    IN  IF graph.nodes[n].type = "DECISION" \/ next = <<>> THEN ToSet(next) ELSE {next[1]}

\* The nodes that a flow comes to, unless it stops at one of those in stops.
Reached(graph, stops) ==
    LET Closed(S) == /\ graph.start \in S
                     /\ \A n \in S \ stops : Steps(graph, n) \subseteq S
    IN  {n \in DOMAIN graph.nodes :
            \A S \in SUBSET DOMAIN graph.nodes : Closed(S) => n \in S}

FinalNodes(graph) == {n \in DOMAIN graph.nodes : graph.nodes[n].final}

\* What can be inferred from: one end, which is not the start (no edge leads there that
\* could be redirected), and no node that has a name of the two new ones.
Plain(graph) ==
    /\ \E end \in DOMAIN graph.nodes : FinalNodes(graph) = {end} /\ graph.start # end
    /\ DOMAIN graph.nodes \cap {"provisioning", "registration_start"} = {}

\* Only decisions lead to several nodes.  A new edge comes last: another node that has a
\* second edge is left by that one, once its first is redirected.
OnlyDecisionsChoose(graph) ==
    \A n \in DOMAIN graph.nodes :
        graph.nodes[n].type = "DECISION" \/ Len(graph.nodes[n].next) <= 1

FromFiles == UNION {Built(d) : d \in Definitions}

\* An inferred registration graph leads through the same nodes as the authentication
\* graph, but no flow comes to its end past the provisioning, whichever decisions are
\* taken on the way.
RegistrationsProvision ==
    \A id \in DOMAIN graphs \cap DOMAIN RegistrationID :
        LET a == graphs[id]
            r == graphs[RegistrationID[id]]
            end == CHOOSE n \in FinalNodes(a) : TRUE
        IN  a.type = "AUTHENTICATION" /\ Plain(a) /\ r \notin FromFiles =>
              /\ OnlyDecisionsChoose(a) =>
                    Reached(r, {}) = Reached(a, {}) \cup {"registration_start"} \cup
                                    (IF end \in Reached(a, {}) THEN {"provisioning"} ELSE {})
              /\ end \notin Reached(r, {"provisioning"})
              /\ \A n \in DOMAIN a.nodes : r.nodes[n].executor = a.nodes[n].executor

\* In whichever order the files are registered, what is configured stands: no graph of
\* a file is lost to one that is inferred, and each authentication graph that a
\* registration graph can be inferred from has one.
ConfiguredStands ==
    \A d \in Definitions : Built(d) # {} =>
        /\ d.id \in DOMAIN graphs => graphs[d.id] \in Built(d)
        /\ d.type = "REGISTRATION" => d.id \in DOMAIN graphs
        /\ d.type = "AUTHENTICATION" /\ (\E n \in ToSet(d.nodes) : n.next = <<>>) =>
              {d.id, RegistrationID[d.id]} \subseteq DOMAIN graphs
=============================================================================
