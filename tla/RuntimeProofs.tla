--------------------------- MODULE RuntimeProofs ---------------------------
(***************************************************************************)
(* Proofs about what is in the process of the server: about the event      *)
(* publisher, for any number of events, subscribers and callers of         *)
(* Shutdown; about a run of the server as its user, for any number of      *)
(* requests and databases: what gracefulShutdown takes down, and in which  *)
(* order, seen from the requests, the pools and the file; and about an     *)
(* in-memory cache, for any keys, sizes and lifetimes.                     *)
(***************************************************************************)
EXTENDS Runtime, InMemoryCache, FiniteSetTheorems, TLAPS

-----------------------------------------------------------------------------
(* The flow graphs: what is inferred from a graph.                         *)

LEMMA Joined ==
  ASSUME NEW S, NEW p \in Seq(S), NEW q \in Seq(S)
  PROVE  /\ p \o q \in Seq(S) /\ Len(p \o q) = Len(p) + Len(q)
         /\ \A j \in 1..Len(p \o q) : (p \o q)[j] = IF j <= Len(p) THEN p[j] ELSE q[j - Len(p)]
  OBVIOUS

\* Without a node that it names once, a list names the others.
LEMMA RemovedOnce ==
  ASSUME NEW S, NEW s \in Seq(S), IsInjective(s), NEW e \in ToSet(s)
  PROVE  /\ RemoveFirst(s, e) \in Seq(S)
         /\ Len(RemoveFirst(s, e)) = Len(s) - 1
         /\ ToSet(RemoveFirst(s, e)) = ToSet(s) \ {e}
<1>1. PICK k \in 1..Len(s) : s[k] = e
  BY DEF ToSet
<1>2. \A j \in 1..Len(s) : s[j] = e => j = k
  BY <1>1 DEF IsInjective
<1>3. SelectInSeq(s, LAMBDA v : v = e) = k
  <2>1. {j \in 1..Len(s) : s[j] = e} = {k}
    BY <1>1, <1>2
  <2>2. Min({k}) = k
    BY DEF Min
  <2> QED BY <2>1, <2>2 DEF SelectInSeq
<1>4. RemoveFirst(s, e) = SubSeq(s, 1, k - 1) \o SubSeq(s, k + 1, Len(s))
  BY <1>1, <1>3 DEF RemoveFirst, RemoveAt
<1> DEFINE p == SubSeq(s, 1, k - 1)
           q == SubSeq(s, k + 1, Len(s))
           r == p \o q
<1>5. /\ r \in Seq(S) /\ Len(r) = Len(s) - 1
      /\ \A j \in 1..Len(r) : r[j] = IF j < k THEN s[j] ELSE s[j + 1]
  <2>1. p \in Seq(S) /\ Len(p) = k - 1 /\ \A j \in 1..(k - 1) : p[j] = s[j]
    OBVIOUS
  <2>2. q \in Seq(S) /\ Len(q) = Len(s) - k /\ \A j \in 1..(Len(s) - k) : q[j] = s[j + k]
    OBVIOUS
  <2> HIDE DEF p, q
  <2>3. /\ r \in Seq(S) /\ Len(r) = Len(p) + Len(q)
        /\ \A j \in 1..Len(r) : r[j] = IF j <= Len(p) THEN p[j] ELSE q[j - Len(p)]
    BY <2>1, <2>2, Joined
  <2> HIDE DEF r
  <2>4. ASSUME NEW j \in 1..Len(r) PROVE r[j] = IF j < k THEN s[j] ELSE s[j + 1]
    <3>1. CASE j < k
      BY <2>1, <2>2, <2>3, <3>1
    <3>2. CASE j >= k
      <4>1. j - (k - 1) \in 1..(Len(s) - k) /\ ~(j <= Len(p))
        BY <2>1, <2>2, <2>3, <3>2
      <4>2. r[j] = q[j - (k - 1)]
        BY <2>1, <2>3, <4>1
      <4>3. q[j - (k - 1)] = s[(j - (k - 1)) + k] /\ (j - (k - 1)) + k = j + 1
        BY <2>2, <4>1
      <4> QED BY <3>2, <4>2, <4>3
    <3> QED BY <3>1, <3>2
  <2> QED BY <2>1, <2>2, <2>3, <2>4
<1> HIDE DEF r
<1>6. ToSet(r) = ToSet(s) \ {e}
  <2>1. ASSUME NEW x \in ToSet(r) PROVE x \in ToSet(s) \ {e}
    <3>1. PICK j \in 1..Len(r) : x = r[j]
      BY <1>5 DEF ToSet
    <3>2. PICK i \in 1..Len(s) : i # k /\ x = s[i]
      BY <1>5, <3>1
    <3> QED BY <1>2, <3>2 DEF ToSet
  <2>2. ASSUME NEW x \in ToSet(s) \ {e} PROVE x \in ToSet(r)
    <3>1. PICK i \in 1..Len(s) : x = s[i]
      BY DEF ToSet
    <3>2. i # k
      BY <1>1, <3>1
    <3>3. PICK j \in 1..Len(r) : x = r[j]
      <4>1. CASE i < k
        BY <1>5, <3>1, <4>1
      <4>2. CASE i > k
        <5>1. i - 1 \in 1..Len(r) /\ r[i - 1] = s[i]
          BY <1>5, <4>2
        <5> QED BY <3>1, <5>1
      <4> QED BY <3>2, <4>1, <4>2
    <3> QED BY <1>5, <3>3 DEF ToSet
  <2> QED BY <2>1, <2>2
<1> QED BY <1>4, <1>5, <1>6 DEF r

LEMMA AppendedNames ==
  ASSUME NEW S, NEW s \in Seq(S), NEW e
  PROVE  ToSet(Append(s, e)) = ToSet(s) \cup {e}
<1>1. /\ Append(s, e) \in Seq(S \cup {e}) /\ Len(Append(s, e)) = Len(s) + 1
      /\ \A j \in 1..Len(s) : Append(s, e)[j] = s[j]
      /\ Append(s, e)[Len(s) + 1] = e
  OBVIOUS
<1>2. DOMAIN Append(s, e) = 1..(Len(s) + 1) /\ DOMAIN s = 1..Len(s)
  BY <1>1
<1> QED BY <1>1, <1>2 DEF ToSet

Ends(d) == \E n \in ToSet(d.nodes) : n.next = <<>>

Fields == {"type", "executor", "next", "final", "condition"}

\* A graph that was built: its nodes lead to its nodes, and final ones nowhere.
Formed(g) ==
    /\ g.start \in DOMAIN g.nodes
    /\ \A n \in DOMAIN g.nodes :
          /\ DOMAIN g.nodes[n] = Fields
          /\ g.nodes[n].next \in Seq(DOMAIN g.nodes) /\ IsInjective(g.nodes[n].next)
          /\ g.nodes[n].final => g.nodes[n].next = <<>>

LEMMA BuiltFormed ==
  ASSUME NEW d \in Definitions, NEW g \in Built(d)
  PROVE  Formed(g) /\ (FinalNodes(g) # {} => Ends(d))
<1>1. Buildable(d)
  BY DEF Built
<1> DEFINE IDs == {n.id : n \in ToSet(d.nodes)}
           Of(id) == CHOOSE n \in ToSet(d.nodes) : n.id = id
           N == [id \in IDs |-> Node(Of(id).type, ExecutorOf(Of(id)), Of(id).next,
                                       Of(id).next = <<>>, Of(id).condition)]
<1>2. PICK s \in IDs : g = [type |-> d.type, nodes |-> N, start |-> s]
  BY <1>1 DEF Built
<1>3. ASSUME NEW n \in IDs
      PROVE  /\ DOMAIN N[n] = Fields
             /\ N[n].next \in Seq(IDs) /\ IsInjective(N[n].next)
             /\ N[n].final => N[n].next = <<>>
  <2>1. Of(n) \in ToSet(d.nodes)
    OBVIOUS
  <2> DEFINE x == Of(n)
  <2> HIDE DEF x
  <2>2. x.next \in Seq(ToSet(x.next)) /\ IsInjective(x.next)
    BY <2>1, DefinitionsAssumption DEF x
  <2>3. ToSet(x.next) \subseteq IDs
    BY <1>1, <2>1 DEF x, Buildable
  <2>4. x.next \in Seq(IDs)
    <3>1. \A i \in 1..Len(x.next) : x.next[i] \in ToSet(x.next)
      BY <2>2 DEF ToSet
    <3> QED BY <2>2, <2>3, <3>1
  <2>5. N[n] = Node(x.type, ExecutorOf(x), x.next, x.next = <<>>, x.condition)
    BY DEF x
  <2> QED BY <2>2, <2>4, <2>5 DEF Node, Fields
<1>4. g.nodes = N /\ g.start = s /\ DOMAIN N = IDs
  BY <1>2
<1>5. ASSUME NEW n \in IDs, N[n].final PROVE Ends(d)
  BY <1>5 DEF Node, Ends
<1> HIDE DEF N
<1> QED BY <1>2, <1>3, <1>4, <1>5 DEF Formed, FinalNodes

\* What is inferred from a graph without a node that has a name of the two new ones.
LEMMA InferredNodes ==
  ASSUME NEW a, Formed(a), NEW end \in DOMAIN a.nodes,
         DOMAIN a.nodes \cap {"provisioning", "registration_start"} = {},
         NEW r, r = RegistrationGraph(a, end)
  PROVE  /\ r.type = "REGISTRATION" /\ r.start = "registration_start"
         /\ DOMAIN r.nodes = DOMAIN a.nodes \cup {"provisioning", "registration_start"}
         /\ r.nodes["registration_start"].type = "TASK_EXECUTION"
         /\ r.nodes["registration_start"].next = <<a.start>>
         /\ r.nodes["provisioning"].type = "TASK_EXECUTION"
         /\ r.nodes["provisioning"].next = <<end>>
         /\ \A n \in DOMAIN a.nodes :
               /\ r.nodes[n].type = a.nodes[n].type
               /\ r.nodes[n].executor = a.nodes[n].executor
               /\ r.nodes[n].next = IF end \in ToSet(a.nodes[n].next)
                                    THEN Append(RemoveFirst(a.nodes[n].next, end), "provisioning")
                                    ELSE a.nodes[n].next
<1> DEFINE edges == [n \in DOMAIN a.nodes |-> a.nodes[n].next]
           Added(nodes, id, node) ==
              [n \in DOMAIN nodes \cup {id} |-> IF n = id THEN node ELSE nodes[n]]
           N1 == Added(a.nodes, "provisioning",
                       Node("TASK_EXECUTION", "ProvisioningExecutor", <<>>, FALSE, ""))
           N2 == Redirect(N1, edges, end, "provisioning")
           N3 == WithEdge(N2, "provisioning", end)
           N4 == Added(N3, "registration_start",
                       Node("REGISTRATION_START", "UserTypeResolver", <<>>, FALSE, ""))
           N5 == WithEdge(N4, "registration_start", a.start)
<1>1. r = [type |-> "REGISTRATION", nodes |-> N5, start |-> "registration_start"]
  BY DEF RegistrationGraph
<1>2. /\ DOMAIN N1 = DOMAIN a.nodes \cup {"provisioning"}
      /\ \A n \in DOMAIN a.nodes : N1[n] = a.nodes[n]
      /\ N1["provisioning"] = Node("TASK_EXECUTION", "ProvisioningExecutor", <<>>, FALSE, "")
  OBVIOUS
<1> HIDE DEF N1
<1>3. /\ DOMAIN N2 = DOMAIN N1
      /\ \A n \in DOMAIN N1 \ DOMAIN a.nodes : N2[n] = N1[n]
      /\ \A n \in DOMAIN a.nodes :
            N2[n] = IF end \in ToSet(a.nodes[n].next)
                    THEN WithEdge(WithoutEdge(N1, n, end), n, "provisioning")[n] ELSE N1[n]
  BY <1>2 DEF Redirect
<1> HIDE DEF N2
<1>4. ASSUME NEW n \in DOMAIN a.nodes
      PROVE  /\ N2[n].type = a.nodes[n].type
             /\ N2[n].executor = a.nodes[n].executor
             /\ N2[n].next = IF end \in ToSet(a.nodes[n].next)
                             THEN Append(RemoveFirst(a.nodes[n].next, end), "provisioning")
                             ELSE a.nodes[n].next
  <2>1. DOMAIN a.nodes[n] = Fields
    BY DEF Formed
  <2>2. CASE end \in ToSet(a.nodes[n].next)
    <3>1. /\ "provisioning" \notin ToSet(RemoveFirst(a.nodes[n].next, end))
      <4>1. /\ ToSet(RemoveFirst(a.nodes[n].next, end)) = ToSet(a.nodes[n].next) \ {end}
        BY <2>2, RemovedOnce DEF Formed
      <4>2. ToSet(a.nodes[n].next) \subseteq DOMAIN a.nodes
        BY DEF Formed, ToSet
      <4> QED BY <4>1, <4>2
    <3> DEFINE M == WithoutEdge(N1, n, end)
    <3>2. /\ DOMAIN M = DOMAIN N1 /\ M[n].next = RemoveFirst(a.nodes[n].next, end)
          /\ M[n].type = a.nodes[n].type /\ M[n].executor = a.nodes[n].executor
          /\ DOMAIN M[n] = Fields
      BY <1>2, <2>1 DEF WithoutEdge, Fields
    <3> HIDE DEF M
    <3> DEFINE W == WithEdge(M, n, "provisioning")
    <3>3. /\ W[n].next = Append(M[n].next, "provisioning")
          /\ W[n].type = M[n].type /\ W[n].executor = M[n].executor
      BY <1>2, <3>1, <3>2 DEF WithEdge, Fields
    <3> HIDE DEF W
    <3>4. N2[n] = W[n]
      BY <1>3, <2>2 DEF W, M
    <3> QED BY <2>2, <3>2, <3>3, <3>4
  <2>3. CASE end \notin ToSet(a.nodes[n].next)
    BY <1>2, <1>3, <2>3
  <2> QED BY <2>2, <2>3
<1>5. /\ DOMAIN N3 = DOMAIN N2
      /\ \A n \in DOMAIN a.nodes : N3[n] = N2[n]
      /\ N3["provisioning"].type = "TASK_EXECUTION" /\ N3["provisioning"].next = <<end>>
  <2>1. "provisioning" \in DOMAIN N2 /\ "provisioning" \in DOMAIN N1 \ DOMAIN a.nodes
    BY <1>2, <1>3
  <2>2. /\ N2["provisioning"].next = <<>> /\ N2["provisioning"].type = "TASK_EXECUTION"
        /\ DOMAIN N2["provisioning"] = Fields
    <3>1. N2["provisioning"] = Node("TASK_EXECUTION", "ProvisioningExecutor", <<>>, FALSE, "")
      BY <1>2, <1>3, <2>1
    <3> DEFINE x == Node("TASK_EXECUTION", "ProvisioningExecutor", <<>>, FALSE, "")
    <3>2. x.next = <<>> /\ x.type = "TASK_EXECUTION" /\ DOMAIN x = Fields
      BY DEF Node, Backed, Fields
    <3> HIDE DEF x
    <3> QED BY <3>1, <3>2 DEF x
  <2>3. end \notin ToSet(<<>>) /\ Append(<<>>, end) = <<end>>
    BY DEF ToSet
  <2> QED BY <2>1, <2>2, <2>3, <1>2, <1>3 DEF WithEdge, Fields
<1> HIDE DEF N3
<1>6. /\ DOMAIN N4 = DOMAIN N3 \cup {"registration_start"}
      /\ \A n \in DOMAIN N3 : n # "registration_start" => N4[n] = N3[n]
      /\ N4["registration_start"].type = "TASK_EXECUTION"
      /\ N4["registration_start"].next = <<>>
      /\ DOMAIN N4["registration_start"] = Fields
  BY DEF Node, Backed, Fields
<1> HIDE DEF N4
<1>7. /\ DOMAIN N5 = DOMAIN N4
      /\ \A n \in DOMAIN N4 : n # "registration_start" => N5[n] = N4[n]
      /\ N5["registration_start"].type = "TASK_EXECUTION"
      /\ N5["registration_start"].next = <<a.start>>
  <2>1. a.start \notin ToSet(<<>>) /\ Append(<<>>, a.start) = <<a.start>>
    BY DEF ToSet
  <2> QED BY <2>1, <1>6 DEF WithEdge, Fields
<1> HIDE DEF N5
<1>8. /\ r.type = "REGISTRATION" /\ r.start = "registration_start" /\ r.nodes = N5
  BY <1>1
<1>9. "registration_start" \notin DOMAIN a.nodes /\ "provisioning" \notin DOMAIN a.nodes
  OBVIOUS
<1> HIDE DEF edges, Added
<1>10. DOMAIN r.nodes = DOMAIN a.nodes \cup {"provisioning", "registration_start"}
  BY <1>2, <1>3, <1>5, <1>6, <1>7, <1>8
<1>11. r.nodes["provisioning"] = N3["provisioning"]
  BY <1>2, <1>3, <1>5, <1>6, <1>7, <1>8
<1>12. \A n \in DOMAIN a.nodes : r.nodes[n] = N2[n]
  BY <1>2, <1>3, <1>5, <1>6, <1>7, <1>8, <1>9
<1> QED BY <1>4, <1>5, <1>7, <1>8, <1>10, <1>11, <1>12

\* Where a flow goes from the nodes of an inferred graph.
LEMMA InferredSteps ==
  ASSUME NEW a, Formed(a), NEW end \in DOMAIN a.nodes,
         DOMAIN a.nodes \cap {"provisioning", "registration_start"} = {},
         NEW r, r = RegistrationGraph(a, end)
  PROVE  /\ Steps(r, "registration_start") = {a.start}
         /\ Steps(r, "provisioning") = {end}
         /\ \A n \in DOMAIN a.nodes :
               /\ Steps(a, n) \subseteq DOMAIN a.nodes
               /\ Steps(r, n) \subseteq (DOMAIN a.nodes \ {end}) \cup {"provisioning"}
         /\ OnlyDecisionsChoose(a) => \A n \in DOMAIN a.nodes :
               Steps(r, n) = IF end \in Steps(a, n) THEN (Steps(a, n) \ {end}) \cup {"provisioning"}
                             ELSE Steps(a, n)
<1>1. ASSUME NEW n, NEW x, r.nodes[n].type = "TASK_EXECUTION", r.nodes[n].next = <<x>>
      PROVE  Steps(r, n) = {x}
  <2>1. <<x>> # <<>> /\ <<x>>[1] = x
    OBVIOUS
  <2> QED BY <1>1, <2>1 DEF Steps
<1>2. Steps(r, "registration_start") = {a.start} /\ Steps(r, "provisioning") = {end}
  BY InferredNodes, <1>1
<1>3. ASSUME NEW n \in DOMAIN a.nodes
      PROVE  /\ Steps(a, n) \subseteq DOMAIN a.nodes
             /\ Steps(r, n) \subseteq (DOMAIN a.nodes \ {end}) \cup {"provisioning"}
             /\ OnlyDecisionsChoose(a) =>
                   Steps(r, n) = IF end \in Steps(a, n)
                                 THEN (Steps(a, n) \ {end}) \cup {"provisioning"}
                                 ELSE Steps(a, n)
  <2> DEFINE s == a.nodes[n].next
             t == RemoveFirst(s, end)
  <2>1. /\ r.nodes[n].type = a.nodes[n].type
        /\ r.nodes[n].next = IF end \in ToSet(s) THEN Append(t, "provisioning") ELSE s
    BY InferredNodes
  <2>2. s \in Seq(DOMAIN a.nodes) /\ IsInjective(s)
    BY DEF Formed
  <2>3. ToSet(s) \subseteq DOMAIN a.nodes
    BY <2>2 DEF ToSet
  <2>4. s # <<>> => s[1] \in ToSet(s)
    BY <2>2 DEF ToSet
  <2>5. Steps(a, n) \subseteq ToSet(s)
    BY <2>4 DEF Steps
  <2>6. ASSUME end \in ToSet(s)
        PROVE  /\ t \in Seq(DOMAIN a.nodes) /\ Len(t) = Len(s) - 1 /\ ToSet(t) = ToSet(s) \ {end}
               /\ ToSet(Append(t, "provisioning")) = (ToSet(s) \ {end}) \cup {"provisioning"}
    BY <2>2, <2>6, RemovedOnce, AppendedNames
  <2> HIDE DEF t
  <2>7. CASE end \in ToSet(s)
    <3> DEFINE u == Append(t, "provisioning")
    <3>1. u # <<>> /\ u[1] \in ToSet(u)
      <4>1. Len(u) = Len(t) + 1 /\ Len(t) \in Nat
        BY <2>6, <2>7
      <4>2. u \in Seq(DOMAIN a.nodes \cup {"provisioning"})
        BY <2>6, <2>7
      <4> QED BY <4>1, <4>2 DEF ToSet
    <3>2. ToSet(u) = (ToSet(s) \ {end}) \cup {"provisioning"}
      BY <2>6, <2>7
    <3>3. r.nodes[n].next = u
      BY <2>1, <2>7
    <3> HIDE DEF u
    <3>4. Steps(r, n) \subseteq ToSet(u)
      BY <3>1, <3>3 DEF Steps
    <3>5. CASE a.nodes[n].type = "DECISION"
      <4>1. Steps(a, n) = ToSet(s) /\ Steps(r, n) = ToSet(u)
        BY <2>1, <3>3, <3>5 DEF Steps
      <4> QED BY <2>3, <2>7, <3>2, <4>1
    <3>6. CASE a.nodes[n].type # "DECISION" /\ OnlyDecisionsChoose(a)
      <4>1. Len(s) = 1
        <5>1. Len(s) <= 1
          BY <3>6 DEF OnlyDecisionsChoose
        <5>2. PICK i \in 1..Len(s) : s[i] = end
          BY <2>2, <2>7 DEF ToSet
        <5> DEFINE l == Len(s)
        <5>3. l \in Nat /\ i \in 1..l /\ l <= 1
          BY <2>2, <5>1
        <5> HIDE DEF l
        <5>4. l = 1
          BY <5>3
        <5> QED BY <5>4 DEF l
      <4>2. s # <<>> /\ ToSet(s) = {s[1]}
        BY <2>2, <4>1 DEF ToSet
      <4>3. Steps(a, n) = {end}
        BY <2>7, <3>6, <4>2 DEF Steps
      <4>4. Steps(r, n) = {u[1]}
        BY <2>1, <3>1, <3>3, <3>6 DEF Steps
      <4>5. u[1] = "provisioning"
        BY <2>7, <3>1, <3>2, <4>2
      <4> QED BY <4>3, <4>4, <4>5
    <3> QED BY <2>3, <2>5, <3>2, <3>4, <3>5, <3>6
  <2>8. CASE end \notin ToSet(s)
    <3>1. Steps(r, n) = Steps(a, n)
      BY <2>1, <2>8 DEF Steps
    <3> QED BY <2>3, <2>5, <2>8, <3>1
  <2> QED BY <2>7, <2>8
<1> QED BY <1>2, <1>3

\* A flow only comes to nodes that it needs: sets that are closed have all of them.
LEMMA ReachedLeast ==
  ASSUME NEW g, NEW stops, NEW S \in SUBSET DOMAIN g.nodes, g.start \in S,
         \A n \in S \ stops : Steps(g, n) \subseteq S
  PROVE  Reached(g, stops) \subseteq S
  BY DEF Reached

\* ... and those that it comes to are closed.
LEMMA ReachedClosed ==
  ASSUME NEW g, g.start \in DOMAIN g.nodes,
         \A n \in DOMAIN g.nodes : Steps(g, n) \subseteq DOMAIN g.nodes
  PROVE  /\ Reached(g, {}) \subseteq DOMAIN g.nodes
         /\ g.start \in Reached(g, {})
         /\ \A n \in Reached(g, {}) : Steps(g, n) \subseteq Reached(g, {})
<1>1. Reached(g, {}) \subseteq DOMAIN g.nodes
  BY DEF Reached
<1>2. g.start \in Reached(g, {})
  BY DEF Reached
<1>3. ASSUME NEW n \in Reached(g, {}), NEW m \in Steps(g, n) PROVE m \in Reached(g, {})
  <2>1. m \in DOMAIN g.nodes
    BY <1>1
  <2>2. ASSUME NEW S \in SUBSET DOMAIN g.nodes, g.start \in S,
               \A k \in S \ {} : Steps(g, k) \subseteq S
        PROVE  m \in S
    <3>1. n \in S
      BY <2>2, ReachedLeast
    <3> QED BY <2>2, <3>1
  <2> QED BY <2>1, <2>2 DEF Reached
<1> QED BY <1>1, <1>2, <1>3

\* Nobody comes to the end of an inferred graph past the provisioning.
LEMMA NoWayPast ==
  ASSUME NEW a, Formed(a), NEW end \in DOMAIN a.nodes, a.start # end,
         DOMAIN a.nodes \cap {"provisioning", "registration_start"} = {},
         NEW r, r = RegistrationGraph(a, end)
  PROVE  end \notin Reached(r, {"provisioning"})
<1> DEFINE S == DOMAIN r.nodes \ {end}
<1>1. /\ DOMAIN r.nodes = DOMAIN a.nodes \cup {"provisioning", "registration_start"}
      /\ r.start = "registration_start"
  BY InferredNodes
<1>2. r.start \in S
  BY <1>1
<1>3. ASSUME NEW n \in S \ {"provisioning"} PROVE Steps(r, n) \subseteq S
  <2>1. CASE n = "registration_start"
    <3>1. Steps(r, n) = {a.start} /\ a.start \in DOMAIN a.nodes
      BY <2>1, InferredSteps DEF Formed
    <3> QED BY <1>1, <3>1
  <2>2. CASE n \in DOMAIN a.nodes
    BY <1>1, <2>2, InferredSteps
  <2> QED BY <1>1, <2>1, <2>2
<1>4. S \in SUBSET DOMAIN r.nodes /\ end \notin S
  OBVIOUS
<1> HIDE DEF S
<1>5. Reached(r, {"provisioning"}) \subseteq S
  BY <1>2, <1>3, <1>4, ReachedLeast
<1> QED BY <1>4, <1>5

\* It leads through the same nodes, and the two new ones.
LEMMA SameNodes ==
  ASSUME NEW a, Formed(a), NEW end \in DOMAIN a.nodes, a.start # end,
         DOMAIN a.nodes \cap {"provisioning", "registration_start"} = {},
         OnlyDecisionsChoose(a),
         NEW r, r = RegistrationGraph(a, end)
  PROVE  Reached(r, {}) = Reached(a, {}) \cup {"registration_start"} \cup
                          (IF end \in Reached(a, {}) THEN {"provisioning"} ELSE {})
<1> DEFINE RA == Reached(a, {})
           RR == Reached(r, {})
           both == RA \cup {"registration_start"} \cup (IF end \in RA THEN {"provisioning"} ELSE {})
<1>1. /\ DOMAIN r.nodes = DOMAIN a.nodes \cup {"provisioning", "registration_start"}
      /\ r.start = "registration_start"
  BY InferredNodes
<1>2. /\ Steps(r, "registration_start") = {a.start}
      /\ Steps(r, "provisioning") = {end}
      /\ \A n \in DOMAIN a.nodes :
            /\ Steps(a, n) \subseteq DOMAIN a.nodes
            /\ Steps(r, n) = IF end \in Steps(a, n) THEN (Steps(a, n) \ {end}) \cup {"provisioning"}
                             ELSE Steps(a, n)
  BY InferredSteps
<1>3. a.start \in DOMAIN a.nodes
  BY DEF Formed
<1>4. /\ RA \subseteq DOMAIN a.nodes /\ a.start \in RA
      /\ \A n \in RA : Steps(a, n) \subseteq RA
  BY <1>2, <1>3, ReachedClosed
<1>5. \A n \in DOMAIN r.nodes : Steps(r, n) \subseteq DOMAIN r.nodes
  BY <1>1, <1>2, <1>3
<1>6. /\ "registration_start" \in RR
      /\ \A n \in RR : Steps(r, n) \subseteq RR
  BY <1>1, <1>5, ReachedClosed
<1> HIDE DEF RA, RR
<1>7. RR \subseteq both
  <2>1. both \in SUBSET DOMAIN r.nodes /\ r.start \in both
    BY <1>1, <1>4
  <2>2. ASSUME NEW n \in both PROVE Steps(r, n) \subseteq both
    <3>1. CASE n \in RA
      BY <1>2, <1>4, <3>1
    <3>2. CASE n = "registration_start"
      BY <1>2, <1>4, <3>2
    <3>3. CASE n = "provisioning" /\ end \in RA
      BY <1>2, <3>3
    <3> QED BY <3>1, <3>2, <3>3
  <2> HIDE DEF both
  <2>3. \A n \in both \ {} : Steps(r, n) \subseteq both
    BY <2>2
  <2> QED BY <2>1, <2>3, ReachedLeast DEF RR
<1>8. RA \subseteq RR
  <2> DEFINE S == RR \cap DOMAIN a.nodes
  <2>1. a.start \in S
    BY <1>1, <1>2, <1>3, <1>6
  <2>2. ASSUME NEW n \in S, NEW m \in Steps(a, n) PROVE m \in S
    <3>1. m \in DOMAIN a.nodes
      BY <1>2
    <3>2. CASE m # end
      BY <1>2, <1>6, <3>1, <3>2
    <3>3. CASE m = end
      <4>1. "provisioning" \in RR
        BY <1>2, <1>6, <3>3
      <4> QED BY <1>2, <1>6, <3>1, <3>3, <4>1
    <3> QED BY <3>2, <3>3
  <2>3. S \in SUBSET DOMAIN a.nodes /\ S \subseteq RR
    OBVIOUS
  <2> HIDE DEF S
  <2>4. \A n \in S \ {} : Steps(a, n) \subseteq S
    BY <2>2
  <2>5. RA \subseteq S
    BY <2>1, <2>3, <2>4, ReachedLeast DEF RA
  <2> QED BY <2>3, <2>5
<1>9. ASSUME end \in RA PROVE "provisioning" \in RR
  <2>1. PICK n \in RA : end \in Steps(a, n)
    <3> SUFFICES ASSUME \A n \in RA : end \notin Steps(a, n) PROVE FALSE
      OBVIOUS
    <3> DEFINE S == RA \ {end}
    <3>1. a.start \in S /\ S \in SUBSET DOMAIN a.nodes
      BY <1>4
    <3>2. (\A n \in S \ {} : Steps(a, n) \subseteq S) /\ end \notin S
      BY <1>4
    <3> HIDE DEF S
    <3>3. RA \subseteq S
      BY <3>1, <3>2, ReachedLeast DEF RA
    <3> QED BY <1>9, <3>2, <3>3
  <2> QED BY <1>2, <1>4, <1>6, <1>8, <2>1
<1>10. both \subseteq RR
  BY <1>6, <1>8, <1>9
<1> QED BY <1>7, <1>10 DEF RA, RR

-----------------------------------------------------------------------------
(* The files: the variables that a resource is exported with.              *)

\* That a literal is a string is not known to the provers.
Signs == STRING \cup {Underscore, "REDIRECT_URIS"} \cup Capitals

LEMMA SnakeWord ==
  ASSUME NEW s \in Seq(Signs)
  PROVE  Snake(s) \in Seq(Signs)
<1> DEFINE Begins(i) ==
             /\ i > 1 /\ s[i] \in Capitals
             /\ \/ s[i - 1] \in DOMAIN Capital
                \/ s[i - 1] # Underscore /\ i < Len(s) /\ s[i + 1] \in DOMAIN Capital
           Place(i) == i + Cardinality({j \in 1..i : Begins(j)})
           At(p) == s[CHOOSE i \in DOMAIN s : p = Place(i)]
           Sign(p) == IF \A i \in DOMAIN s : p # Place(i) THEN Underscore
                      ELSE IF At(p) \in DOMAIN Capital THEN Capital[At(p)] ELSE At(p)
<1>1. Snake(s) = [p \in 1..Place(Len(s)) |-> Sign(p)]
  BY DEF Snake
<1>2. Place(Len(s)) \in Nat
  <2>1. Len(s) \in Nat
    OBVIOUS
  <2>2. IsFiniteSet({j \in 1..Len(s) : Begins(j)})
    <3>1. IsFiniteSet(1..Len(s))
      BY <2>1, FS_Interval
    <3>2. {j \in 1..Len(s) : Begins(j)} \subseteq 1..Len(s)
      OBVIOUS
    <3> QED BY <3>1, <3>2, FS_Subset
  <2>3. Cardinality({j \in 1..Len(s) : Begins(j)}) \in Nat
    BY <2>2, FS_CardinalityType
  <2>4. ASSUME NEW m \in Nat, NEW n \in Nat PROVE m + n \in Nat
    OBVIOUS
  <2> HIDE DEF Begins
  <2> QED BY <2>1, <2>3, <2>4
<1> HIDE DEF Begins
<1>3. ASSUME NEW p PROVE Sign(p) \in Signs
  <2> Underscore \in Signs
    BY DEF Signs
  <2>1. CASE \A i \in DOMAIN s : p # Place(i)
    BY <2>1
  <2>2. CASE \E i \in DOMAIN s : p = Place(i)
    <3> HIDE DEF Place
    <3>1. At(p) \in Signs
      <4>1. (CHOOSE i \in DOMAIN s : p = Place(i)) \in DOMAIN s
        BY <2>2
      <4>2. \A i \in DOMAIN s : s[i] \in Signs
        OBVIOUS
      <4> QED BY <4>1, <4>2
    <3> HIDE DEF At
    <3> QED BY <2>2, <3>1 DEF Signs, Capitals
  <2> QED BY <2>1, <2>2
<1> HIDE DEF Place, Sign
<1>4. ASSUME NEW n \in Nat, NEW f \in [1..n -> Signs] PROVE f \in Seq(Signs)
  OBVIOUS
<1> QED BY <1>1, <1>2, <1>3, <1>4

\* Two lists with an underscore and a name after each.
LEMMA LastOf ==
  ASSUME NEW S, NEW s \in Seq(S), NEW t \in Seq(S), NEW a, NEW b
  PROVE  With(s, a) = With(t, b) => s = t /\ a = b
<1> DEFINE T == S \cup {Underscore, a, b}
           p == <<Underscore, a>>
           q == <<Underscore, b>>
<1>1. s \in Seq(T) /\ t \in Seq(T)
  <2>1. S \subseteq T
    OBVIOUS
  <2> HIDE DEF T
  <2>2. \A w \in Seq(S) : w \in Seq(T)
    BY <2>1
  <2> QED BY <2>2
<1>2. p \in Seq(T) /\ Len(p) = 2 /\ p[2] = a
  OBVIOUS
<1>3. q \in Seq(T) /\ Len(q) = 2 /\ q[2] = b
  OBVIOUS
<1> HIDE DEF T, p, q
<1> DEFINE r == s \o p
           z == t \o q
           k == Len(s)
           l == Len(t)
<1>4. k \in Nat /\ l \in Nat
  BY <1>1
<1>5. Len(r) = k + 2 /\ \A j \in 1..(k + 2) : r[j] = IF j <= k THEN s[j] ELSE p[j - k]
  <2>1. /\ Len(r) = Len(s) + Len(p)
        /\ \A j \in 1..Len(r) : r[j] = IF j <= Len(s) THEN s[j] ELSE p[j - Len(s)]
    BY <1>1, <1>2, Joined
  <2> HIDE DEF r
  <2> QED BY <1>2, <2>1
<1>6. Len(z) = l + 2 /\ \A j \in 1..(l + 2) : z[j] = IF j <= l THEN t[j] ELSE q[j - l]
  <2>1. /\ Len(z) = Len(t) + Len(q)
        /\ \A j \in 1..Len(z) : z[j] = IF j <= Len(t) THEN t[j] ELSE q[j - Len(t)]
    BY <1>1, <1>3, Joined
  <2> HIDE DEF z
  <2> QED BY <1>3, <2>1
<1> HIDE DEF r, z, k, l
<1>7. ASSUME r = z PROVE s = t /\ p[2] = q[2]
  <2>1. k = l
    BY <1>4, <1>5, <1>6, <1>7
  <2>2. \A j \in 1..k : s[j] = t[j]
    BY <1>4, <1>5, <1>6, <1>7, <2>1
  <2>3. r[k + 2] = p[2] /\ r[k + 2] = q[2]
    <3>1. k + 2 \in 1..(k + 2) /\ ~(k + 2 <= k) /\ (k + 2) - k = 2
      BY <1>4
    <3> QED BY <1>5, <1>6, <1>7, <2>1, <3>1
  <2>4. s = t
    BY <1>1, <2>1, <2>2 DEF k, l
  <2> QED BY <2>3, <2>4
<1> QED BY <1>2, <1>3, <1>7 DEF With, r, z, p, q

LEMMA WithType ==
  ASSUME NEW s \in Seq(Signs), NEW name
  PROVE  With(s, name) \in Seq(Signs \cup {name}) /\ Len(With(s, name)) = Len(s) + 2
<1> DEFINE T == Signs \cup {name}
           p == <<Underscore, name>>
<1>1. Underscore \in T /\ name \in T /\ Signs \subseteq T
  BY DEF Signs
<1> HIDE DEF T
<1>2. p \in Seq(T) /\ Len(p) = 2
  BY <1>1
<1>3. \A w \in Seq(Signs) : w \in Seq(T)
  BY <1>1
<1> HIDE DEF p
<1>4. s \o p \in Seq(T) /\ Len(s \o p) = Len(s) + Len(p)
  BY <1>2, <1>3, Joined
<1> QED BY <1>2, <1>4 DEF With, T, p

LEMMA WordType ==
  ASSUME NEW name \in Seq(STRING)
  PROVE  Snake(Underscored(name)) \in Seq(Signs)
<1> DEFINE Sign(c) == IF c = " " THEN Underscore ELSE c
<1>1. STRING \subseteq Signs /\ Underscore \in Signs
  BY DEF Signs
<1>2. Len(name) \in Nat /\ DOMAIN name = 1..Len(name)
  OBVIOUS
<1>3. ASSUME NEW i \in 1..Len(name) PROVE Sign(name[i]) \in Signs
  <2>1. name[i] \in STRING
    OBVIOUS
  <2> QED BY <1>1, <2>1
<1>4. Underscored(name) = [i \in 1..Len(name) |-> Sign(name[i])]
  BY <1>2 DEF Underscored
<1> HIDE DEF Sign
<1>5. ASSUME NEW n \in Nat, NEW f \in [1..n -> Signs] PROVE f \in Seq(Signs)
  OBVIOUS
<1>6. Underscored(name) \in Seq(Signs)
  BY <1>2, <1>3, <1>4, <1>5
<1> QED BY <1>6, SnakeWord

\* The variables of a resource are told from each other by the fields, ...
LEMMA FieldsTell ==
  ASSUME NEW name \in Seq(STRING)
  PROVE  /\ \A f : VariableName(name, f) # <<>>
         /\ \A f, g : VariableName(name, f) = VariableName(name, g) => f = g
<1> DEFINE u == Snake(Underscored(name))
<1>1. u \in Seq(Signs) /\ Len(u) \in Nat
  BY WordType
<1>2. \A f : VariableName(name, f) = With(u, f)
  BY DEF VariableName
<1> HIDE DEF u
<1>3. ASSUME NEW f PROVE VariableName(name, f) # <<>>
  <2>1. Len(With(u, f)) = Len(u) + 2
    BY <1>1, WithType
  <2>2. Len(VariableName(name, f)) # 0
    BY <1>1, <1>2, <2>1
  <2> QED BY <2>2
<1>4. \A f, g : With(u, f) = With(u, g) => f = g
  BY <1>1, LastOf
<1> QED BY <1>2, <1>3, <1>4

\* ... and those of an array by their numbers.
LEMMA NumbersTell ==
  ASSUME NEW m \in Seq(STRING), NEW n \in Seq(STRING), NEW i \in DOMAIN Numeral
  PROVE  LET Array(name) == VariableName(name, "REDIRECT_URIS")
         IN  /\ \A g : Indexed(Array(m), i) = VariableName(n, g) => g = Numeral[i]
             /\ \A j \in DOMAIN Numeral :
                   Indexed(Array(m), i) = Indexed(Array(n), j) => i = j /\ Array(m) = Array(n)
<1> DEFINE v == Snake(Underscored(n))
           p == VariableName(m, "REDIRECT_URIS")
           q == VariableName(n, "REDIRECT_URIS")
<1>1. v \in Seq(Signs)
  BY WordType
<1>2. ASSUME NEW name \in Seq(STRING) PROVE VariableName(name, "REDIRECT_URIS") \in Seq(Signs)
  <2> DEFINE u == Snake(Underscored(name))
  <2>1. Signs \cup {"REDIRECT_URIS"} = Signs
    BY DEF Signs
  <2>2. u \in Seq(Signs)
    BY WordType
  <2> HIDE DEF u
  <2>3. With(u, "REDIRECT_URIS") \in Seq(Signs)
    BY <2>1, <2>2, WithType
  <2> QED BY <2>3 DEF VariableName, u
<1>3. p \in Seq(Signs) /\ q \in Seq(Signs)
  BY <1>2
<1>4. \A g : VariableName(n, g) = With(v, g)
  BY DEF VariableName
<1>5. /\ Indexed(p, i) = With(p, Numeral[i])
      /\ \A j : Indexed(q, j) = With(q, Numeral[j])
  BY DEF Indexed
<1>6. \A k, l \in DOMAIN Numeral : Numeral[k] = Numeral[l] => k = l
  BY ResourcesAssumption DEF IsInjective
<1> HIDE DEF p, q, v
<1>7. \A a, b : With(p, a) = With(v, b) => a = b
  BY <1>1, <1>3, LastOf
<1>8. \A a, b : With(p, a) = With(q, b) => p = q /\ a = b
  BY <1>3, LastOf
<1>9. ASSUME NEW g, Indexed(p, i) = VariableName(n, g) PROVE g = Numeral[i]
  <2>1. With(p, Numeral[i]) = With(v, g)
    BY <1>4, <1>5, <1>9
  <2> QED BY <1>7, <2>1
<1>10. \A j \in DOMAIN Numeral : Indexed(p, i) = Indexed(q, j) => i = j /\ p = q
  BY <1>5, <1>6, <1>8
<1> QED BY <1>9, <1>10 DEF p, q

LEMMA SoundResource ==
  ASSUME NEW d \in Deployments, NEW r \in d.database
  PROVE  /\ {"kind", "id", "name"} \subseteq DOMAIN r /\ Sound(r)
         /\ r = [field \in DOMAIN r |-> r[field]] /\ r.id # "" /\ r.name \in Seq(STRING)
         /\ r.kind \in {"schema", "idp", "sender", "application"}
<1>1. {"kind", "id", "name"} \subseteq DOMAIN r /\ r.kind \in ToSet(Kinds) /\ Sound(r)
  BY ResourcesAssumption
<1>2. ToSet(Kinds) = {"schema", "idp", "sender", "application"}
  BY DEF ToSet, Kinds
<1> QED BY <1>1, <1>2 DEF Sound

\* Properties are exported, each with the variable that has its value.
LEMMA PropsExported ==
  ASSUME NEW d \in Deployments, NEW r \in d.database, r.kind \in {"idp", "sender"}
  PROVE  LET Name(p) == VariableName(r.name, p)
         IN  /\ Export(r).kind = r.kind /\ Export(r).id = r.id /\ Export(r).name = r.name
             /\ Variables(Export(r)) = {Name(p) : p \in DOMAIN r.props}
             /\ Ranges(Export(r)) = {}
             /\ DOMAIN ValuesOf(r) = Variables(Export(r))
             /\ \A p \in DOMAIN r.props : ValuesOf(r)[Name(p)] = r.props[p].value
             /\ (\A p \in DOMAIN r.props : environ[Name(p)] = r.props[p].value)
                   => Parsed(Export(r)) = r
<1> DEFINE Name(p) == VariableName(r.name, p)
           props == r.props
           exported == [p \in DOMAIN props |-> [value |-> Var(Name(p)), secret |-> props[p].secret]]
           x == Export(r)
<1>1. /\ {"kind", "id", "name"} \subseteq DOMAIN r
      /\ r = [field \in DOMAIN r |-> r[field]] /\ r.name \in Seq(STRING)
  BY SoundResource
<1>2. /\ "props" \in DOMAIN r
      /\ props = [p \in DOMAIN props |-> [value |-> props[p].value, secret |-> props[p].secret]]
  BY SoundResource DEF Sound, SoundProps
<1>4. \A p : Name(p) # <<>>
  BY <1>1, FieldsTell
<1>5. \A p, q : Name(p) = Name(q) => p = q
  BY <1>1, FieldsTell
<1> HIDE DEF Name
<1>6. x = [r EXCEPT !.props = exported]
  BY DEF Export, Name
<1> HIDE DEF x, exported
<1>7. x.kind = r.kind /\ x.id = r.id /\ x.name = r.name /\ x.props = exported
  BY <1>1, <1>2, <1>6
<1>8. Variables(x) = {Name(p) : p \in DOMAIN props}
  <2>1. Variables(x) = {exported[p].value.var : p \in DOMAIN exported} \ {<<>>}
    BY <1>7 DEF Variables
  <2>2. DOMAIN exported = DOMAIN props /\ \A p \in DOMAIN props : exported[p].value.var = Name(p)
    BY DEF exported, Var
  <2> QED BY <1>4, <2>1, <2>2
<1>9. Ranges(x) = {}
  BY <1>7 DEF Ranges
<1>10. /\ DOMAIN ValuesOf(r) = {Name(p) : p \in DOMAIN props}
       /\ \A p \in DOMAIN props : ValuesOf(r)[Name(p)] = props[p].value
  <2>1. ValuesOf(r) = [v \in {Name(p) : p \in DOMAIN props} |->
                          props[CHOOSE p \in DOMAIN props : v = Name(p)].value]
    BY DEF ValuesOf, Name
  <2>2. \A p \in DOMAIN props : (CHOOSE q \in DOMAIN props : Name(p) = Name(q)) = p
    BY <1>5
  <2>3. ASSUME NEW p \in DOMAIN props PROVE ValuesOf(r)[Name(p)] = props[p].value
    <3>1. Name(p) \in {Name(q) : q \in DOMAIN props}
      OBVIOUS
    <3>2. ValuesOf(r)[Name(p)] = props[CHOOSE q \in DOMAIN props : Name(p) = Name(q)].value
      BY <2>1, <3>1
    <3> QED BY <2>2, <3>2
  <2> QED BY <2>1, <2>3
<1>11. ASSUME \A p \in DOMAIN props : environ[Name(p)] = props[p].value
       PROVE  Parsed(x) = r
  <2>1. Parsed(x) = [x EXCEPT !.props = [p \in DOMAIN exported |->
                        [value |-> Value(exported[p].value), secret |-> exported[p].secret]]]
    BY <1>7 DEF Parsed
  <2>2. DOMAIN exported = DOMAIN props
    BY DEF exported
  <2>3. ASSUME NEW p \in DOMAIN props
        PROVE  Value(exported[p].value) = props[p].value /\ exported[p].secret = props[p].secret
    <3>1. exported[p] = [value |-> Var(Name(p)), secret |-> props[p].secret]
      BY DEF exported
    <3>2. Value(Var(Name(p))) = environ[Name(p)]
      BY <1>4 DEF Value, Var
    <3> QED BY <1>11, <3>1, <3>2
  <2>4. [p \in DOMAIN exported |-> [value |-> Value(exported[p].value), secret |-> exported[p].secret]]
        = props
    BY <1>2, <2>2, <2>3
  <2>5. Parsed(x) = [r EXCEPT !.props = props]
    BY <1>6, <2>1, <2>4
  <2> QED BY <1>1, <2>5
<1> QED BY <1>7, <1>8, <1>9, <1>10, <1>11 DEF x, Name

\* The client of an application is exported with variables for its ID, its secret and
\* its redirect URIs.
LEMMA ClientExported ==
  ASSUME NEW d \in Deployments, NEW r \in d.database,
         r.kind = "application", r.client # Absent
  PROVE  LET Name(field) == VariableName(r.name, field)
             Array == Name("REDIRECT_URIS")
             uris == r.client.uris
         IN  /\ Export(r).kind = r.kind /\ Export(r).id = r.id /\ Export(r).name = r.name
             /\ Variables(Export(r)) = {Name("CLIENT_ID"), Name("CLIENT_SECRET")}
             /\ Ranges(Export(r)) = {Array}
             /\ DOMAIN ValuesOf(r) =
                   Variables(Export(r)) \cup {Indexed(Array, i - 1) : i \in 1..Len(uris)}
             /\ ValuesOf(r)[Name("CLIENT_ID")] = r.client.id
             /\ ValuesOf(r)[Name("CLIENT_SECRET")] = r.client.secret
             /\ \A i \in 1..Len(uris) : ValuesOf(r)[Indexed(Array, i - 1)] = uris[i]
             /\ /\ environ[Name("CLIENT_ID")] = r.client.id
                /\ environ[Name("CLIENT_SECRET")] = r.client.secret
                /\ Elements(Array) = uris
                => Parsed(Export(r)) = Kept(r)
<1> DEFINE Name(field) == VariableName(r.name, field)
           Array == Name("REDIRECT_URIS")
           own == r.client
           uris == own.uris
           id == Name("CLIENT_ID")
           secret == Name("CLIENT_SECRET")
           exported == [id |-> Var(id), secret |-> Var(secret), uris |-> Each(Array),
                        public |-> own.public]
           x == Export(r)
           At(i) == Indexed(Array, i - 1)
<1>1. /\ {"kind", "id", "name", "client", "flow", "branding"} \subseteq DOMAIN r
      /\ r = [field \in DOMAIN r |-> r[field]] /\ r.name \in Seq(STRING)
      /\ r.id # "" /\ r.flow # ""
  BY SoundResource DEF Sound
<1>2. SoundClient(own) /\ x.client # Absent
  BY SoundResource DEF Sound
<1>3. /\ own = [id |-> own.id, secret |-> own.secret, uris |-> own.uris,
                   public |-> own.public]
      /\ own.public \in BOOLEAN /\ (own.secret = "" <=> own.public) /\ own.id # ""
  BY <1>2 DEF SoundClient
<1>13. Len(uris) \in Nat /\ DOMAIN uris = 1..Len(uris) /\ Len(uris) \in DOMAIN Numeral
  <2>1. uris \in Seq(STRING) /\ Len(uris) \in DOMAIN Numeral
    BY <1>2 DEF SoundClient
  <2> HIDE DEF uris
  <2> QED BY <2>1
<1>4. id # <<>> /\ secret # <<>> /\ Array # <<>> /\ id # secret
  BY <1>1, FieldsTell
<1>5. /\ \A i \in 1..Len(uris) : i - 1 \in DOMAIN Numeral /\ At(i) # id /\ At(i) # secret
      /\ \A i, j \in 1..Len(uris) : At(i) = At(j) => i = j
  <2>1. PICK n \in DOMAIN Numeral : DOMAIN Numeral = 0..n
    BY ResourcesAssumption
  <2>2. \A i \in 1..Len(uris) : i - 1 \in DOMAIN Numeral
    <3> DEFINE n1 == Len(uris)
    <3>1. n \in Int /\ n1 \in Nat /\ n1 \in 0..n
      BY <1>13, <2>1
    <3> HIDE DEF n1
    <3>2. \A i \in 1..n1 : i - 1 \in 0..n
      BY <3>1
    <3> QED BY <2>1, <3>2 DEF n1
  <2>3. \A i \in DOMAIN Numeral : Numeral[i] # "CLIENT_ID" /\ Numeral[i] # "CLIENT_SECRET"
    BY ResourcesAssumption
  <2>4. ASSUME NEW i \in 1..Len(uris) PROVE At(i) # id /\ At(i) # secret
    <3> DEFINE k == i - 1
    <3>3. k \in DOMAIN Numeral
      BY <2>2
    <3> HIDE DEF k
    <3>1. \A g : Indexed(Array, k) = Name(g) => g = Numeral[k]
      <4>1. r.name \in Seq(STRING)
        BY <1>1
      <4> QED BY <3>3, <4>1, NumbersTell
    <3> QED BY <2>3, <3>1, <3>3 DEF k
  <2>5. ASSUME NEW i \in 1..Len(uris), NEW j \in 1..Len(uris), At(i) = At(j) PROVE i = j
    <3> DEFINE k == i - 1
           l == j - 1
    <3>1. k \in DOMAIN Numeral /\ l \in DOMAIN Numeral /\ Indexed(Array, k) = Indexed(Array, l)
      BY <2>2, <2>5
    <3> HIDE DEF k, l
    <3>2. k = l
      <4>1. r.name \in Seq(STRING)
        BY <1>1
      <4> QED BY <3>1, <4>1, NumbersTell
    <3> QED BY <3>2 DEF k, l
  <2> QED BY <2>2, <2>4, <2>5
<1>6. x = [r EXCEPT !.client = exported]
  BY DEF Export
<1>7. ValuesOf(r) = [v \in {id, secret} \cup {At(i) : i \in DOMAIN uris} |->
                       CASE v = id -> own.id
                         [] v = secret -> own.secret
                         [] OTHER -> uris[CHOOSE i \in DOMAIN uris : v = At(i)]]
  BY DEF ValuesOf
<1> HIDE DEF x, exported, id, secret, Array, At, Name, own, uris
<1>8. x.kind = r.kind /\ x.id = r.id /\ x.name = r.name /\ x.client = exported
  BY <1>1, <1>6
<1>9. Variables(x) = {id, secret}
  <2>1. exported # Absent
    BY <1>2, <1>8
  <2>2. Variables(x) = {exported.id.var, exported.secret.var} \ {<<>>}
    BY <1>8, <2>1 DEF Variables
  <2>3. exported.id.var = id /\ exported.secret.var = secret
    BY DEF exported, Var
  <2> QED BY <1>4, <2>2, <2>3
<1>10. Ranges(x) = {Array}
  <2>1. exported # Absent
    BY <1>2, <1>8
  <2>2. Ranges(x) = {exported.uris.var} \ {<<>>}
    BY <1>8, <2>1 DEF Ranges
  <2>3. exported.uris.var = Array
    BY DEF exported, Each
  <2> QED BY <1>4, <2>2, <2>3
<1>11. /\ DOMAIN ValuesOf(r) = {id, secret} \cup {At(i) : i \in 1..Len(uris)}
       /\ ValuesOf(r)[id] = own.id /\ ValuesOf(r)[secret] = own.secret
       /\ \A i \in 1..Len(uris) : ValuesOf(r)[At(i)] = uris[i]
  <2>1. DOMAIN uris = 1..Len(uris)
    BY <1>13
  <2>2. DOMAIN ValuesOf(r) = {id, secret} \cup {At(i) : i \in 1..Len(uris)}
    BY <1>7, <2>1
  <2>3. ValuesOf(r)[id] = own.id /\ ValuesOf(r)[secret] = own.secret
    BY <1>4, <1>7
  <2>4. ASSUME NEW i \in 1..Len(uris) PROVE ValuesOf(r)[At(i)] = uris[i]
    <3>1. At(i) # id /\ At(i) # secret /\ At(i) \in {At(j) : j \in DOMAIN uris}
      BY <1>5, <2>1
    <3>2. ValuesOf(r)[At(i)] = uris[CHOOSE j \in DOMAIN uris : At(i) = At(j)]
      BY <1>7, <3>1
    <3>3. (CHOOSE j \in DOMAIN uris : At(i) = At(j)) = i
      BY <1>5, <2>1
    <3> QED BY <3>2, <3>3
  <2> QED BY <2>2, <2>3, <2>4
<1>12. ASSUME environ[id] = own.id, environ[secret] = own.secret, Elements(Array) = uris
       PROVE  Parsed(x) = Kept(r)
  <2> DEFINE back == [id |-> Given(Value(exported.id), x.name),
                      secret |-> IF exported.public THEN Value(exported.secret)
                                 ELSE Given(Value(exported.secret), x.name),
                      uris |-> IF exported.uris.var = <<>> THEN exported.uris.texts
                               ELSE Elements(exported.uris.var),
                      public |-> exported.public]
  <2>1. exported # Absent
    BY <1>2, <1>8
  <2>2. Parsed(x) = [x EXCEPT !.id = Given(@, x.name), !.branding = Absent,
                              !.flow = IF @ = "" THEN DefaultFlow ELSE @, !.client = back]
    BY <1>1, <1>8, <2>1 DEF Parsed
  <2>3. /\ exported.id = Var(id) /\ exported.secret = Var(secret)
        /\ exported.uris.var = Array /\ exported.public = own.public
    BY DEF exported, Each
  <2>4. \A v : v # <<>> => Value(Var(v)) = environ[v]
    BY DEF Value, Var
  <2>5. Value(exported.id) = own.id /\ Value(exported.secret) = own.secret
    BY <1>4, <1>12, <2>3, <2>4
  <2>6. back = own
    <3>1. Given(own.id, x.name) = own.id
      BY <1>3 DEF Given
    <3>2. own.public \/ Given(own.secret, x.name) = own.secret
      BY <1>3 DEF Given
    <3>3. exported.uris.var # <<>> /\ Elements(exported.uris.var) = own.uris
      BY <1>4, <1>12, <2>3 DEF uris
    <3>4. back = [id |-> own.id, secret |-> own.secret, uris |-> own.uris,
                  public |-> own.public]
      BY <2>3, <2>5, <3>1, <3>2, <3>3
    <3> QED BY <1>3, <3>4
  <2> HIDE DEF back
  <2>7. Given(r.id, x.name) = r.id
    BY <1>1 DEF Given
  <2>9. x = [field \in DOMAIN r |-> IF field = "client" THEN exported ELSE r[field]]
    BY <1>6
  <2>10. Parsed(x) = [field \in DOMAIN r |->
                         CASE field = "id" -> r.id [] field = "branding" -> Absent
                           [] field = "flow" -> r.flow [] field = "client" -> own
                           [] OTHER -> r[field]]
    BY <1>1, <2>2, <2>6, <2>7, <2>9
  <2>8. Parsed(x) = [r EXCEPT !.branding = Absent]
    BY <1>1, <2>10 DEF own
  <2> QED BY <2>8 DEF Kept
<1> QED BY <1>8, <1>9, <1>10, <1>11, <1>12 DEF x, id, secret, Array, At, Name, own, uris

\* Others have no variables.
LEMMA OthersExported ==
  ASSUME NEW d \in Deployments, NEW r \in d.database,
         r.kind \notin {"idp", "sender"}, r.kind = "application" => r.client = Absent
  PROVE  /\ Export(r).kind = r.kind /\ Export(r).id = r.id /\ Export(r).name = r.name
         /\ Variables(Export(r)) = {} /\ Ranges(Export(r)) = {} /\ DOMAIN ValuesOf(r) = {}
         /\ r.kind = "application" => Parsed(Export(r)) = Kept(r)
<1>1. /\ {"kind", "id", "name"} \subseteq DOMAIN r /\ r = [field \in DOMAIN r |-> r[field]]
      /\ r.id # "" /\ r.kind \in {"schema", "idp", "sender", "application"}
  BY SoundResource
<1>2. CASE r.kind = "schema"
  <2>1. Export(r) = [r EXCEPT !.definition = "bytes"]
    BY <1>2 DEF Export
  <2>2. Export(r).kind = r.kind /\ Export(r).id = r.id /\ Export(r).name = r.name
    BY <1>1, <2>1
  <2>3. Variables(Export(r)) = {} /\ Ranges(Export(r)) = {} /\ DOMAIN ValuesOf(r) = {}
    BY <1>2, <2>2 DEF Variables, Ranges, ValuesOf
  <2> QED BY <1>2, <2>2, <2>3
<1>3. CASE r.kind = "application"
  <2>1. Export(r) = r
    BY <1>3 DEF Export
  <2>2. Variables(r) = {} /\ Ranges(r) = {} /\ DOMAIN ValuesOf(r) = {}
    BY <1>3 DEF Variables, Ranges, ValuesOf
  <2>3. {"client", "flow", "branding"} \subseteq DOMAIN r /\ r.flow # "" /\ r.client = Absent
    BY <1>3, SoundResource DEF Sound
  <2>4. Parsed(r) = [r EXCEPT !.id = Given(@, r.name), !.branding = Absent,
                              !.flow = IF @ = "" THEN DefaultFlow ELSE @, !.client = Absent]
    BY <1>3, <2>3 DEF Parsed
  <2>5. Given(r.id, r.name) = r.id
    BY <1>1 DEF Given
  <2>6. Parsed(r) = [r EXCEPT !.branding = Absent]
    BY <1>1, <2>3, <2>4, <2>5
  <2> QED BY <1>3, <2>1, <2>2, <2>6 DEF Kept
<1> QED BY <1>1, <1>2, <1>3

-----------------------------------------------------------------------------
(* The files: what is read back.                                           *)

\* Which variables a resource has a value for.
LEMMA ValuesTell ==
  ASSUME NEW d \in Deployments, NEW r \in d.database
  PROVE  LET x == Export(r)
             Array == VariableName(r.name, "REDIRECT_URIS")
         IN  /\ x.kind = r.kind /\ x.id = r.id /\ x.name = r.name
             /\ \A v \in Variables(x) : \E f :
                   v = VariableName(r.name, f) /\ \A i \in DOMAIN Numeral : f # Numeral[i]
             /\ \A v \in Ranges(x) : v = Array /\ r.kind = "application" /\ r.client # Absent
             /\ Variables(x) \subseteq DOMAIN ValuesOf(r)
             /\ \A v \in DOMAIN ValuesOf(r) :
                   /\ r.kind # "schema"
                   /\ \/ v \in Variables(x)
                      \/ /\ Ranges(x) = {Array}
                         /\ \E i \in DOMAIN Numeral :
                               i < Len(r.client.uris) /\ v = Indexed(Array, i)
<1> DEFINE x == Export(r)
           Name(f) == VariableName(r.name, f)
           Array == Name("REDIRECT_URIS")
           D == DOMAIN ValuesOf(r)
<1>1. CASE r.kind \in {"idp", "sender"}
  <2>1. /\ x.kind = r.kind /\ x.id = r.id /\ x.name = r.name
        /\ Variables(x) = {Name(p) : p \in DOMAIN r.props} /\ Ranges(x) = {} /\ D = Variables(x)
    BY <1>1, PropsExported
  <2>2. \A p \in DOMAIN r.props : \A i \in DOMAIN Numeral : p # Numeral[i]
    BY <1>1, SoundResource DEF Sound, SoundProps
  <2> HIDE DEF x, Name, D
  <2>3. \A v \in Variables(x) : \E f : v = Name(f) /\ \A i \in DOMAIN Numeral : f # Numeral[i]
    BY <2>1, <2>2
  <2> QED BY <1>1, <2>1, <2>3 DEF x, Name, D
<1>2. CASE r.kind = "application" /\ r.client # Absent
  <2> DEFINE n == Len(r.client.uris)
  <2>1. /\ x.kind = r.kind /\ x.id = r.id /\ x.name = r.name
        /\ Variables(x) = {Name("CLIENT_ID"), Name("CLIENT_SECRET")} /\ Ranges(x) = {Array}
        /\ D = Variables(x) \cup {Indexed(Array, i - 1) : i \in 1..n}
    BY <1>2, ClientExported
  <2>2. \A i \in DOMAIN Numeral : Numeral[i] # "CLIENT_ID" /\ Numeral[i] # "CLIENT_SECRET"
    BY ResourcesAssumption
  <2>3. n \in DOMAIN Numeral
    BY <1>2, SoundResource DEF Sound, SoundClient
  <2>4. PICK m \in DOMAIN Numeral : DOMAIN Numeral = 0..m
    BY ResourcesAssumption
  <2> HIDE DEF x, Name, D, n
  <2>5. \A v \in Variables(x) : \E f : v = Name(f) /\ \A i \in DOMAIN Numeral : f # Numeral[i]
    BY <2>1, <2>2
  <2>6. ASSUME NEW i \in 1..n PROVE i - 1 \in DOMAIN Numeral /\ i - 1 < n
    BY <2>3, <2>4
  <2>7. ASSUME NEW v \in D, v \notin Variables(x)
        PROVE  \E i \in DOMAIN Numeral : i < n /\ v = Indexed(Array, i)
    <3>1. PICK i \in 1..n : v = Indexed(Array, i - 1)
      BY <2>1, <2>7
    <3> QED BY <2>6, <3>1
  <2> QED BY <1>2, <2>1, <2>5, <2>7 DEF x, Name, D, n
<1>3. CASE r.kind \notin {"idp", "sender"} /\ (r.kind = "application" => r.client = Absent)
  <2>1. /\ x.kind = r.kind /\ x.id = r.id /\ x.name = r.name
        /\ Variables(x) = {} /\ Ranges(x) = {} /\ D = {}
    BY <1>3, OthersExported
  <2> QED BY <2>1
<1> QED BY <1>1, <1>2, <1>3

\* What a resource is exported with stands for its values alone.
LEMMA OwnVariables ==
  ASSUME Separate, deployment \in Deployments, NEW r \in Loadable,
         NEW s \in Requested(deployment), NEW v \in DOMAIN ValuesOf(s)
  PROVE  /\ v \in Variables(Export(r)) => s = r
         /\ \A range \in Ranges(Export(r)), i \in DOMAIN Numeral :
               v = Indexed(range, i) => s = r /\ i < Len(r.client.uris)
<1> DEFINE Array(z) == VariableName(z.name, "REDIRECT_URIS")
<1>1. r \in deployment.database /\ s \in deployment.database
  BY DEF Loadable, Requested
<1>2. r.name \in Seq(STRING) /\ s.name \in Seq(STRING)
  BY <1>1, SoundResource
<1>3. s \in Loadable
  <2>1. s.kind # "schema"
    BY <1>1, ValuesTell
  <2> QED BY <2>1 DEF Loadable
<1>4. r # s => /\ Variables(Export(r)) \cap Variables(Export(s)) = {}
               /\ Ranges(Export(r)) \cap Ranges(Export(s)) = {}
  BY <1>3 DEF Separate
<1>5. \/ v \in Variables(Export(s))
      \/ /\ Ranges(Export(s)) = {Array(s)}
         /\ \E i \in DOMAIN Numeral : i < Len(s.client.uris) /\ v = Indexed(Array(s), i)
  BY <1>1, ValuesTell
<1>6. ASSUME NEW z \in {r, s}, v \in Variables(Export(z))
      PROVE  \E f : v = VariableName(z.name, f) /\ \A i \in DOMAIN Numeral : f # Numeral[i]
  BY <1>1, <1>6, ValuesTell
<1>7. ASSUME NEW y \in {r, s}, NEW z \in {r, s}, NEW i \in DOMAIN Numeral,
             v = Indexed(Array(y), i), v \in Variables(Export(z))
      PROVE  FALSE
  <2>1. PICK f : v = VariableName(z.name, f) /\ \A j \in DOMAIN Numeral : f # Numeral[j]
    BY <1>6, <1>7
  <2>2. y.name \in Seq(STRING) /\ z.name \in Seq(STRING)
    BY <1>2
  <2>3. \A g : Indexed(Array(y), i) = VariableName(z.name, g) => g = Numeral[i]
    BY <2>2, NumbersTell
  <2> QED BY <1>7, <2>1, <2>3
<1>8. ASSUME v \in Variables(Export(r)) PROVE s = r
  <2>1. v \in Variables(Export(s))
    BY <1>5, <1>7, <1>8
  <2> QED BY <1>4, <1>8, <2>1
<1>9. ASSUME NEW range \in Ranges(Export(r)), NEW i \in DOMAIN Numeral, v = Indexed(range, i)
      PROVE  s = r /\ i < Len(r.client.uris)
  <2>1. range = Array(r)
    BY <1>1, ValuesTell
  <2>2. v \notin Variables(Export(s))
    BY <1>7, <1>9, <2>1
  <2>3. PICK j \in DOMAIN Numeral : j < Len(s.client.uris) /\ v = Indexed(Array(s), j)
    BY <1>5, <2>2
  <2>4. i = j /\ Array(r) = Array(s)
    <3>1. Indexed(Array(r), i) = Indexed(Array(s), j)
      BY <1>9, <2>1, <2>3
    <3>2. \A k \in DOMAIN Numeral :
             Indexed(Array(r), i) = Indexed(Array(s), k) => i = k /\ Array(r) = Array(s)
      BY <1>2, NumbersTell
    <3> QED BY <3>1, <3>2
  <2>5. range \in Ranges(Export(s))
    BY <1>5, <2>1, <2>2, <2>4
  <2> QED BY <1>4, <2>3, <2>4, <2>5
<1> QED BY <1>8, <1>9

LEMMA OwnValues ==
  ASSUME Separate, deployment \in Deployments, environ = Environment(deployment),
         NEW r \in Loadable, NEW v \in DOMAIN ValuesOf(r),
         \/ v \in Variables(Export(r))
         \/ \E range \in Ranges(Export(r)), i \in DOMAIN Numeral : v = Indexed(range, i)
  PROVE  v \in DOMAIN environ /\ environ[v] = ValuesOf(r)[v]
<1> DEFINE S == Requested(deployment)
           Owners(w) == {s \in S : w \in DOMAIN ValuesOf(s)}
           own == deployment.environment
<1>1. r \in S
  BY DEF Loadable
<1>2. environ = [w \in DOMAIN own \cup UNION {DOMAIN ValuesOf(s) : s \in S} |->
                    IF w \in DOMAIN own THEN own[w] ELSE ValuesOf(CHOOSE s \in Owners(w) : TRUE)[w]]
  BY DEF Environment
<1>3. v \notin DOMAIN own
  <2>1. \A w \in DOMAIN own :
           /\ w \notin Variables(Export(r))
           /\ \A range \in Ranges(Export(r)), i \in DOMAIN Numeral : w # Indexed(range, i)
    BY <1>1, ResourcesAssumption
  <2> QED BY <2>1
<1>4. Owners(v) = {r}
  <2>1. ASSUME NEW s \in Owners(v) PROVE s = r
    BY OwnVariables
  <2> QED BY <1>1, <2>1
<1>5. (CHOOSE s \in Owners(v) : TRUE) = r
  BY <1>4
<1>6. v \in UNION {DOMAIN ValuesOf(s) : s \in S}
  BY <1>1
<1> HIDE DEF S, Owners, own
<1> QED BY <1>2, <1>3, <1>5, <1>6

\* An array ends where no variable is set.
LEMMA OwnElements ==
  ASSUME Separate, deployment \in Deployments, environ = Environment(deployment),
         NEW r \in Loadable, r.kind = "application", r.client # Absent
  PROVE  Elements(VariableName(r.name, "REDIRECT_URIS")) = r.client.uris
<1> DEFINE range == VariableName(r.name, "REDIRECT_URIS")
           uris == r.client.uris
           n == Len(uris)
           At(i) == Indexed(range, i)
           EndsAt(i) == At(i) \notin DOMAIN environ \/ environ[At(i)] = ""
<1>1. r \in deployment.database /\ r \in Requested(deployment)
  BY DEF Loadable, Requested
<1>2. /\ Ranges(Export(r)) = {range}
      /\ \A i \in 1..n : /\ Indexed(range, i - 1) \in DOMAIN ValuesOf(r)
                         /\ ValuesOf(r)[Indexed(range, i - 1)] = uris[i]
  <2>1. /\ Ranges(Export(r)) = {range}
        /\ DOMAIN ValuesOf(r) = Variables(Export(r)) \cup {Indexed(range, i - 1) : i \in 1..n}
        /\ \A i \in 1..n : ValuesOf(r)[Indexed(range, i - 1)] = uris[i]
    BY <1>1, ClientExported
  <2> QED BY <2>1
<1>13. uris \in Seq(STRING) /\ "" \notin ToSet(uris) /\ n \in DOMAIN Numeral
  BY <1>1, SoundResource DEF Sound, SoundClient
<1> HIDE DEF uris
<1>14. n \in Nat /\ n \in DOMAIN Numeral /\ DOMAIN uris = 1..n
  <2>1. uris \in Seq(STRING)
    BY <1>13
  <2>2. Len(uris) \in Nat /\ DOMAIN uris = 1..Len(uris)
    BY <2>1
  <2> QED BY <1>13, <2>2
<1>15. uris = [i \in 1..n |-> uris[i]]
  <2>1. uris \in Seq(STRING)
    BY <1>13
  <2>2. uris = [i \in 1..Len(uris) |-> uris[i]]
    BY <2>1
  <2> QED BY <2>2
<1>3. \A i \in 1..n : uris[i] # ""
  BY <1>13, <1>14 DEF ToSet
<1>4. PICK m \in DOMAIN Numeral : DOMAIN Numeral = 0..m
  BY ResourcesAssumption
<1> HIDE DEF range, n
<1>16. m \in Int /\ n \in 0..m
  BY <1>4, <1>14
<1>5. \A i \in 0..(n - 1) : i \in DOMAIN Numeral
  BY <1>4, <1>14, <1>16
<1>6. ASSUME NEW i \in 0..(n - 1)
      PROVE  ~EndsAt(i) /\ environ[At(i)] = uris[i + 1]
  <2>1. i + 1 \in 1..n /\ (i + 1) - 1 = i
    BY <1>14
  <2>2. At(i) \in DOMAIN ValuesOf(r) /\ ValuesOf(r)[At(i)] = uris[i + 1]
    BY <1>2, <2>1
  <2>3. \E v \in Ranges(Export(r)), j \in DOMAIN Numeral : At(i) = Indexed(v, j)
    BY <1>2, <1>5
  <2> HIDE DEF At
  <2>4. At(i) \in DOMAIN environ /\ environ[At(i)] = ValuesOf(r)[At(i)]
    BY <2>2, <2>3, OwnValues
  <2> QED BY <1>3, <2>1, <2>2, <2>4
<1>7. EndsAt(n)
  <2> SUFFICES ASSUME At(n) \in DOMAIN environ PROVE FALSE
    OBVIOUS
  <2>1. /\ At(n) \notin DOMAIN deployment.environment
    <3>1. \A w \in DOMAIN deployment.environment :
             \A v \in Ranges(Export(r)), i \in DOMAIN Numeral : w # Indexed(v, i)
      BY <1>1, ResourcesAssumption
    <3> QED BY <1>2, <1>14, <3>1
  <2>2. PICK s \in Requested(deployment) : At(n) \in DOMAIN ValuesOf(s)
    <3>1. DOMAIN environ = DOMAIN deployment.environment
                           \cup UNION {DOMAIN ValuesOf(s) : s \in Requested(deployment)}
      BY DEF Environment
    <3> QED BY <2>1, <3>1
  <2>3. n < Len(r.client.uris)
    <3>1. range \in Ranges(Export(r))
      BY <1>2
    <3> QED BY <1>14, <2>2, <3>1, OwnVariables
  <2>4. n < n
    BY <2>3 DEF n, uris
  <2> QED BY <1>14, <2>4
<1>8. \A k \in DOMAIN Numeral : (EndsAt(k) /\ \A i \in 0..(k - 1) : ~EndsAt(i)) <=> k = n
  <2> HIDE DEF EndsAt
  <2>1. \A i \in 0..(n - 1) : ~EndsAt(i)
    BY <1>6
  <2>2. ASSUME NEW k \in 0..m, EndsAt(k), \A i \in 0..(k - 1) : ~EndsAt(i) PROVE k = n
    <3>1. ~(k < n)
      BY <1>14, <1>16, <2>1, <2>2
    <3>2. ~(n < k)
      BY <1>7, <1>14, <1>16, <2>2
    <3> QED BY <1>14, <1>16, <3>1, <3>2
  <2> QED BY <1>4, <1>7, <1>14, <2>1, <2>2
<1> DEFINE End == CHOOSE k \in DOMAIN Numeral : EndsAt(k) /\ \A i \in 0..(k - 1) : ~EndsAt(i)
<1>9. End = n
  <2> HIDE DEF EndsAt
  <2> QED BY <1>8, <1>14
<1>10. Elements(range) = [i \in 1..End |-> environ[At(i - 1)]]
  BY DEF Elements
<1> HIDE DEF End
<1>11. \A i \in 1..n : environ[At(i - 1)] = uris[i]
  <2>1. ASSUME NEW i \in 1..n PROVE environ[At(i - 1)] = uris[i]
    <3>1. i - 1 \in 0..(n - 1) /\ (i - 1) + 1 = i
      BY <1>14
    <3> QED BY <1>6, <3>1
  <2> QED BY <2>1
<1> HIDE DEF At
<1>12. Elements(range) = uris
  BY <1>9, <1>10, <1>11, <1>15
<1> QED BY <1>12 DEF range, uris

\* Each resource comes back as it was, but for its branding.
LEMMA ReadBack ==
  ASSUME Separate, deployment \in Deployments, environ = Environment(deployment),
         NEW r \in Loadable
  PROVE  Readable(Export(r)) /\ Parsed(Export(r)) = Kept(r)
<1> DEFINE x == Export(r)
           Name(f) == VariableName(r.name, f)
<1>1. r \in deployment.database /\ r.kind # "schema"
  BY DEF Loadable, Requested
<1>2. x.kind = r.kind /\ Variables(x) \subseteq DOMAIN ValuesOf(r)
  BY <1>1, ValuesTell
<1>3. \A v \in Variables(x) : v \in DOMAIN environ /\ environ[v] = ValuesOf(r)[v]
  BY <1>2, OwnValues
<1>4. Readable(x)
  <2>1. \A v \in Variables(x) \cup Ranges(x) : IsVariable(v)
    BY DEF Separate
  <2> QED BY <1>1, <1>2, <1>3, <2>1 DEF Readable
<1>5. CASE r.kind \in {"idp", "sender"}
  <2>1. /\ Variables(x) = {Name(p) : p \in DOMAIN r.props}
        /\ \A p \in DOMAIN r.props : ValuesOf(r)[Name(p)] = r.props[p].value
        /\ (\A p \in DOMAIN r.props : environ[Name(p)] = r.props[p].value) => Parsed(x) = r
    BY <1>1, <1>5, PropsExported
  <2> HIDE DEF x, Name
  <2>2. ASSUME NEW p \in DOMAIN r.props PROVE environ[Name(p)] = r.props[p].value
    BY <1>3, <2>1
  <2> QED BY <1>4, <1>5, <2>1, <2>2 DEF Kept, x
<1>6. CASE r.kind = "application" /\ r.client # Absent
  <2>1. /\ Variables(x) = {Name("CLIENT_ID"), Name("CLIENT_SECRET")}
        /\ ValuesOf(r)[Name("CLIENT_ID")] = r.client.id
        /\ ValuesOf(r)[Name("CLIENT_SECRET")] = r.client.secret
        /\ /\ environ[Name("CLIENT_ID")] = r.client.id
           /\ environ[Name("CLIENT_SECRET")] = r.client.secret
           /\ Elements(Name("REDIRECT_URIS")) = r.client.uris
           => Parsed(x) = Kept(r)
    BY <1>1, <1>6, ClientExported
  <2>2. Elements(Name("REDIRECT_URIS")) = r.client.uris
    BY <1>6, OwnElements
  <2> QED BY <1>3, <1>4, <2>1, <2>2
<1>7. CASE r.kind \notin {"idp", "sender"} /\ (r.kind = "application" => r.client = Absent)
  <2>1. r.kind = "application"
    BY <1>1, <1>7, SoundResource
  <2> QED BY <1>1, <1>4, <1>7, <2>1, OthersExported
<1> QED BY <1>5, <1>6, <1>7

-----------------------------------------------------------------------------
(* The event bus: the inductive invariant.                                 *)

\* The WaitGroup counts exactly the goroutines that run.
WaitGroupExact == wg = {d \in Deliveries : task[d] \in {"spawned", "handling"}}

\* Only a call that has set isShutdown gets past it, and p.wg.Wait leaves no
\* goroutine inside OnEvent: one that is spawned later skips.
ShutdownPhases ==
    \A c \in Closers :
        /\ closer[c] \in {"waiting", "closing"} => isShutdown
        /\ closer[c] = "closing" => \A d \in Deliveries : task[d] # "handling"

\* Something was closed only by a call that had waited.
ClosedAfterWait ==
    closed # {} => isShutdown /\ \A d \in Deliveries : task[d] # "handling"

\* A copy is in one place: not accepted yet, pending, or with its goroutine.
PublishPhases ==
    \A e \in Events :
        /\ publish[e] = "idle" => pending[e] = {}
        /\ publish[e] = "idle" => \A s \in Subscribers : task[<<e, s>>] = "none"
        /\ \A s \in pending[e] : task[<<e, s>>] = "none"

\* At most one call of Shutdown gets to the subscribers.
OneEffectiveShutdown ==
    /\ ~isShutdown => toClose = {} /\ closed = {}
    /\ toClose \cap closed = {}

IInv ==
    /\ TypeOK
    /\ WaitGroupExact
    /\ ShutdownPhases
    /\ ClosedAfterWait
    /\ PublishPhases
    /\ OneEffectiveShutdown
    /\ CategoryIndexAgrees

USE CategoryAssumption DEF Deliveries

-----------------------------------------------------------------------------
(* Type correctness.                                                       *)

\* Every operation of publisher.go keeps the state in its types.
LEMMA TypeStep == TypeOK /\ [Next]_busVars => TypeOK'
<1> SUFFICES ASSUME TypeOK, [Next]_busVars PROVE TypeOK'
  OBVIOUS
<1> USE DEF TypeOK
<1>1. ASSUME NEW s \in Subscribers, Subscribe(s) \/ Unsubscribe(s) PROVE TypeOK'
  BY <1>1 DEF Subscribe, Unsubscribe
<1>2. ASSUME NEW e \in Events, PublishIgnored(e) \/ PublishAccepted(e) PROVE TypeOK'
  BY <1>2 DEF PublishIgnored, PublishAccepted
<1>3. ASSUME NEW e \in Events, NEW s \in Subscribers, Deliver(e, s) PROVE TypeOK'
  <2>1. CASE SpawnHandler(e, s)
    <3>1. pending' \in [Events -> SUBSET Subscribers] BY <2>1 DEF SpawnHandler
    <3>2. publish' \in [Events -> {"idle", "spawning", "returned"}]
      BY <2>1 DEF SpawnHandler
    <3> QED BY <2>1, <3>1, <3>2 DEF SpawnHandler
  <2>2. CASE StartHandler(e, s) BY <2>2 DEF StartHandler
  <2>3. CASE SkipHandler(e, s) BY <2>3 DEF SkipHandler
  <2>4. CASE FinishHandler(e, s) BY <2>4 DEF FinishHandler
  <2> QED BY <1>3, <2>1, <2>2, <2>3, <2>4 DEF Deliver
<1>4. ASSUME NEW c \in Closers, Shutdown(c) PROVE TypeOK'
  <2>1. CASE BeginShutdown(c) BY <2>1 DEF BeginShutdown
  <2>2. CASE RepeatedShutdown(c) BY <2>2 DEF RepeatedShutdown
  <2>3. CASE HandlersDrained(c) BY <2>3 DEF HandlersDrained
  <2>4. CASE ShutdownReturns(c) BY <2>4 DEF ShutdownReturns
  <2>5. ASSUME NEW s \in Subscribers, CloseSubscriber(c, s) PROVE TypeOK'
    BY <2>5 DEF CloseSubscriber
  <2> QED BY <1>4, <2>1, <2>2, <2>3, <2>4, <2>5 DEF Shutdown
<1>5. CASE UNCHANGED busVars
  BY <1>5 DEF busVars
<1> QED BY <1>1, <1>2, <1>3, <1>4, <1>5 DEF Next

\* The state of the publisher always has its types.
THEOREM TypeCorrect == Spec => []TypeOK
<1>1. Init => TypeOK
  BY DEF Init, TypeOK
<1> QED BY <1>1, TypeStep, PTL DEF Spec

-----------------------------------------------------------------------------
(* The invariant is inductive.                                             *)

LEMMA InitInv == Init => IInv
  BY DEF Init, IInv, TypeOK, WaitGroupExact, ShutdownPhases, ClosedAfterWait,
         PublishPhases, OneEffectiveShutdown, CategoryIndexAgrees

\* Subscribe and Unsubscribe touch the two maps only.
LEMMA SubscriptionStep ==
  ASSUME IInv, NEW s \in Subscribers, Subscribe(s) \/ Unsubscribe(s)
  PROVE  IInv'
<1>1. TypeOK'
  BY TypeStep DEF IInv, Next
<1>2. CategoryIndexAgrees'
  BY DEF IInv, TypeOK, CategoryIndexAgrees, Subscribe, Unsubscribe
<1> QED
  BY <1>1, <1>2 DEF IInv, WaitGroupExact, ShutdownPhases, ClosedAfterWait,
     PublishPhases, OneEffectiveShutdown, Subscribe, Unsubscribe

\* Publish, up to where it starts its goroutines.
LEMMA PublishStep ==
  ASSUME IInv, NEW e \in Events, PublishIgnored(e) \/ PublishAccepted(e)
  PROVE  IInv'
<1>1. TypeOK'
  BY TypeStep DEF IInv, Next
<1>2. CASE PublishIgnored(e)
  BY <1>1, <1>2 DEF IInv, TypeOK, WaitGroupExact, ShutdownPhases, ClosedAfterWait,
     PublishPhases, OneEffectiveShutdown, CategoryIndexAgrees, PublishIgnored
<1>3. CASE PublishAccepted(e)
  <2>1. PublishPhases'
    <3> SUFFICES ASSUME NEW f \in Events
                 PROVE  /\ publish'[f] = "idle" => pending'[f] = {}
                        /\ publish'[f] = "idle" => \A s \in Subscribers : task'[<<f, s>>] = "none"
                        /\ \A s \in pending'[f] : task'[<<f, s>>] = "none"
      BY DEF PublishPhases
    <3>1. CASE f = e
      BY <1>3, <3>1 DEF IInv, TypeOK, PublishPhases, PublishAccepted
    <3>2. CASE f # e
      BY <1>3, <3>2 DEF IInv, TypeOK, PublishPhases, PublishAccepted
    <3> QED BY <3>1, <3>2
  <2> QED
    BY <1>1, <1>3, <2>1 DEF IInv, WaitGroupExact, ShutdownPhases, ClosedAfterWait,
       OneEffectiveShutdown, CategoryIndexAgrees, PublishAccepted
<1> QED BY <1>2, <1>3

\* The goroutines: only StartHandler enters OnEvent, and it has seen the bus open.
LEMMA DeliverStep ==
  ASSUME IInv, NEW e \in Events, NEW s \in Subscribers, Deliver(e, s)
  PROVE  IInv'
<1> USE DEF Deliver, SpawnHandler, StartHandler, SkipHandler, FinishHandler
<1>1. TypeOK'
  BY TypeStep DEF IInv, Next
<1>2. WaitGroupExact'
  BY DEF IInv, TypeOK, WaitGroupExact
<1>3. ShutdownPhases'
  BY DEF IInv, TypeOK, ShutdownPhases
<1>4. ClosedAfterWait'
  BY DEF IInv, TypeOK, ClosedAfterWait
<1>5. PublishPhases'
  BY DEF IInv, TypeOK, PublishPhases
<1>6. OneEffectiveShutdown' /\ CategoryIndexAgrees'
  BY DEF IInv, OneEffectiveShutdown, CategoryIndexAgrees
<1> QED BY <1>1, <1>2, <1>3, <1>4, <1>5, <1>6 DEF IInv

\* Shutdown: p.wg.Wait is what makes closing safe.
LEMMA ShutdownStep ==
  ASSUME IInv, NEW c \in Closers, Shutdown(c)
  PROVE  IInv'
<1>1. TypeOK'
  BY TypeStep DEF IInv, Next
<1>2. CASE BeginShutdown(c)
  BY <1>1, <1>2 DEF IInv, TypeOK, WaitGroupExact, ShutdownPhases, ClosedAfterWait,
     PublishPhases, OneEffectiveShutdown, CategoryIndexAgrees, BeginShutdown
<1>3. CASE RepeatedShutdown(c)
  BY <1>1, <1>3 DEF IInv, TypeOK, WaitGroupExact, ShutdownPhases, ClosedAfterWait,
     PublishPhases, OneEffectiveShutdown, CategoryIndexAgrees, RepeatedShutdown
<1>4. CASE HandlersDrained(c)
  <2>1. \A d \in Deliveries : task[d] # "handling"
    BY <1>4 DEF IInv, WaitGroupExact, HandlersDrained
  <2>2. ShutdownPhases'
    BY <1>4, <2>1 DEF IInv, TypeOK, ShutdownPhases, HandlersDrained
  <2> QED
    BY <1>1, <1>4, <2>2 DEF IInv, WaitGroupExact, ClosedAfterWait, PublishPhases,
       OneEffectiveShutdown, CategoryIndexAgrees, HandlersDrained
<1>5. CASE ShutdownReturns(c)
  BY <1>1, <1>5 DEF IInv, TypeOK, WaitGroupExact, ShutdownPhases, ClosedAfterWait,
     PublishPhases, OneEffectiveShutdown, CategoryIndexAgrees, ShutdownReturns
<1>6. ASSUME NEW s \in Subscribers, CloseSubscriber(c, s) PROVE IInv'
  <2>1. isShutdown /\ \A d \in Deliveries : task[d] # "handling"
    BY <1>6 DEF IInv, ShutdownPhases, CloseSubscriber
  <2>2. OneEffectiveShutdown'
    BY <1>6, <2>1 DEF IInv, OneEffectiveShutdown, CloseSubscriber
  <2> QED
    BY <1>1, <1>6, <2>1, <2>2 DEF IInv, WaitGroupExact, ShutdownPhases,
       ClosedAfterWait, PublishPhases, CategoryIndexAgrees, CloseSubscriber
<1> QED BY <1>2, <1>3, <1>4, <1>5, <1>6 DEF Shutdown

LEMMA InvStep == IInv /\ [Next]_busVars => IInv'
<1> SUFFICES ASSUME IInv, [Next]_busVars PROVE IInv'
  OBVIOUS
<1>1. CASE UNCHANGED busVars
  BY <1>1 DEF IInv, TypeOK, WaitGroupExact, ShutdownPhases, ClosedAfterWait,
     PublishPhases, OneEffectiveShutdown, CategoryIndexAgrees, busVars
<1> QED
  BY <1>1, SubscriptionStep, PublishStep, DeliverStep, ShutdownStep DEF Next

LEMMA Invariance == Spec => []IInv
  BY InitInv, InvStep, PTL DEF Spec

-----------------------------------------------------------------------------
(* What follows.                                                           *)

\* publisher.go's two maps agree after every Subscribe and Unsubscribe.
THEOREM CategoryIndexCorrect == Spec => []CategoryIndexAgrees
<1>1. IInv => CategoryIndexAgrees BY DEF IInv
<1> QED BY <1>1, Invariance, PTL

\* No subscriber handles an event once Shutdown has closed it, although
\* Publish may start goroutines after p.wg.Wait has returned.
THEOREM NoHandlingOnceClosedCorrect == Spec => []NoHandlingOnceClosed
<1>1. IInv => NoHandlingOnceClosed
  BY DEF IInv, ClosedAfterWait, NoHandlingOnceClosed
<1> QED BY <1>1, Invariance, PTL

\* Shutdown closes a subscriber once, whoever else calls it.
THEOREM NoDoubleCloseCorrect == Spec => []NoDoubleClose
<1>1. IInv => NoDoubleClose
  BY DEF IInv, OneEffectiveShutdown, NoDoubleClose
<1> QED BY <1>1, Invariance, PTL

-----------------------------------------------------------------------------
(* The publisher implements EventDelivery.                                 *)

\* Nothing is owed to anybody while nothing was published.
LEMMA PromiseInit == Init => Promise!Init
  BY DEF Init, Promise!Init, Promise!Copies, DeliveryOf

\* Subscribing, and Publish of an event nobody gets, are invisible.
LEMMA PromiseInvisible ==
  ASSUME UNCHANGED <<task, pending, isShutdown, closed>>
  PROVE  UNCHANGED Promise!deliveryVars
<1>1. \A d \in Deliveries : DeliveryOf(d)' = DeliveryOf(d)
  BY DEF DeliveryOf
<1> QED BY <1>1 DEF Promise!deliveryVars

\* The copy under the read lock is what makes an event owed.
LEMMA PromiseAccept ==
  ASSUME IInv, NEW e \in Events, PublishAccepted(e)
  PROVE  Promise!Next
<1>1. /\ subscribers \in SUBSET Subscribers
      /\ \A s \in Subscribers : task[<<e, s>>] = "none" /\ s \notin pending[e]
  BY DEF IInv, TypeOK, PublishPhases, PublishAccepted
<1>2. \A s \in Subscribers : DeliveryOf(<<e, s>>) = "none"
  BY <1>1 DEF DeliveryOf
<1>3. ASSUME NEW d \in Deliveries
      PROVE  DeliveryOf(d)' = IF d[1] = e /\ d[2] \in subscribers THEN "owed" ELSE DeliveryOf(d)
  <2>1. CASE d[1] = e
    <3>1. task[d] = "none" /\ d[2] \notin pending[e]
      BY <1>1, <2>1
    <3>2. pending'[e] = subscribers /\ task'[d] = "none"
      BY <3>1 DEF IInv, TypeOK, PublishAccepted
    <3> QED BY <2>1, <3>1, <3>2 DEF DeliveryOf
  <2>2. CASE d[1] # e
    <3>1. pending'[d[1]] = pending[d[1]] /\ task'[d] = task[d]
      BY <2>2 DEF IInv, TypeOK, PublishAccepted
    <3> QED BY <2>2, <3>1 DEF DeliveryOf
  <2> QED BY <2>1, <2>2
<1>4. Promise!Accept(e, subscribers)
  BY <1>1, <1>2, <1>3 DEF PublishAccepted, Promise!Accept, Promise!Copies
<1> QED BY <1>1, <1>4 DEF Promise!Next

\* Spawning moves a copy to its goroutine; what the goroutine does settles it.
LEMMA PromiseDeliver ==
  ASSUME IInv, NEW e \in Events, NEW s \in Subscribers, Deliver(e, s)
  PROVE  [Promise!Next]_(Promise!deliveryVars)
<1> DEFINE c == <<e, s>>
<1>1. /\ c \in Deliveries /\ c[1] = e /\ c[2] = s
      /\ task \in [Deliveries -> {"none", "spawned", "handling", "handled", "skipped"}]
      /\ pending \in [Events -> SUBSET Subscribers]
  BY DEF IInv, TypeOK
<1>2. ASSUME NEW v, task' = [task EXCEPT ![c] = v], v \in {"handling", "handled", "skipped"},
             UNCHANGED pending
      PROVE  [d \in Deliveries |-> DeliveryOf(d)]' =
                 [[d \in Deliveries |-> DeliveryOf(d)] EXCEPT ![c] = v]
  <2>1. DeliveryOf(c)' = v
    BY <1>1, <1>2 DEF DeliveryOf
  <2>2. \A d \in Deliveries : d # c => DeliveryOf(d)' = DeliveryOf(d)
    BY <1>1, <1>2 DEF DeliveryOf
  <2> QED BY <2>1, <2>2
<1>3. CASE SpawnHandler(e, s)
  <2>1. ASSUME NEW d \in Deliveries PROVE DeliveryOf(d)' = DeliveryOf(d)
    <3>1. CASE d = c
      <4>1. task[c] = "none" /\ s \in pending[e] /\ task'[c] = "spawned"
        BY <1>1, <1>3 DEF IInv, PublishPhases, SpawnHandler
      <4> QED BY <1>1, <3>1, <4>1 DEF DeliveryOf
    <3>2. CASE d # c
      <4>1. task'[d] = task[d] /\ (d[2] \in pending'[d[1]] <=> d[2] \in pending[d[1]])
        BY <1>1, <1>3, <3>2 DEF SpawnHandler
      <4> QED BY <4>1 DEF DeliveryOf
    <3> QED BY <3>1, <3>2
  <2> QED BY <1>3, <2>1 DEF SpawnHandler, Promise!deliveryVars
<1>4. CASE StartHandler(e, s)
  <2>1. Promise!Begin(c)
    BY <1>1, <1>2, <1>4 DEF StartHandler, Promise!Begin, DeliveryOf
  <2> QED BY <1>1, <2>1 DEF Promise!Next, Promise!Settle, Promise!Copies
<1>5. CASE SkipHandler(e, s)
  <2>1. Promise!Drop(c)
    BY <1>1, <1>2, <1>5 DEF SkipHandler, Promise!Drop, DeliveryOf
  <2> QED BY <1>1, <2>1 DEF Promise!Next, Promise!Settle, Promise!Copies
<1>6. CASE FinishHandler(e, s)
  <2>1. Promise!Finish(c)
    BY <1>1, <1>2, <1>6 DEF FinishHandler, Promise!Finish, DeliveryOf
  <2> QED BY <1>1, <2>1 DEF Promise!Next, Promise!Settle, Promise!Copies
<1> QED BY <1>3, <1>4, <1>5, <1>6 DEF Deliver

\* Shutdown stops the bus in its critical section and closes after p.wg.Wait.
LEMMA PromiseShutdown ==
  ASSUME IInv, NEW c \in Closers, Shutdown(c)
  PROVE  [Promise!Next]_(Promise!deliveryVars)
<1>1. CASE BeginShutdown(c)
  <2>1. \A d \in Deliveries : DeliveryOf(d)' = DeliveryOf(d)
    BY <1>1 DEF BeginShutdown, DeliveryOf
  <2>2. Promise!Stop
    BY <1>1, <2>1 DEF BeginShutdown, Promise!Stop
  <2> QED BY <2>2 DEF Promise!Next
<1>2. CASE RepeatedShutdown(c) \/ HandlersDrained(c) \/ ShutdownReturns(c)
  BY <1>2, PromiseInvisible DEF RepeatedShutdown, HandlersDrained, ShutdownReturns
<1>3. ASSUME NEW s \in Subscribers, CloseSubscriber(c, s) PROVE Promise!Next
  <2>1. \A d \in Deliveries : DeliveryOf(d)' = DeliveryOf(d)
    BY <1>3 DEF CloseSubscriber, DeliveryOf
  <2>2. isShutdown /\ s \notin closed /\ \A d \in Deliveries : task[d] # "handling"
    BY <1>3 DEF IInv, ShutdownPhases, OneEffectiveShutdown, CloseSubscriber
  <2>3. \A d \in Deliveries : DeliveryOf(d) # "handling"
    BY <2>2 DEF DeliveryOf
  <2>4. Promise!Close(s)
    BY <1>3, <2>1, <2>2, <2>3 DEF CloseSubscriber, Promise!Close, Promise!Copies
  <2> QED BY <2>4 DEF Promise!Next
<1> QED BY <1>1, <1>2, <1>3 DEF Shutdown

LEMMA PromiseStep == IInv /\ [Next]_busVars => [Promise!Next]_(Promise!deliveryVars)
<1> SUFFICES ASSUME IInv, [Next]_busVars PROVE [Promise!Next]_(Promise!deliveryVars)
  OBVIOUS
<1>1. ASSUME NEW s \in Subscribers, Subscribe(s) \/ Unsubscribe(s)
      PROVE  UNCHANGED Promise!deliveryVars
  BY <1>1, PromiseInvisible DEF Subscribe, Unsubscribe
<1>2. ASSUME NEW e \in Events, PublishIgnored(e) PROVE UNCHANGED Promise!deliveryVars
  BY <1>2, PromiseInvisible DEF PublishIgnored
<1>3. CASE UNCHANGED busVars
  BY <1>3, PromiseInvisible DEF busVars
<1> QED
  BY <1>1, <1>2, <1>3, PromiseAccept, PromiseDeliver, PromiseShutdown DEF Next

\* The safety part of KeepsPromise: the publisher settles each accepted copy
\* at most once and closes a subscriber once, when nothing is being handled.
THEOREM PublisherKeepsPromise ==
  Spec => Promise!Init /\ [][Promise!Next]_(Promise!deliveryVars)
  BY PromiseInit, PromiseStep, Invariance, PTL DEF Spec

-----------------------------------------------------------------------------
(* The server: the inductive invariant.                                    *)

Down == {"closing", "stopped"}
Phases == {"starting", "loading", "loaded", "fatal", "serving", "draining", "unregistering"}
          \cup Down
RequestStates == {"none", "working", "connected", "failed", "queried", "refused", "enabled",
                  "publishing", "panicked", "done"}

PoolsTypeOK ==
    /\ open \in SUBSET Nat
    /\ opened \in Nat /\ \A p \in open : p <= opened
    /\ client \in [Databases -> Nat \cup {None}]
    /\ missed \in [Requests -> Databases \cup {None}]
    /\ held \in [Requests -> Nat \cup {None}]

ServerTypeOK ==
    /\ phase \in Phases
    /\ toInit \in SUBSET Subscribers /\ active \in SUBSET Subscribers
    /\ failedFast \in BOOLEAN /\ publisher \in BOOLEAN /\ timedOut \in BOOLEAN
    /\ request \in [Requests -> RequestStates]
    /\ toCloseDB \in SUBSET Databases

\* Every subscriber that was initialized is registered before anything else is set up,
\* unless an error ended the initialization, after which none is.
SetUp ==
    /\ phase # "starting" \/ kindsLeft # Kinds =>
          toInit = {} /\ (failedFast \/ subscribers = active)
    /\ toInit # {} => subscribers = {} /\ ~failedFast
    /\ failedFast => subscribers = {}
    /\ publisher \/ phase \in Down \/ toInit \cup active = {}

\* Before requests are served, and without subscribers, nothing is delivered.
NothingDelivered ==
    /\ phase = "starting" => \A r \in Requests : request[r] = "none"
    /\ phase = "starting" \/ failedFast =>
          /\ written = {}
          /\ \A e \in Events : pending[e] = {} /\ \A s \in Subscribers : task[<<e, s>>] = "none"

\* Only the end of the server shuts the bus down, and whom Shutdown copied it closes.
AllAreClosed ==
    isShutdown => phase \in {"unregistering"} \cup Down /\ subscribers = toClose \cup closed

\* What was written is in the buffer or in the file, and from FileSubscriber.Close on,
\* which waits for its turn behind wg.Wait, nothing is in the buffer.
LogKept ==
    /\ written \subseteq file \cup buffer
    /\ adapter \in {"none", "open", "flushed", "marked", "closed"}
    /\ adapter = "none" <=> FileSub \notin active
    /\ adapter = "none" => written = {}
    /\ FileSub \in closed <=> adapter \in {"flushed", "marked", "closed"}
    /\ FileSub \in closed => buffer = {}

\* When Service.Shutdown has returned, so have the calls of Close of all subscribers.
ServiceIsDown ==
    phase \in Down => failedFast \/ (active \subseteq closed /\ adapter \in {"none", "closed"})

\* The HTTP server is stopped with requests in progress only if it timed out.
ServerDrained ==
    IF phase \in {"unregistering"} \cup Down THEN timedOut \/ InProgress = {} ELSE ~timedOut

\* Until the pools are closed, the client of a database and that of a request are those
\* of open pools, and a request finds the publisher that it has seen.
RequestsServed ==
    /\ phase \notin Down => \A d \in Databases : client[d] \in open \cup {None}
    /\ \A r \in Requests :
          /\ request[r] \in {"none", "working"} => held[r] = None
          /\ request[r] = "connected" /\ phase \notin Down => held[r] \in open
          /\ request[r] \in {"enabled", "publishing"} => publisher \/ timedOut

\* Close of the provider leaves no pool behind, if nobody opens another.
PoolsClosed ==
    /\ phase \notin Down => toCloseDB = Databases
    /\ phase = "stopped" => toCloseDB = {}
    /\ phase \in Down /\ ~timedOut => \A d \in Databases \ toCloseDB : client[d] \notin open

RInv ==
    /\ IInv /\ PoolsTypeOK /\ ServerTypeOK
    /\ SetUp /\ NothingDelivered /\ AllAreClosed
    /\ LogKept /\ ServiceIsDown /\ ServerDrained
    /\ RequestsServed /\ PoolsClosed
    /\ NoPoolLost /\ OnlyLateRequestsSuffer

USE RuntimeAssumption, PoolsAssumption

-----------------------------------------------------------------------------
(* The server as a user of the bus: each of its steps is one of the bus, or *)
(* invisible there, so that what is shown of the bus above holds here.      *)

LEMMA BusStep == RuntimeNext => [Next]_busVars
<1> SUFFICES ASSUME RuntimeNext PROVE [Next]_busVars
  OBVIOUS
<1> USE DEF partVars, serverVars
<1>1. ASSUME NEW s \in Subscribers, InitSubscriber(s) \/ InitSubscriberFails(s) \/ Register(s)
      PROVE  [Next]_busVars
  BY <1>1 DEF InitSubscriber, InitSubscriberFails, Register, Next
<1>2. CASE LoadResources \/ LoadGraphs \/ GraphsLoaded \/ Serve
  BY <1>2 DEF LoadResources, LoadGraphs, GraphsLoaded, Serve
<1>3. ASSUME NEW id \in DOMAIN configured, LoadGraph(id) PROVE [Next]_busVars
  BY <1>3 DEF LoadGraph
<1>4. ASSUME NEW r \in Requests, Work(r) PROVE [Next]_busVars
  <2>1. CASE Arrive(r) \/ GetDatabase(r) \/ Query(r) \/ LookAtPublisher(r)
    BY <2>1 DEF Arrive, GetDatabase, Query, LookAtPublisher
  <2>2. CASE CallPublisher(r)
    BY <2>2 DEF CallPublisher, Next
  <2>3. ASSUME NEW s \in Subscribers, Broadcast(r, s) PROVE [Next]_busVars
    BY <2>3 DEF Broadcast, Next, Deliver
  <2> QED BY <1>4, <2>1, <2>2, <2>3 DEF Work
<1>5. ASSUME NEW r \in Events, NEW s \in Subscribers, Handle(r, s) PROVE [Next]_busVars
  BY <1>5 DEF Handle, Next, Deliver
<1>6. CASE FlusherTicks
  BY <1>6 DEF FlusherTicks
<1>7. CASE Stop
  <2> USE DEF Next, Shutdown
  <2>1. CASE Signal \/ ShutdownServer \/ Exit
    BY <2>1 DEF Signal, ShutdownServer, Exit
  <2>2. CASE ShutdownPublisher
    BY <2>2 DEF ShutdownPublisher
  <2>3. CASE CloseFileSubscriber
    BY <2>3 DEF CloseFileSubscriber
  <2>4. CASE ShutdownService
    BY <2>4 DEF ShutdownService
  <2>5. ASSUME NEW d \in Databases, CloseDatabase(d) PROVE [Next]_busVars
    BY <2>5 DEF CloseDatabase
  <2> QED BY <1>7, <2>1, <2>2, <2>3, <2>4, <2>5 DEF Stop
<1> QED BY <1>1, <1>2, <1>3, <1>4, <1>5, <1>6, <1>7 DEF RuntimeNext

LEMMA BusInvStep == IInv /\ [RuntimeNext]_vars => IInv'
  BY BusStep, InvStep DEF vars, busVars

-----------------------------------------------------------------------------
(* The flow graphs.                                                        *)

\* A definition that waits for its turn; nothing is inferred under the ID of an
\* authentication graph.
Pending(d) ==
    /\ d.id \in DOMAIN configured /\ configured[d.id] \in Built(d)
    /\ d.type = "AUTHENTICATION" => d.id \notin DOMAIN graphs

\* What is to be shown of a definition that has had its turn.
Settled(d) ==
    /\ d.id \notin DOMAIN configured
    /\ d.id \in DOMAIN graphs => graphs[d.id] \in Built(d)
    /\ d.type = "REGISTRATION" => d.id \in DOMAIN graphs
    /\ d.type = "AUTHENTICATION" /\ Ends(d) => {d.id, RegistrationID[d.id]} \subseteq DOMAIN graphs

GraphsInv ==
    /\ phase = "starting" => DOMAIN graphs = {}
    /\ phase \notin {"starting", "fatal"} =>
        /\ \A id \in DOMAIN configured : \E d \in Definitions : d.id = id /\ Built(d) # {}
        /\ \A d \in Definitions : Built(d) # {} => Pending(d) \/ Settled(d)

\* A graph has the type of its definition, and an end if its definition has one.
LEMMA BuiltHolds ==
  ASSUME NEW d \in Definitions, NEW g \in Built(d)
  PROVE  /\ g.type = d.type /\ d.type \in {"AUTHENTICATION", "REGISTRATION"}
         /\ Ends(d) => Inferred(g) # {}
<1>1. Buildable(d)
  BY DEF Built
<1>2. d.type \in {"AUTHENTICATION", "REGISTRATION"}
  BY <1>1 DEF Buildable
<1> DEFINE IDs == {n.id : n \in ToSet(d.nodes)}
           Of(id) == CHOOSE n \in ToSet(d.nodes) : n.id = id
           N == [id \in IDs |-> Node(Of(id).type, ExecutorOf(Of(id)), Of(id).next,
                                       Of(id).next = <<>>, Of(id).condition)]
<1>3. PICK s : g = [type |-> d.type, nodes |-> N, start |-> s]
  BY <1>1 DEF Built
<1>4. ASSUME Ends(d) PROVE Inferred(g) # {}
  <2>1. PICK n \in ToSet(d.nodes) : n.next = <<>>
    BY <1>4 DEF Ends
  <2>2. Of(n.id) = n
    BY <2>1, DefinitionsAssumption
  <2>3. N[n.id].final /\ n.id \in DOMAIN N
    BY <2>1, <2>2 DEF Node
  <2>4. n.id \in {k \in DOMAIN g.nodes : g.nodes[k].final}
    BY <1>3, <2>3
  <2> QED BY <2>4 DEF Inferred
<1> QED BY <1>2, <1>3, <1>4

\* One turn of the loop settles a definition and unsettles none.
LEMMA RegisterGraphSettles ==
  ASSUME NEW id, RegisterGraph(id),
         \A i \in DOMAIN configured : \E d \in Definitions : d.id = i /\ Built(d) # {},
         \A d \in Definitions : Built(d) # {} => Pending(d) \/ Settled(d)
  PROVE  /\ \A i \in DOMAIN configured' : \E d \in Definitions : d.id = i /\ Built(d) # {}
         /\ \A d \in Definitions : Built(d) # {} => Pending(d)' \/ Settled(d)'
<1>1. configured' = [i \in DOMAIN configured \ {id} |-> configured[i]] /\ id \in DOMAIN configured
  BY DEF RegisterGraph
<1>2. \A i \in DOMAIN configured' : \E d \in Definitions : d.id = i /\ Built(d) # {}
  BY <1>1
<1>3. PICK turn \in Definitions : turn.id = id /\ Built(turn) # {}
  BY <1>1
<1>4. configured[id] \in Built(turn)
  BY <1>1, <1>3 DEF Pending, Settled
<1>44. turn.type = "AUTHENTICATION" => id \notin DOMAIN graphs
  BY <1>1, <1>3 DEF Pending, Settled
<1>5. /\ configured[id].type = turn.type /\ turn.type \in {"AUTHENTICATION", "REGISTRATION"}
      /\ Ends(turn) => Inferred(configured[id]) # {}
  BY <1>4, BuiltHolds
<1> DEFINE reg == RegistrationID[id]
<1>6. \/ graphs' = Put(graphs, id, configured[id])
         /\ (turn.type # "AUTHENTICATION" \/ reg \in DOMAIN graphs)
      \/ \E r : graphs' = Put(Put(graphs, id, configured[id]), reg, r)
               /\ turn.type = "AUTHENTICATION" /\ reg \notin DOMAIN graphs
      \/ graphs' = graphs /\ turn.type = "AUTHENTICATION" /\ ~Ends(turn)
  BY <1>5 DEF RegisterGraph
<1>7. turn.type = "AUTHENTICATION" => reg # id
  BY <1>3, DefinitionsAssumption
<1>8. Settled(turn)'
  <2>1. id \notin DOMAIN configured'
    BY <1>1
  <2>2. CASE graphs' = Put(graphs, id, configured[id])
             /\ (turn.type # "AUTHENTICATION" \/ reg \in DOMAIN graphs)
    <3>1. DOMAIN graphs' = DOMAIN graphs \cup {id} /\ graphs'[id] = configured[id]
      BY <2>2 DEF Put
    <3> QED BY <1>3, <1>4, <2>1, <2>2, <3>1 DEF Settled
  <2>3. CASE \E r : graphs' = Put(Put(graphs, id, configured[id]), reg, r)
                   /\ turn.type = "AUTHENTICATION" /\ reg \notin DOMAIN graphs
    BY <1>3, <1>4, <1>7, <2>1, <2>3 DEF Settled, Put
  <2>4. CASE graphs' = graphs /\ turn.type = "AUTHENTICATION" /\ ~Ends(turn)
    BY <1>3, <1>44, <2>1, <2>4 DEF Settled
  <2> QED BY <1>6, <2>2, <2>3, <2>4
<1>9. ASSUME NEW d \in Definitions, Built(d) # {}, d # turn PROVE Pending(d)' \/ Settled(d)'
  <2>1. d.id # id
    BY <1>3, <1>9, DefinitionsAssumption
  <2>2. CASE Pending(d)
    <3>1. d.type = "AUTHENTICATION" => d.id \notin DOMAIN graphs'
      BY <1>3, <1>6, <2>1, <2>2, DefinitionsAssumption DEF Pending, Put
    <3> QED BY <1>1, <2>1, <2>2, <3>1 DEF Pending
  <2>3. CASE Settled(d)
    <3>1. d.type \in {"AUTHENTICATION", "REGISTRATION"}
      BY <1>9, BuiltHolds
    <3>2. d.id \in DOMAIN graphs \/ turn.type # "AUTHENTICATION" \/ d.id # reg
      BY <1>3, <2>3, <3>1, DefinitionsAssumption DEF Settled
    <3>3. \/ graphs' = graphs \/ graphs' = Put(graphs, id, configured[id])
          \/ d.id # reg /\ \E r : graphs' = Put(Put(graphs, id, configured[id]), reg, r)
      <4>1. d.id = reg => turn.type # "AUTHENTICATION" \/ reg \in DOMAIN graphs
        BY <3>2
      <4> QED BY <1>6, <4>1
    <3>4. DOMAIN graphs \subseteq DOMAIN graphs'
      BY <3>3 DEF Put
    <3>5. d.id \in DOMAIN graphs' => d.id \in DOMAIN graphs /\ graphs'[d.id] = graphs[d.id]
      <4>1. CASE graphs' = graphs \/ graphs' = Put(graphs, id, configured[id])
        BY <2>1, <4>1 DEF Put
      <4>2. ASSUME NEW r, d.id # reg, graphs' = Put(Put(graphs, id, configured[id]), reg, r)
            PROVE  d.id \in DOMAIN graphs' => d.id \in DOMAIN graphs /\ graphs'[d.id] = graphs[d.id]
        BY <2>1, <4>2 DEF Put
      <4> QED BY <3>3, <4>1, <4>2
    <3> QED BY <1>1, <2>3, <3>4, <3>5 DEF Settled
  <2> QED BY <1>9, <2>2, <2>3
<1> QED BY <1>2, <1>8, <1>9

LEMMA GraphsStep == GraphsInv /\ [RuntimeNext]_vars => GraphsInv'
<1> SUFFICES ASSUME GraphsInv, [RuntimeNext]_vars PROVE GraphsInv'
  OBVIOUS
<1>1. ASSUME UNCHANGED graphVars,
             phase' = "fatal" \/ (phase # "fatal" /\ (phase' = "starting" <=> phase = "starting"))
      PROVE  GraphsInv'
  BY <1>1 DEF GraphsInv, graphVars, Pending, Settled
<1>2. CASE LoadGraphs
  <2>1. ReadGraphs /\ phase = "starting" /\ phase' # "starting"
    BY <1>2 DEF LoadGraphs
  <2> DEFINE read == {d \in Definitions : Built(d) # {}}
             Read(i) == CHOOSE d \in read : d.id = i
  <2>2. DOMAIN configured' = {d.id : d \in read}
        /\ \A i \in DOMAIN configured' : configured'[i] \in Built(Read(i))
    BY <2>1 DEF ReadGraphs
  <2>3. \A d \in read : Read(d.id) = d
    BY DefinitionsAssumption
  <2>4. DOMAIN graphs' = {}
    BY <2>1 DEF ReadGraphs, GraphsInv
  <2>5. \A d \in read : Pending(d)'
    BY <2>2, <2>3, <2>4 DEF Pending
  <2> QED BY <2>1, <2>2, <2>5 DEF GraphsInv
<1>3. ASSUME NEW id \in DOMAIN configured, LoadGraph(id) PROVE GraphsInv'
  <2>1. phase = "loading" /\ phase' = "loading" /\ RegisterGraph(id)
    BY <1>3 DEF LoadGraph, serverVars
  <2> QED BY <2>1, RegisterGraphSettles DEF GraphsInv
<1>4. CASE UNCHANGED vars
  BY <1>1, <1>4 DEF vars, graphVars, serverVars
<1> USE DEF partVars, configVars, graphVars, serverVars
<1>5. ASSUME NEW s \in Subscribers, InitSubscriber(s) \/ InitSubscriberFails(s) \/ Register(s)
      PROVE  GraphsInv'
  BY <1>1, <1>5 DEF InitSubscriber, InitSubscriberFails, Register
<1>6. CASE LoadResources \/ GraphsLoaded \/ Serve
  BY <1>1, <1>6 DEF LoadResources, GraphsLoaded, Serve
<1>7. ASSUME NEW r \in Requests, Work(r) PROVE GraphsInv'
  <2>1. UNCHANGED <<graphVars, phase>>
    BY <1>7 DEF Work, Arrive, GetDatabase, Query, LookAtPublisher, CallPublisher, Broadcast
  <2> QED BY <1>1, <2>1
<1>8. CASE FlusherTicks \/ \E r \in Events, s \in Subscribers : Handle(r, s)
  BY <1>1, <1>8 DEF FlusherTicks, Handle
<1>9. CASE Stop
  BY <1>1, <1>9 DEF Stop, Signal, ShutdownServer, ShutdownPublisher, CloseFileSubscriber,
     ShutdownService, CloseDatabase, Exit
<1> QED
  BY <1>2, <1>3, <1>4, <1>5, <1>6, <1>7, <1>8, <1>9 DEF RuntimeNext

-----------------------------------------------------------------------------
(* Where the graphs are from.                                              *)

\* A graph is that of a file, or was inferred from the one whose registration it is.
Origin(i) ==
    \/ \E d \in Definitions : d.id = i /\ graphs[i] \in Built(d)
    \/ \E d \in Definitions :
          /\ d.type = "AUTHENTICATION" /\ i = RegistrationID[d.id]
          /\ d.id \in DOMAIN graphs /\ graphs[d.id] \in Built(d)
          /\ graphs[i] \in Inferred(graphs[d.id])

GraphsTell == \A i \in DOMAIN graphs : Origin(i)

LEMMA RegisterGraphTells ==
  ASSUME NEW id, RegisterGraph(id), GraphsTell,
         \A i \in DOMAIN configured : \E d \in Definitions : d.id = i /\ Built(d) # {},
         \A d \in Definitions : Built(d) # {} => Pending(d) \/ Settled(d)
  PROVE  GraphsTell'
<1>1. id \in DOMAIN configured
  BY DEF RegisterGraph
<1>2. PICK turn \in Definitions : turn.id = id /\ Built(turn) # {}
  BY <1>1
<1>3. /\ configured[id] \in Built(turn)
      /\ turn.type = "AUTHENTICATION" => id \notin DOMAIN graphs
  BY <1>1, <1>2 DEF Pending, Settled
<1>4. configured[id].type = turn.type
  BY <1>3, BuiltHolds
<1> DEFINE g == configured[id]
           reg == RegistrationID[id]
\* Graphs that stay are still of the origin that they were of, whose graph is not replaced.
<1>5. ASSUME NEW i \in DOMAIN graphs, i # id, Origin(i),
             \A j \in DOMAIN graphs : j # id => j \in DOMAIN graphs' /\ graphs'[j] = graphs[j]
      PROVE  Origin(i)'
  <2>1. graphs'[i] = graphs[i]
    BY <1>5
  <2>2. CASE \E d \in Definitions : d.id = i /\ graphs[i] \in Built(d)
    BY <2>1, <2>2 DEF Origin
  <2>3. ASSUME NEW d \in Definitions, d.type = "AUTHENTICATION", i = RegistrationID[d.id],
               d.id \in DOMAIN graphs, graphs[d.id] \in Built(d), graphs[i] \in Inferred(graphs[d.id])
        PROVE  Origin(i)'
    <3>1. d.id # id
      BY <1>2, <1>3, <2>3, DefinitionsAssumption
    <3>2. d.id \in DOMAIN graphs' /\ graphs'[d.id] = graphs[d.id]
      BY <1>5, <2>3, <3>1
    <3> QED BY <2>1, <2>3, <3>2 DEF Origin
  <2> QED BY <1>5, <2>2, <2>3 DEF Origin
<1>6. CASE graphs' = Put(graphs, id, g)
  <2>1. /\ DOMAIN graphs' = DOMAIN graphs \cup {id} /\ graphs'[id] = g
        /\ \A j \in DOMAIN graphs : j # id => j \in DOMAIN graphs' /\ graphs'[j] = graphs[j]
    BY <1>6 DEF Put
  <2>2. Origin(id)'
    BY <1>2, <1>3, <2>1 DEF Origin
  <2> QED BY <1>5, <2>1, <2>2 DEF GraphsTell
<1>7. ASSUME NEW r \in Inferred(g), graphs' = Put(Put(graphs, id, g), reg, r),
             turn.type = "AUTHENTICATION", reg \notin DOMAIN graphs
      PROVE  GraphsTell'
  <2>1. reg # id
    BY <1>2, <1>7, DefinitionsAssumption
  <2>2. /\ DOMAIN graphs' = DOMAIN graphs \cup {id, reg}
        /\ graphs'[id] = g /\ graphs'[reg] = r
        /\ \A j \in DOMAIN graphs : j # id => j \in DOMAIN graphs' /\ graphs'[j] = graphs[j]
    BY <1>7, <2>1 DEF Put
  <2>3. Origin(id)'
    BY <1>2, <1>3, <2>2 DEF Origin
  <2>4. Origin(reg)'
    BY <1>2, <1>3, <1>7, <2>2 DEF Origin
  <2> QED BY <1>5, <2>2, <2>3, <2>4 DEF GraphsTell
<1>8. CASE graphs' = graphs
  <2>1. configured' = [i \in DOMAIN configured \ {id} |-> configured[i]]
    BY DEF RegisterGraph
  <2> QED BY <1>8 DEF GraphsTell, Origin
<1>9. \/ graphs' = Put(graphs, id, g) \/ graphs' = graphs
      \/ /\ \E r \in Inferred(g) : graphs' = Put(Put(graphs, id, g), reg, r)
         /\ turn.type = "AUTHENTICATION" /\ reg \notin DOMAIN graphs
  BY <1>4 DEF RegisterGraph
<1> QED BY <1>6, <1>7, <1>8, <1>9

LEMMA GraphsTellStep == GraphsInv /\ GraphsTell /\ [RuntimeNext]_vars => GraphsTell'
<1> SUFFICES ASSUME GraphsInv, GraphsTell, [RuntimeNext]_vars PROVE GraphsTell'
  OBVIOUS
<1>1. ASSUME graphs' = graphs PROVE GraphsTell'
  BY <1>1 DEF GraphsTell, Origin
<1>2. ASSUME NEW id \in DOMAIN configured, LoadGraph(id) PROVE GraphsTell'
  <2>1. phase = "loading" /\ RegisterGraph(id)
    BY <1>2 DEF LoadGraph
  <2> QED BY <2>1, RegisterGraphTells DEF GraphsInv
<1>3. CASE UNCHANGED vars
  BY <1>1, <1>3 DEF vars, graphVars
<1> USE DEF partVars, configVars, graphVars, serverVars
<1>4. CASE LoadGraphs
  BY <1>1, <1>4 DEF LoadGraphs, ReadGraphs
<1>5. ASSUME NEW s \in Subscribers, InitSubscriber(s) \/ InitSubscriberFails(s) \/ Register(s)
      PROVE  GraphsTell'
  BY <1>1, <1>5 DEF InitSubscriber, InitSubscriberFails, Register
<1>6. CASE LoadResources \/ GraphsLoaded \/ Serve
  BY <1>1, <1>6 DEF LoadResources, GraphsLoaded, Serve
<1>7. ASSUME NEW r \in Requests, Work(r) PROVE GraphsTell'
  <2>1. UNCHANGED graphVars
    BY <1>7 DEF Work, Arrive, GetDatabase, Query, LookAtPublisher, CallPublisher, Broadcast
  <2> QED BY <1>1, <2>1
<1>8. CASE FlusherTicks \/ \E r \in Events, s \in Subscribers : Handle(r, s)
  BY <1>1, <1>8 DEF FlusherTicks, Handle
<1>9. CASE Stop
  BY <1>1, <1>9 DEF Stop, Signal, ShutdownServer, ShutdownPublisher, CloseFileSubscriber,
     ShutdownService, CloseDatabase, Exit
<1> QED
  BY <1>2, <1>3, <1>4, <1>5, <1>6, <1>7, <1>8, <1>9 DEF RuntimeNext

\* What is inferred from a plain graph leads past its end only through the provisioning.
LEMMA InferredProvisions ==
  ASSUME GraphsInv, GraphsTell, phase = "loading"
  PROVE  RegistrationsProvision
<1> SUFFICES ASSUME NEW id \in DOMAIN graphs \cap DOMAIN RegistrationID,
                    NEW a, a = graphs[id], NEW r, r = graphs[RegistrationID[id]],
                    a.type = "AUTHENTICATION", Plain(a), r \notin FromFiles,
                    NEW end, end = CHOOSE n \in FinalNodes(a) : TRUE
             PROVE  /\ OnlyDecisionsChoose(a) =>
                         Reached(r, {}) = Reached(a, {}) \cup {"registration_start"} \cup
                                   (IF end \in Reached(a, {}) THEN {"provisioning"} ELSE {})
                    /\ end \notin Reached(r, {"provisioning"})
                    /\ \A n \in DOMAIN a.nodes : r.nodes[n].executor = a.nodes[n].executor
  BY DEF RegistrationsProvision
<1>1. \A g : \A q \in Inferred(g) : q.type = "REGISTRATION"
  <2>1. ASSUME NEW g, NEW f PROVE RegistrationGraph(g, f).type = "REGISTRATION"
    <3>1. \E N : RegistrationGraph(g, f) =
                   [type |-> "REGISTRATION", nodes |-> N, start |-> "registration_start"]
      BY Zenon DEF RegistrationGraph
    <3> QED BY <3>1
  <2> QED BY <2>1 DEF Inferred
<1>2. PICK d \in Definitions : d.id = id /\ a \in Built(d)
  BY <1>1 DEF GraphsTell, Origin
<1>3. d.type = "AUTHENTICATION" /\ Formed(a) /\ (FinalNodes(a) # {} => Ends(d))
  BY <1>2, BuiltHolds, BuiltFormed
<1>4. end \in DOMAIN a.nodes /\ FinalNodes(a) = {end} /\ a.start # end
  BY DEF Plain
<1>5. RegistrationID[id] \in DOMAIN graphs
  BY <1>2, <1>3, <1>4 DEF GraphsInv, Pending, Settled
<1>6. r \in Inferred(a)
  <2>1. Origin(RegistrationID[id])
    BY <1>5 DEF GraphsTell
  <2>2. ~\E e \in Definitions : r \in Built(e)
    BY DEF FromFiles
  <2>3. PICK e \in Definitions :
          /\ e.type = "AUTHENTICATION" /\ RegistrationID[id] = RegistrationID[e.id]
          /\ r \in Inferred(graphs[e.id])
    BY <2>1, <2>2 DEF Origin
  <2>4. e = d
    BY <1>2, <1>3, <2>3, DefinitionsAssumption
  <2> QED BY <1>2, <2>3, <2>4
<1>7. r = RegistrationGraph(a, end)
  BY <1>4, <1>6 DEF Inferred, FinalNodes
<1>8. DOMAIN a.nodes \cap {"provisioning", "registration_start"} = {}
  BY DEF Plain
<1>9. OnlyDecisionsChoose(a) =>
         Reached(r, {}) = Reached(a, {}) \cup {"registration_start"} \cup
                         (IF end \in Reached(a, {}) THEN {"provisioning"} ELSE {})
  BY <1>3, <1>4, <1>7, <1>8, SameNodes
<1>10. end \notin Reached(r, {"provisioning"})
  BY <1>3, <1>4, <1>7, <1>8, NoWayPast
<1>11. \A n \in DOMAIN a.nodes : r.nodes[n].executor = a.nodes[n].executor
  BY <1>3, <1>4, <1>7, <1>8, InferredNodes
<1> QED BY <1>9, <1>10, <1>11

-----------------------------------------------------------------------------
(* The files.                                                              *)

KindsAfter(kind) ==
    CASE kind = "schema" -> <<"idp", "sender", "application">>
      [] kind = "idp" -> <<"sender", "application">>
      [] kind = "sender" -> <<"application">>
      [] kind = "application" -> <<>>

\* The kinds are loaded one after the other; applications come last, when the graphs are
\* complete and the user types are all there.
FilesInv ==
    /\ kindsLeft \in {Kinds} \cup {KindsAfter(k) : k \in {"schema", "idp", "sender", "application"}}
    /\ \A f \in files : "kind" \in DOMAIN f
    /\ \A f \in toLoad : f \in files /\ kindsLeft = KindsAfter(f.kind)
                           /\ f.kind \in {"schema", "idp", "sender", "application"}
    /\ kindsLeft # <<>> => Stored("application") = {}
    /\ kindsLeft = <<>> => phase \notin {"starting", "loading"}
    /\ phase \notin {"starting", "loading", "fatal"} => DefaultFlow \in DOMAIN graphs
    /\ LoadedHolds

LEMMA ParsedKind ==
  ASSUME NEW f, "kind" \in DOMAIN f
  PROVE  Parsed(f).kind = f.kind
  BY DEF Parsed

LEMMA ExportKind ==
  ASSUME NEW r, "kind" \in DOMAIN r
  PROVE  "kind" \in DOMAIN Export(r)
  BY DEF Export

LEMMA FilesInitInv == RuntimeInit => FilesInv
<1> SUFFICES ASSUME RuntimeInit PROVE FilesInv
  OBVIOUS
<1>1. /\ kindsLeft = Kinds /\ toLoad = {} /\ loaded = << >> /\ phase = "starting"
  BY DEF RuntimeInit, FilesInit
<1>2. ASSUME NEW f \in files PROVE "kind" \in DOMAIN f
  <2>1. PICK kept \in Saved({Export(r) : r \in Requested(deployment)}) :
           files = kept \cup deployment.written
    BY DEF RuntimeInit, FilesInit
  <2>2. deployment \in Deployments
    BY DEF RuntimeInit, FilesInit
  <2>3. CASE f \in deployment.written
    BY <2>2, <2>3, ResourcesAssumption
  <2>4. ASSUME NEW r \in Requested(deployment), f = Export(r) PROVE "kind" \in DOMAIN f
    <3>1. r \in deployment.database
      BY DEF Requested
    <3> QED BY <2>2, <2>4, <3>1, ExportKind, ResourcesAssumption
  <2>5. kept \subseteq {Export(r) : r \in Requested(deployment)}
    BY DEF Saved
  <2> QED BY <2>1, <2>3, <2>4, <2>5
<1>3. \A kind : Stored(kind) = {}
  BY <1>1 DEF Stored
<1>4. kindsLeft # <<>>
  BY <1>1 DEF Kinds
<1> QED BY <1>1, <1>2, <1>3, <1>4 DEF FilesInv, LoadedHolds

\* An application that is stored has passed ValidateApplication.
LEMMA LoadFileKeeps ==
  ASSUME FilesInv, DefaultFlow \in DOMAIN graphs \/ kindsLeft # <<>>,
         NEW f \in toLoad, LoadFile(f), UNCHANGED graphs
  PROVE  LoadedHolds' /\ (kindsLeft # <<>> => Stored("application")' = {})
<1> DEFINE r == Parsed(f)
<1>1. r.kind = f.kind
  BY ParsedKind DEF FilesInv
<1>2. CASE ~Valid(r)
  BY <1>2 DEF LoadFile, FilesInv, LoadedHolds, Stored
<1>3. CASE Valid(r)
  <2>1. loaded' = Put(loaded, <<r.kind, r.id>>, r)
    BY <1>3 DEF LoadFile
  <2>2. ASSUME NEW kind, kind # r.kind PROVE Stored(kind)' = Stored(kind)
    <3> DEFINE key == <<r.kind, r.id>>
    <3>1. key[1] # kind
      BY <2>2
    <3>2. DOMAIN loaded' = DOMAIN loaded \cup {key}
          /\ \A k \in DOMAIN loaded : k # key => loaded'[k] = loaded[k]
      BY <2>1 DEF Put
    <3> HIDE DEF key
    <3>3. {k \in DOMAIN loaded' : k[1] = kind} = {k \in DOMAIN loaded : k[1] = kind}
      BY <3>1, <3>2
    <3> QED BY <3>1, <3>2, <3>3 DEF Stored
  <2>3. CASE f.kind # "application"
    <3>1. kindsLeft # <<>>
      BY <2>3 DEF FilesInv, KindsAfter
    <3>2. Stored("application")' = {}
      BY <1>1, <2>2, <2>3, <3>1 DEF FilesInv
    <3> QED BY <3>2 DEF LoadedHolds
  <2>4. CASE f.kind = "application"
    <3>1. kindsLeft = <<>>
      BY <2>4 DEF FilesInv, KindsAfter
    <3>2. Stored("application")' \subseteq Stored("application") \cup {r}
      BY <2>1 DEF Stored, Put
    <3>3. Stored("schema")' = Stored("schema")
      BY <1>1, <2>2, <2>4
    <3>4. ValidApplication(r)
      BY <1>1, <1>3, <2>4 DEF Valid
    <3>5. r.flow \in DOMAIN graphs
      BY <3>1, <3>4 DEF ValidApplication
    <3>6. LoadedHolds
      BY DEF FilesInv
    <3>7. ASSUME NEW a \in Stored("application")'
          PROVE  a.types \subseteq {s.name : s \in Stored("schema")'} /\ a.flow \in DOMAIN graphs'
      BY <3>2, <3>3, <3>4, <3>5, <3>6 DEF LoadedHolds, ValidApplication
    <3>8. ASSUME NEW a \in Stored("application")', NEW b \in Stored("application")', a # b
          PROVE  /\ a.name # b.name
                 /\ a.client # Absent /\ b.client # Absent => a.client.id # b.client.id
      BY <3>2, <3>4, <3>6, <3>8 DEF LoadedHolds, ValidApplication
    <3> QED BY <3>1, <3>7, <3>8 DEF LoadedHolds
  <2> QED BY <2>3, <2>4
<1> QED BY <1>2, <1>3

LEMMA FilesStep == FilesInv /\ [RuntimeNext]_vars => FilesInv'
<1> SUFFICES ASSUME FilesInv, [RuntimeNext]_vars PROVE FilesInv'
  OBVIOUS
<1> DEFINE Early == {"starting", "loading", "fatal"}
<1>1. ASSUME UNCHANGED <<graphs, fileVars>>,
             phase' = phase \/ phase' = "fatal" \/ (phase \notin Early /\ phase' \notin Early)
      PROVE  FilesInv'
  BY <1>1 DEF FilesInv, LoadedHolds, Stored, fileVars
<1>2. CASE LoadResources
  <2>1. /\ phase \in {"starting", "loaded"} /\ phase' \in {phase, "fatal"}
        /\ UNCHANGED <<graphs, files>>
    BY <1>2 DEF LoadResources, ReadDirectory, LoadFile, graphVars
  <2>2. CASE ReadDirectory /\ (kindsLeft = <<"application">> => phase = "loaded")
    <3>1. /\ kindsLeft # <<>> /\ kindsLeft' = Tail(kindsLeft) /\ UNCHANGED loaded
          /\ toLoad' \subseteq {f \in files : f.kind = Head(kindsLeft)}
      BY <2>2 DEF ReadDirectory
    <3>2. PICK k \in {"schema", "idp", "sender", "application"} :
             Head(kindsLeft) = k /\ Tail(kindsLeft) = KindsAfter(k)
             /\ (k = "application" <=> kindsLeft = <<"application">>)
      <4>1. CASE kindsLeft = Kinds
        BY <4>1 DEF KindsAfter, Kinds
      <4>2. CASE kindsLeft = <<"idp", "sender", "application">>
        BY <4>2 DEF KindsAfter
      <4>3. CASE kindsLeft = <<"sender", "application">>
        BY <4>3 DEF KindsAfter
      <4>4. CASE kindsLeft = <<"application">>
        BY <4>4 DEF KindsAfter
      <4> QED BY <3>1, <4>1, <4>2, <4>3, <4>4 DEF FilesInv, KindsAfter
    <3>3. kindsLeft' = <<>> => phase = "loaded"
      BY <2>2, <3>1, <3>2 DEF KindsAfter
    <3>4. Stored("application")' = {}
      BY <3>1 DEF FilesInv, Stored
    <3> QED BY <2>1, <3>1, <3>2, <3>3, <3>4 DEF FilesInv, LoadedHolds
  <2>3. ASSUME NEW f \in toLoad, LoadFile(f) PROVE FilesInv'
    <3>1. DefaultFlow \in DOMAIN graphs \/ kindsLeft # <<>>
      BY <2>1 DEF FilesInv
    <3>2. toLoad' \subseteq toLoad /\ UNCHANGED kindsLeft
      BY <2>3 DEF LoadFile
    <3>3. LoadedHolds' /\ (kindsLeft # <<>> => Stored("application")' = {})
      BY <2>1, <2>3, <3>1, LoadFileKeeps
    <3> QED BY <2>1, <3>2, <3>3 DEF FilesInv
  <2> QED BY <1>2, <2>2, <2>3 DEF LoadResources
<1>3. CASE LoadGraphs
  <2>1. kindsLeft # <<>> /\ phase' = "loading" /\ UNCHANGED <<graphs, fileVars>>
    BY <1>3 DEF LoadGraphs, ReadGraphs
  <2> QED BY <2>1 DEF FilesInv, LoadedHolds, Stored, fileVars
<1>4. ASSUME NEW id \in DOMAIN configured, LoadGraph(id) PROVE FilesInv'
  <2>1. phase = "loading" /\ phase' = "loading" /\ UNCHANGED fileVars
    BY <1>4 DEF LoadGraph, serverVars
  <2>2. kindsLeft # <<>> /\ Stored("application")' = {}
    BY <2>1 DEF FilesInv, Stored, fileVars
  <2> QED BY <2>1, <2>2 DEF FilesInv, LoadedHolds, fileVars
<1> USE DEF partVars, configVars, graphVars, serverVars
<1>5. CASE GraphsLoaded
  <2>1. /\ phase = "loading" /\ UNCHANGED <<graphs, fileVars>>
        /\ phase' = IF DefaultFlow \in DOMAIN graphs THEN "loaded" ELSE "fatal"
    BY <1>5 DEF GraphsLoaded
  <2> QED BY <2>1 DEF FilesInv, LoadedHolds, Stored, fileVars
<1>6. CASE UNCHANGED vars
  BY <1>1, <1>6 DEF vars
<1>7. ASSUME NEW s \in Subscribers, InitSubscriber(s) \/ InitSubscriberFails(s) \/ Register(s)
      PROVE  FilesInv'
  BY <1>1, <1>7 DEF InitSubscriber, InitSubscriberFails, Register
<1>8. CASE Serve
  BY <1>1, <1>8 DEF Serve
<1>9. ASSUME NEW r \in Requests, Work(r) PROVE FilesInv'
  <2>1. UNCHANGED <<graphs, fileVars, phase>>
    BY <1>9 DEF Work, Arrive, GetDatabase, Query, LookAtPublisher, CallPublisher, Broadcast
  <2> QED BY <1>1, <2>1
<1>10. CASE FlusherTicks \/ \E r \in Events, s \in Subscribers : Handle(r, s)
  BY <1>1, <1>10 DEF FlusherTicks, Handle
<1>11. CASE Stop
  <2>1. UNCHANGED <<graphs, fileVars>> /\ phase \notin Early /\ phase' \notin Early
    BY <1>11 DEF Stop, Signal, ShutdownServer, ShutdownPublisher, CloseFileSubscriber,
       ShutdownService, CloseDatabase, Exit
  <2> QED BY <1>1, <2>1
<1> QED
  BY <1>2, <1>3, <1>4, <1>5, <1>6, <1>7, <1>8, <1>9, <1>10, <1>11 DEF RuntimeNext

-----------------------------------------------------------------------------
(* The files: what was exported comes back.                                *)

\* Files of the directories that were read, but for those that wait to be loaded.
Done == {f \in files \ toLoad : \A i \in DOMAIN kindsLeft : kindsLeft[i] # f.kind}
Key(r) == <<r.kind, r.id>>

FilesStay ==
    /\ deployment \in Deployments
    /\ \E kept \in Saved({Export(r) : r \in Requested(deployment)}) :
          files = kept \cup deployment.written
    /\ environ = Environment(deployment)

\* Each entity is what a file says, each file that is done has its ID in the store, and
\* none was refused if what the files refer to is there.
LoadInv ==
    /\ FilesStay
    /\ \A k \in DOMAIN loaded : \E g \in Done : k = Key(Parsed(g)) /\ loaded[k] = Parsed(g)
    /\ ~refused => \A g \in Done : Key(Parsed(g)) \in DOMAIN loaded
    /\ refused => phase = "fatal"
    /\ Separate /\ Supported => ~refused

LEMMA FileTells ==
  ASSUME FilesStay, NEW f \in files
  PROVE  /\ "kind" \in DOMAIN f /\ f.kind \in {"schema", "idp", "sender", "application"}
         /\ f \in deployment.written \/ \E r \in Requested(deployment) : f = Export(r)
<1>1. f \in deployment.written \/ \E r \in Requested(deployment) : f = Export(r)
  BY DEF FilesStay, Saved
<1>2. deployment \in Deployments /\ ToSet(Kinds) = {"schema", "idp", "sender", "application"}
  BY DEF FilesStay, ToSet, Kinds
<1>3. CASE f \in deployment.written
  BY <1>1, <1>2, <1>3, ResourcesAssumption
<1>4. ASSUME NEW r \in Requested(deployment), f = Export(r)
      PROVE  "kind" \in DOMAIN f /\ f.kind \in {"schema", "idp", "sender", "application"}
  <2>1. r \in deployment.database
    BY DEF Requested
  <2>2. "kind" \in DOMAIN r /\ r.kind \in {"schema", "idp", "sender", "application"}
    BY <1>2, <2>1, SoundResource
  <2> QED BY <1>2, <1>4, <2>1, <2>2, ExportKind, ValuesTell
<1> QED BY <1>1, <1>3, <1>4

\* Of a kind that is separate and supported: a user type made by hand, or what was
\* exported.
LEMMA FileSays ==
  ASSUME FilesStay, Separate, Supported, NEW f \in files
  PROVE  \/ /\ f \in deployment.written /\ f.kind = "schema" /\ Parsed(f) = f
            /\ Readable(f) /\ Valid(f)
         \/ \E r \in Loadable : /\ f = Export(r) /\ Parsed(f) = Kept(r) /\ Readable(f)
                                /\ f.kind = r.kind
<1>1. CASE f \in deployment.written
  <2>1. /\ f.kind = "schema" /\ f.definition # "bytes"
        /\ f.ou \in SchemaOUs /\ f.id # "" /\ f.name # <<>>
    BY <1>1 DEF Supported
  <2>2. Parsed(f) = f
    BY <2>1 DEF Parsed
  <2>3. Readable(f)
    BY <2>1 DEF Readable, Variables, Ranges
  <2>4. Valid(f)
    BY <2>1 DEF Valid
  <2> QED BY <1>1, <2>1, <2>2, <2>3, <2>4
<1>2. ASSUME NEW r \in Requested(deployment), f = Export(r)
      PROVE  r \in Loadable /\ Parsed(f) = Kept(r) /\ Readable(f) /\ f.kind = r.kind
  <2>1. r \in Loadable
    BY DEF Supported
  <2>2. r \in deployment.database
    BY DEF Requested
  <2> QED BY <1>2, <2>1, <2>2, ReadBack, ValuesTell DEF FilesStay
<1> QED BY <1>1, <1>2, FileTells

LEMMA KeptTells ==
  ASSUME deployment \in Deployments, NEW r \in Loadable
  PROVE  /\ Kept(r).kind = r.kind /\ Kept(r).id = r.id /\ Kept(r).name = r.name
         /\ r.kind \in {"idp", "sender"} => Kept(r) = r
         /\ r.kind = "application" =>
               /\ Kept(r).client = r.client /\ Kept(r).flow = r.flow /\ Kept(r).types = r.types
         /\ r.id # "" /\ r.name # <<>> /\ r.kind \in {"idp", "sender", "application"}
<1>1. r \in deployment.database /\ r.kind # "schema" /\ r.name # <<>>
  BY DEF Loadable, Requested
<1>2. /\ {"kind", "id", "name"} \subseteq DOMAIN r /\ r.id # ""
      /\ r.kind \in {"schema", "idp", "sender", "application"}
  BY <1>1, SoundResource
<1>3. r.kind = "application" => {"client", "types", "flow", "branding"} \subseteq DOMAIN r
  BY <1>1, SoundResource DEF Sound
<1> QED BY <1>1, <1>2, <1>3 DEF Kept

\* What is supported passes the validation.
LEMMA FileLoads ==
  ASSUME FilesInv, LoadInv, Separate, Supported, NEW f \in toLoad
  PROVE  Valid(Parsed(f))
<1>1. f \in files /\ kindsLeft = KindsAfter(f.kind) /\ FilesStay /\ ~refused
  BY DEF FilesInv, LoadInv
<1>2. deployment \in Deployments
  BY <1>1 DEF FilesStay
<1>3. ASSUME NEW r \in Loadable, f = Export(r), Parsed(f) = Kept(r), f.kind = r.kind
      PROVE  Valid(Kept(r))
  <2>1. r \in deployment.database
    BY DEF Loadable, Requested
  <2>2. Sound(r)
    BY <1>2, <2>1, SoundResource
  <2>3. CASE r.kind \in {"idp", "sender"}
    <3>1. Kept(r) = r /\ r.id # "" /\ r.name # <<>>
      BY <1>2, <2>3, KeptTells
    <3>2. r.kind = "idp" => RequiredProps \subseteq DOMAIN r.props
                            /\ \A p \in DOMAIN r.props : r.props[p].value # ""
      BY <2>2 DEF Sound, SoundProps
    <3> QED BY <2>3, <3>1, <3>2 DEF Valid
  <2>4. CASE r.kind = "application"
    <3> DEFINE k == Kept(r)
    <3>1. /\ k.kind = r.kind /\ k.name = r.name /\ k.id # "" /\ k.name # <<>>
          /\ k.client = r.client /\ k.flow = r.flow /\ k.types = r.types
      BY <1>2, <2>4, KeptTells
    <3> HIDE DEF k
    <3>2. kindsLeft = <<>>
      BY <1>1, <1>3, <2>4 DEF KindsAfter
    <3>3. ASSUME NEW a \in Stored("application")
          PROVE  /\ a.name # r.name
                 /\ a.client # Absent /\ r.client # Absent => a.client.id # r.client.id
      <4>1. PICK g \in Done : a = Parsed(g) /\ Key(Parsed(g))[1] = "application"
        BY DEF Stored, LoadInv
      <4>2. g \in files /\ g \notin toLoad
        BY DEF Done
      <4>3. g.kind = "application"
        <5>1. "kind" \in DOMAIN g
          BY <4>2 DEF FilesInv
        <5> QED BY <4>1, <5>1, ParsedKind DEF Key
      <4>4. PICK s \in Loadable : g = Export(s) /\ Parsed(g) = Kept(s) /\ g.kind = s.kind
        BY <1>1, <4>2, <4>3, FileSays
      <4>5. s # r /\ s.kind = "application" /\ s \in deployment.database
        BY <1>3, <4>2, <4>3, <4>4 DEF Loadable, Requested
      <4>6. a.name = s.name /\ a.client = s.client
        BY <1>2, <4>1, <4>4, <4>5, KeptTells
      <4>7. s.name # r.name
        <5>1. SavedAs(Export(r)) # SavedAs(Export(s))
          BY <4>5 DEF Separate
        <5>2. /\ Export(r).kind = r.kind /\ Export(r).name = r.name
              /\ Export(s).kind = s.kind /\ Export(s).name = s.name
          BY <1>2, <2>1, <4>5, ValuesTell
        <5> QED BY <2>4, <4>5, <5>1, <5>2 DEF SavedAs
      <4>8. s.client # Absent /\ r.client # Absent => s.client.id # r.client.id
        BY <1>2, <2>1, <2>4, <4>5, ResourcesAssumption
      <4> QED BY <4>6, <4>7, <4>8
    <3>4. r.client # Absent => r.client.uris # <<>> /\ (r.client.public => r.client.secret = "")
      BY <2>2, <2>4 DEF Sound, SoundClient
    <3>5. r.flow \in DOMAIN graphs
      BY <2>4, <3>2 DEF Supported
    <3>6. ASSUME NEW t \in deployment.written PROVE t \in Stored("schema")
      <4>1. t \in files /\ t.kind = "schema"
        BY <1>1 DEF FilesStay, Supported
      <4>2. t \notin toLoad
        BY <3>2, <4>1 DEF FilesInv, KindsAfter
      <4>3. t \in Done
        BY <3>2, <4>1, <4>2 DEF Done
      <4>4. Parsed(t) = t
        BY <4>1 DEF Parsed
      <4>5. Key(t) \in DOMAIN loaded
        BY <1>1, <4>3, <4>4 DEF LoadInv
      <4>6. PICK g \in Done : Key(t) = Key(Parsed(g)) /\ loaded[Key(t)] = Parsed(g)
        BY <4>5 DEF LoadInv
      <4>7. g \in files
        BY DEF Done
      <4>8. g \in deployment.written /\ Parsed(g) = g
        <5>1. ASSUME NEW s \in Loadable, Parsed(g) = Kept(s) PROVE FALSE
          <6>1. Parsed(g).kind = "schema"
            BY <4>1, <4>4, <4>6 DEF Key
          <6> QED BY <1>2, <5>1, <6>1, KeptTells
        <5> QED BY <1>1, <4>7, <5>1, FileSays
      <4>9. g = t
        BY <4>6, <4>8 DEF Key, Supported
      <4> QED BY <4>1, <4>4, <4>5, <4>6, <4>9 DEF Stored, Key
    <3>7. r.types \subseteq {s.name : s \in Stored("schema")}
      <4>1. r.types \subseteq {t.name : t \in deployment.written}
        BY <2>4 DEF Supported
      <4> QED BY <3>6, <4>1
    <3>8. ValidApplication(k)
      BY <3>1, <3>3, <3>4, <3>5, <3>7 DEF ValidApplication
    <3> QED BY <2>4, <3>1, <3>8 DEF Valid, k
  <2> QED BY <1>2, <2>3, <2>4, KeptTells
<1> QED BY <1>1, <1>3, FileSays

\* The steps of the server that files are read or loaded in, or a graph is registered;
\* no other one disturbs the files.
LEMMA OtherSteps ==
  [RuntimeNext]_vars =>
      \/ LoadResources
      \/ phase = "loading" /\ UNCHANGED <<fileVars, phase>>
      \/ UNCHANGED <<graphs, fileVars>> /\ (phase = "fatal" => phase' = "fatal")
<1> SUFFICES ASSUME [RuntimeNext]_vars, ~LoadResources
             PROVE  \/ phase = "loading" /\ UNCHANGED <<fileVars, phase>>
                    \/ UNCHANGED <<graphs, fileVars>> /\ (phase = "fatal" => phase' = "fatal")
  OBVIOUS
<1> USE DEF partVars, configVars, graphVars, serverVars
<1>1. CASE UNCHANGED vars
  BY <1>1 DEF vars
<1>2. ASSUME NEW s \in Subscribers, InitSubscriber(s) \/ InitSubscriberFails(s) \/ Register(s)
      PROVE  UNCHANGED <<graphs, fileVars, phase>>
  BY <1>2 DEF InitSubscriber, InitSubscriberFails, Register
<1>3. CASE LoadGraphs \/ GraphsLoaded \/ Serve
  BY <1>3 DEF LoadGraphs, ReadGraphs, GraphsLoaded, Serve
<1>4. ASSUME NEW id \in DOMAIN configured, LoadGraph(id)
      PROVE  phase = "loading" /\ UNCHANGED <<fileVars, phase>>
  BY <1>4 DEF LoadGraph
<1>5. ASSUME NEW r \in Requests, Work(r) PROVE UNCHANGED <<graphs, fileVars, phase>>
  BY <1>5 DEF Work, Arrive, GetDatabase, Query, LookAtPublisher, CallPublisher, Broadcast
<1>6. CASE FlusherTicks \/ \E r \in Events, s \in Subscribers : Handle(r, s)
  BY <1>6 DEF FlusherTicks, Handle
<1>7. CASE Stop
  BY <1>7 DEF Stop, Signal, ShutdownServer, ShutdownPublisher, CloseFileSubscriber,
     ShutdownService, CloseDatabase, Exit
<1> QED BY <1>1, <1>2, <1>3, <1>4, <1>5, <1>6, <1>7 DEF RuntimeNext

\* Where the graphs and the files stay, what is said of them stays.
LEMMA SameFiles ==
  ASSUME UNCHANGED <<deployment, files, environ>>
  PROVE  /\ FilesStay' = FilesStay /\ Separate' = Separate
         /\ UNCHANGED <<kindsLeft, graphs>> => Supported' = Supported
         /\ \A f : Parsed(f)' = Parsed(f)
<1>1. FilesStay' = FilesStay
  BY DEF FilesStay
<1>2. Separate' = Separate /\ (UNCHANGED <<kindsLeft, graphs>> => Supported' = Supported)
  BY DEF Separate, Supported, Loadable
<1>3. \A f : Parsed(f)' = Parsed(f)
  BY DEF Parsed, Elements, Value
<1> QED BY <1>1, <1>2, <1>3

LEMMA LoadInvInit == RuntimeInit => LoadInv
<1> SUFFICES ASSUME RuntimeInit PROVE LoadInv
  OBVIOUS
<1>1. FilesStay /\ kindsLeft = Kinds /\ loaded = << >> /\ ~refused
  BY DEF RuntimeInit, FilesInit, FilesStay
<1>2. Done = {}
  <2>1. ASSUME NEW f \in files PROVE \E i \in DOMAIN Kinds : Kinds[i] = f.kind
    BY <1>1, FileTells DEF Kinds
  <2> QED BY <1>1, <2>1 DEF Done
<1> QED BY <1>1, <1>2 DEF LoadInv

LEMMA LoadInvStep == FilesInv /\ LoadInv /\ [RuntimeNext]_vars => LoadInv'
<1> SUFFICES ASSUME FilesInv, LoadInv, [RuntimeNext]_vars PROVE LoadInv'
  OBVIOUS
<1>1. CASE UNCHANGED <<graphs, fileVars>> /\ (phase = "fatal" => phase' = "fatal")
  <2>1. /\ FilesStay' = FilesStay /\ Separate' = Separate /\ Supported' = Supported
        /\ \A f : Parsed(f)' = Parsed(f)
    BY <1>1, SameFiles DEF fileVars
  <2> QED BY <1>1, <2>1 DEF LoadInv, Done, Key, fileVars
<1>2. CASE phase = "loading" /\ UNCHANGED <<fileVars, phase>>
  <2>1. FilesStay' /\ \A f : Parsed(f)' = Parsed(f)
    BY <1>2, SameFiles DEF LoadInv, fileVars
  <2>2. ~refused
    BY <1>2 DEF LoadInv
  <2> QED BY <1>2, <2>1, <2>2 DEF LoadInv, Done, Key, fileVars
<1>3. CASE LoadResources
  <2>1. /\ UNCHANGED <<deployment, files, environ, graphs>>
        /\ phase # "fatal" /\ (refused' => phase' = "fatal")
    BY <1>3 DEF LoadResources, ReadDirectory, LoadFile, graphVars
  <2>2. ~refused
    BY <2>1 DEF LoadInv
  <2>3. FilesStay' /\ \A f : Parsed(f)' = Parsed(f)
    BY <2>1, SameFiles DEF LoadInv
  <2>4. CASE ReadDirectory
    <3> DEFINE found == {f \in files : f.kind = Head(kindsLeft)}
    <3>1. /\ toLoad = {} /\ kindsLeft # <<>> /\ kindsLeft' = Tail(kindsLeft) /\ UNCHANGED loaded
          /\ IF \A f \in found : Readable(f)
             THEN toLoad' = found /\ UNCHANGED refused ELSE refused' = TRUE /\ UNCHANGED toLoad
      BY <2>4 DEF ReadDirectory
    <3>2. \A f \in files : (\A i \in DOMAIN kindsLeft : kindsLeft[i] # f.kind) <=>
             /\ \A i \in DOMAIN kindsLeft' : kindsLeft'[i] # f.kind
             /\ f.kind # Head(kindsLeft)
      <4>1. ASSUME NEW kind
            PROVE  (\A i \in DOMAIN kindsLeft : kindsLeft[i] # kind) <=>
                      /\ \A i \in DOMAIN kindsLeft' : kindsLeft'[i] # kind
                      /\ kind # Head(kindsLeft)
        <5>1. kindsLeft \in Seq({"schema", "idp", "sender", "application"})
          <6>1. kindsLeft \in {Kinds, <<"idp", "sender", "application">>,
                               <<"sender", "application">>, <<"application">>, <<>>}
            BY DEF FilesInv, KindsAfter
          <6> DEFINE K == {"schema", "idp", "sender", "application"}
          <6>2. Kinds \in Seq(K)
            BY DEF Kinds
          <6>3. <<"idp", "sender", "application">> \in Seq(K)
            OBVIOUS
          <6>4. <<"sender", "application">> \in Seq(K) /\ <<"application">> \in Seq(K)
                /\ <<>> \in Seq(K)
            OBVIOUS
          <6> HIDE DEF K
          <6>5. kindsLeft \in Seq(K)
            BY <6>1, <6>2, <6>3, <6>4
          <6> QED BY <6>5 DEF K
        <5> DEFINE n == Len(kindsLeft)
        <5>2. /\ n \in Nat \ {0} /\ DOMAIN kindsLeft = 1..n /\ Head(kindsLeft) = kindsLeft[1]
              /\ DOMAIN kindsLeft' = 1..(n - 1) /\ \A i \in 1..(n - 1) : kindsLeft'[i] = kindsLeft[i + 1]
          BY <3>1, <5>1
        <5>3. \A i \in 2..n : i - 1 \in 1..(n - 1) /\ (i - 1) + 1 = i
          BY <5>2
        <5>4. \A i \in 1..(n - 1) : i + 1 \in 1..n
          BY <5>2
        <5>5. \A i \in 1..n : i = 1 \/ i \in 2..n
          BY <5>2
        <5> HIDE DEF n
        <5>6. ASSUME \A i \in 1..n : kindsLeft[i] # kind
              PROVE  (\A i \in 1..(n - 1) : kindsLeft'[i] # kind) /\ kind # kindsLeft[1]
          <6>1. 1 \in 1..n
            BY <5>2
          <6> QED BY <5>2, <5>4, <5>6, <6>1
        <5>7. ASSUME \A i \in 1..(n - 1) : kindsLeft'[i] # kind, kind # kindsLeft[1],
                     NEW i \in 1..n
              PROVE  kindsLeft[i] # kind
          <6>1. CASE i = 1
            BY <5>7, <6>1
          <6>2. CASE i \in 2..n
            <7> DEFINE j == i - 1
            <7>1. j \in 1..(n - 1) /\ j + 1 = i
              BY <5>3, <6>2
            <7> HIDE DEF j
            <7>2. kindsLeft'[j] = kindsLeft[j + 1] /\ kindsLeft'[j] # kind
              BY <5>2, <5>7, <7>1
            <7> QED BY <7>1, <7>2
          <6> QED BY <5>5, <6>1, <6>2
        <5> QED BY <5>2, <5>6, <5>7
      <4> QED BY <4>1
    <3>3. CASE \A f \in found : Readable(f)
      <4>1. Done' = Done
        BY <2>1, <3>1, <3>2, <3>3 DEF Done
      <4> QED BY <2>2, <2>3, <3>1, <3>3, <4>1 DEF LoadInv, Key
    <3>4. CASE ~\A f \in found : Readable(f)
      <4>1. Done \subseteq Done'
        BY <2>1, <3>1, <3>2, <3>4 DEF Done
      <4>2. ~(Separate' /\ Supported')
        <5>1. Separate /\ Supported' => Supported
          BY <2>1, <3>1 DEF Supported, Loadable
        <5>2. Separate' = Separate
          BY <2>1 DEF Separate, Loadable
        <5> QED BY <3>4, <5>1, <5>2, FileSays DEF LoadInv
      <4>3. refused'
        BY <3>1, <3>4
      <4> QED BY <2>1, <2>3, <3>1, <4>1, <4>2, <4>3 DEF LoadInv, Key
    <3> QED BY <3>3, <3>4
  <2>5. ASSUME NEW f \in toLoad, LoadFile(f) PROVE LoadInv'
    <3>1. UNCHANGED <<deployment, files, environ, kindsLeft, graphs>>
      BY <2>1, <2>5 DEF LoadFile
    <3>2. /\ FilesStay' = FilesStay /\ Separate' = Separate /\ Supported' = Supported
      BY <3>1, SameFiles
    <3>3. CASE Valid(Parsed(f))
      <4> DEFINE key == Key(Parsed(f))
      <4>1. loaded' = Put(loaded, key, Parsed(f)) /\ toLoad' = toLoad \ {f} /\ ~refused'
        BY <2>2, <2>5, <3>3 DEF LoadFile, Key
      <4>2. Done' = Done \cup {f}
        <5>1. f \in files /\ kindsLeft = KindsAfter(f.kind)
              /\ f.kind \in {"schema", "idp", "sender", "application"}
          BY DEF FilesInv
        <5>2. \A i \in DOMAIN kindsLeft : kindsLeft[i] # f.kind
          BY <5>1 DEF KindsAfter
        <5> QED BY <3>1, <4>1, <5>1, <5>2 DEF Done
      <4>3. /\ DOMAIN loaded' = DOMAIN loaded \cup {key} /\ loaded'[key] = Parsed(f)
            /\ \A k \in DOMAIN loaded : k # key => loaded'[k] = loaded[k]
        BY <4>1 DEF Put
      <4>4. ASSUME NEW k \in DOMAIN loaded'
            PROVE  \E g \in Done' : k = Key(Parsed(g)') /\ loaded'[k] = Parsed(g)'
        BY <2>3, <4>2, <4>3 DEF LoadInv
      <4>5. \A g \in Done' : Key(Parsed(g)') \in DOMAIN loaded'
        BY <2>2, <2>3, <4>2, <4>3 DEF LoadInv
      <4> HIDE DEF key
      <4> QED BY <2>3, <4>1, <4>4, <4>5 DEF LoadInv, Key
    <3>4. CASE ~Valid(Parsed(f))
      <4>1. refused' /\ toLoad' = {} /\ UNCHANGED loaded
        BY <2>5, <3>4 DEF LoadFile
      <4>2. Done \subseteq Done'
        BY <3>1, <4>1 DEF Done
      <4>3. ~(Separate /\ Supported)
        BY <3>4, FileLoads
      <4> QED BY <2>1, <2>3, <3>2, <4>1, <4>2, <4>3 DEF LoadInv, Key
    <3> QED BY <3>3, <3>4
  <2> QED BY <1>3, <2>4, <2>5 DEF LoadResources
<1> QED BY <1>1, <1>2, <1>3, OtherSteps

\* When all is loaded, the store has what was exported.
LEMMA AllBack == LoadInv => ExportsComeBack
<1> SUFFICES ASSUME LoadInv, Separate PROVE ExportsComeBack
  BY DEF ExportsComeBack
<1> SUFFICES ASSUME kindsLeft = <<>>, toLoad = {}, ~refused, NEW r \in Loadable
             PROVE  \/ <<r.kind, r.id>> \in DOMAIN loaded /\ loaded[<<r.kind, r.id>>] = Kept(r)
                    \/ \E f \in deployment.written : f.kind = r.kind /\ f.id = r.id
  BY DEF ExportsComeBack, LoadInv
<1>1. FilesStay /\ deployment \in Deployments /\ environ = Environment(deployment)
  BY DEF LoadInv, FilesStay
<1>2. r \in deployment.database /\ r \in Requested(deployment)
  BY DEF Loadable, Requested
<1>3. Done = files
  BY DEF Done
<1>4. Export(r) \in files
  <2>1. PICK kept \in Saved({Export(s) : s \in Requested(deployment)}) :
           files = kept \cup deployment.written
    BY <1>1 DEF FilesStay
  <2>2. /\ kept \subseteq {Export(s) : s \in Requested(deployment)}
        /\ SavedAs(Export(r)) \in {SavedAs(f) : f \in kept}
    BY <1>2, <2>1 DEF Saved
  <2>3. PICK s \in Requested(deployment) :
           Export(s) \in kept /\ SavedAs(Export(s)) = SavedAs(Export(r))
    BY <2>2
  <2>4. s \in deployment.database
    BY DEF Requested
  <2>5. s.kind = r.kind
    BY <1>1, <1>2, <2>3, <2>4, ValuesTell DEF SavedAs
  <2>6. s \in Loadable
    BY <2>5 DEF Loadable
  <2>7. s = r
    BY <2>3, <2>6 DEF Separate
  <2> QED BY <2>1, <2>3, <2>7
<1>5. Parsed(Export(r)) = Kept(r) /\ Key(Kept(r)) = <<r.kind, r.id>>
  BY <1>1, ReadBack, KeptTells DEF Key
<1>6. <<r.kind, r.id>> \in DOMAIN loaded
  BY <1>3, <1>4, <1>5 DEF LoadInv
<1>7. PICK g \in files : /\ <<r.kind, r.id>> = Key(Parsed(g))
                         /\ loaded[<<r.kind, r.id>>] = Parsed(g)
  BY <1>3, <1>6 DEF LoadInv
<1>8. Parsed(g).kind = r.kind /\ Parsed(g).id = r.id
  BY <1>7 DEF Key
<1>9. g.kind = r.kind
  BY <1>1, <1>8, FileTells, ParsedKind
<1>10. CASE g \in deployment.written
  <2>1. g.id = r.id
    <3>1. {"kind", "id", "name"} \subseteq DOMAIN g
      BY <1>1, <1>10, ResourcesAssumption
    <3>2. g.kind # "application" => Parsed(g).id = g.id
      BY <3>1 DEF Parsed
    <3>3. g.kind = "application" => Parsed(g).id = Given(g.id, g.name)
      BY <3>1 DEF Parsed
    <3>4. Given("", g.name) # r.id
      BY <1>1, <1>2, <1>10, ResourcesAssumption
    <3>5. Given(g.id, g.name) = IF g.id = "" THEN Given("", g.name) ELSE g.id
      BY DEF Given
    <3> QED BY <1>8, <3>2, <3>3, <3>4, <3>5
  <2> QED BY <1>9, <1>10, <2>1
<1>11. ASSUME NEW s \in Requested(deployment), g = Export(s) PROVE s = r
  <2>1. s \in deployment.database
    BY DEF Requested
  <2>2. s.kind = r.kind
    BY <1>1, <1>9, <1>11, <2>1, ValuesTell
  <2>3. s \in Loadable
    BY <2>2 DEF Loadable
  <2>4. s.id = r.id
    BY <1>1, <1>8, <1>11, <2>3, ReadBack, KeptTells
  <2> QED BY <1>1, <1>2, <2>1, <2>2, <2>4, ResourcesAssumption
<1> QED BY <1>1, <1>5, <1>6, <1>7, <1>10, <1>11, FileTells

-----------------------------------------------------------------------------
(* What is loaded.                                                         *)

\* In whichever order the maps are iterated, nobody registers past the provisioning node of
\* a graph that is inferred, no graph of a file is lost to one, and each authentication graph
\* with an end has a registration graph.
THEOREM ProvisioningIsNotPassed == RuntimeSpec => []NoWayPastProvisioning
<1>1. RuntimeInit => GraphsInv /\ GraphsTell
  BY DEF RuntimeInit, GraphsInit, GraphsInv, GraphsTell
<1>2. GraphsInv /\ GraphsTell => NoWayPastProvisioning
  <2>1. GraphsInv => (phase = "loading" /\ configured = << >> => ConfiguredStands)
    BY DEF GraphsInv, Pending, Settled, Ends, ConfiguredStands
  <2> QED BY <2>1, InferredProvisions DEF NoWayPastProvisioning
<1> QED BY <1>1, <1>2, GraphsStep, GraphsTellStep, PTL DEF RuntimeSpec

\* In whichever order the goroutines read the files, an application that was loaded leads
\* to flows and user types that are there, and shares no name or client ID with another;
\* and what another server has exported is there again as it was.
THEOREM FilesAreServed == RuntimeSpec => []ServesWhatFilesSay
<1>1. FilesInv /\ LoadInv => ServesWhatFilesSay
  BY AllBack DEF FilesInv, ServesWhatFilesSay
<1> QED BY <1>1, FilesInitInv, FilesStep, LoadInvInit, LoadInvStep, PTL DEF RuntimeSpec

\* The invariant with its parts expanded, except for that of the bus.
USE DEF RInv, PoolsTypeOK, ServerTypeOK, Phases, RequestStates, Down, InProgress

-----------------------------------------------------------------------------
(* The invariant is inductive.                                             *)

\* initializeAllClients gives every database a pool of its own.
LEMMA PoolsInitOwned == PoolsInit => NoPoolLost /\ PoolsTypeOK
<1> SUFFICES ASSUME PoolsInit PROVE NoPoolLost /\ PoolsTypeOK
  OBVIOUS
<1>1. PICK reached \in SUBSET Databases :
         /\ opened = Cardinality(reached)
         /\ open = 1..opened
         /\ client \in [Databases -> open \cup {None}]
         /\ \A d \in Databases : client[d] # None <=> d \in reached
         /\ \A c, d \in reached : c # d => client[c] # client[d]
         /\ missed = [r \in Requests |-> None]
         /\ held = [r \in Requests |-> None]
  BY DEF PoolsInit
<1>2. IsFiniteSet(reached) /\ opened \in Nat
  BY <1>1, FS_Subset, FS_CardinalityType
<1>3. IsFiniteSet(open) /\ Cardinality(open) = opened
  BY <1>1, <1>2, FS_Interval
<1> DEFINE owner == [d \in reached |-> client[d]]
<1>4. owner \in Injection(reached, open)
  BY <1>1 DEF Injection, IsInjective
<1>5. owner \in Surjection(reached, open)
  BY <1>1, <1>3, <1>4, FS_Injection
<1>6. NoPoolLost
  BY <1>1, <1>5 DEF NoPoolLost, Surjection
<1>7. PoolsTypeOK
  BY <1>1, <1>2
<1> QED BY <1>6, <1>7

LEMMA RInitInv == RuntimeInit => RInv
<1> SUFFICES ASSUME RuntimeInit PROVE RInv
  OBVIOUS
<1> USE DEF RuntimeInit
<1>1. IInv
  BY InitInv
<1>2. NoPoolLost /\ PoolsTypeOK
  BY PoolsInitOwned
<1>3. ServerTypeOK
  BY DEF Init
<1>4. SetUp /\ NothingDelivered /\ AllAreClosed
  <2>1. kindsLeft = Kinds
    BY DEF FilesInit
  <2>2. SetUp
    BY <2>1 DEF SetUp, Init
  <2>3. NothingDelivered
    BY DEF NothingDelivered, Init, LogInit, Deliveries
  <2> QED BY <2>2, <2>3 DEF AllAreClosed, Init
<1>5. LogKept /\ ServiceIsDown /\ ServerDrained
  BY DEF LogKept, ServiceIsDown, ServerDrained, Init, LogInit
<1>6. RequestsServed /\ PoolsClosed /\ OnlyLateRequestsSuffer
  <2>1. \A d \in Databases : client[d] \in open \cup {None}
    BY DEF PoolsInit
  <2>2. \A r \in Requests : held[r] = None
    BY DEF PoolsInit
  <2> QED BY <2>1, <2>2 DEF RequestsServed, PoolsClosed, OnlyLateRequestsSuffer
<1> QED BY <1>1, <1>2, <1>3, <1>4, <1>5, <1>6

\* The start of the server, up to its first request.
LEMMA StartStep ==
  ASSUME RInv, IInv',
         \/ \E s \in Subscribers : InitSubscriber(s) \/ InitSubscriberFails(s) \/ Register(s)
         \/ LoadResources \/ LoadGraphs \/ GraphsLoaded \/ Serve
         \/ \E id \in DOMAIN configured : LoadGraph(id)
  PROVE  RInv'
<1> USE DEF partVars, busVars, logVars, poolVars, configVars, graphVars, fileVars, setupVars,
            serverVars
<1>1. ASSUME NEW s \in Subscribers, InitSubscriber(s) PROVE RInv'
  <2> USE <1>1 DEF InitSubscriber
  <2>1. UNCHANGED <<phase, publisher, request, toCloseDB, timedOut, failedFast,
                    busVars, poolVars, configVars>>
    OBVIOUS
  <2>2. PoolsTypeOK' /\ NoPoolLost' /\ RequestsServed' /\ PoolsClosed' /\ ServerDrained'
        /\ OnlyLateRequestsSuffer'
    BY <2>1 DEF NoPoolLost, RequestsServed, PoolsClosed, ServerDrained, OnlyLateRequestsSuffer
  <2>3. ServerTypeOK'
    OBVIOUS
  <2>4. SetUp'
    BY DEF SetUp
  <2>5. LogKept' /\ NothingDelivered'
    BY DEF SetUp, LogKept, NothingDelivered, OpenFile
  <2>6. AllAreClosed' /\ ServiceIsDown'
    BY DEF AllAreClosed, ServiceIsDown
  <2> QED BY <2>2, <2>3, <2>4, <2>5, <2>6
<1>2. ASSUME NEW s \in Subscribers, InitSubscriberFails(s) PROVE RInv'
  <2> USE <1>2 DEF InitSubscriberFails
  <2>1. PoolsTypeOK' /\ NoPoolLost' /\ RequestsServed' /\ PoolsClosed' /\ ServerDrained'
        /\ OnlyLateRequestsSuffer'
    BY DEF NoPoolLost, RequestsServed, PoolsClosed, ServerDrained, OnlyLateRequestsSuffer
  <2>2. ServerTypeOK'
    OBVIOUS
  <2>3. SetUp'
    BY DEF SetUp
  <2>4. LogKept' /\ NothingDelivered'
    BY DEF SetUp, LogKept, NothingDelivered
  <2>5. AllAreClosed' /\ ServiceIsDown'
    BY DEF AllAreClosed, ServiceIsDown
  <2> QED BY <2>1, <2>2, <2>3, <2>4, <2>5
<1>3. ASSUME NEW s \in Subscribers, Register(s) PROVE RInv'
  <2> USE <1>3 DEF Register, Subscribe
  <2>1. PoolsTypeOK' /\ NoPoolLost' /\ RequestsServed' /\ PoolsClosed' /\ ServerDrained'
        /\ OnlyLateRequestsSuffer'
    BY DEF NoPoolLost, RequestsServed, PoolsClosed, ServerDrained, OnlyLateRequestsSuffer
  <2>2. ServerTypeOK'
    OBVIOUS
  <2>3. SetUp'
    BY DEF SetUp
  <2>4. LogKept' /\ NothingDelivered'
    BY DEF LogKept, NothingDelivered
  <2>5. AllAreClosed' /\ ServiceIsDown'
    BY DEF AllAreClosed, ServiceIsDown
  <2> QED BY <2>1, <2>2, <2>3, <2>4, <2>5
<1>4. CASE LoadResources
  <2>1. toInit = {} /\ (failedFast \/ subscribers = active) /\ phase \in {"starting", "loaded"}
        /\ phase' \in {phase, "fatal"}
        /\ UNCHANGED <<busVars, logVars, poolVars, setupVars, publisher, request, toCloseDB, timedOut>>
    BY <1>4 DEF LoadResources
  <2> QED
    BY <2>1 DEF SetUp, NothingDelivered, AllAreClosed, LogKept, ServiceIsDown, ServerDrained,
       RequestsServed, PoolsClosed, NoPoolLost, OnlyLateRequestsSuffer
<1>5. CASE LoadGraphs
  <2>1. kindsLeft # Kinds
    BY <1>5 DEF LoadGraphs, Kinds
  <2>2. phase = "starting" /\ phase' = "loading"
        /\ UNCHANGED <<busVars, logVars, poolVars, fileVars, setupVars, publisher, request,
                       toCloseDB, timedOut>>
    BY <1>5 DEF LoadGraphs
  <2> QED
    BY <2>1, <2>2 DEF SetUp, NothingDelivered, AllAreClosed, LogKept, ServiceIsDown, ServerDrained,
       RequestsServed, PoolsClosed, NoPoolLost, OnlyLateRequestsSuffer
<1>6. ASSUME \/ GraphsLoaded \/ Serve
             \/ \E id \in DOMAIN configured : LoadGraph(id)
      PROVE  RInv'
  <2>1. phase \in {"loading", "loaded"}
        /\ phase' \in {"loading", "loaded", "fatal", "serving"}
        /\ UNCHANGED <<busVars, logVars, poolVars, fileVars, setupVars, publisher, request,
                       toCloseDB, timedOut>>
    BY <1>6 DEF GraphsLoaded, Serve, LoadGraph
  <2> QED
    BY <2>1 DEF SetUp, NothingDelivered, AllAreClosed, LogKept, ServiceIsDown, ServerDrained,
       RequestsServed, PoolsClosed, NoPoolLost, OnlyLateRequestsSuffer
<1> QED BY <1>1, <1>2, <1>3, <1>4, <1>5, <1>6

\* A request: what it gets to depends on what the server still has.
LEMMA RequestStep ==
  ASSUME RInv, IInv', NEW r \in Requests, Work(r)
  PROVE  RInv'
<1> USE DEF partVars, busVars, logVars, poolVars, configVars, graphVars, fileVars, setupVars,
            serverVars, Becomes
<1>1. CASE Arrive(r)
  <2> USE <1>1 DEF Arrive
  <2>1. ServerTypeOK' /\ PoolsTypeOK'
    OBVIOUS
  <2>2. SetUp' /\ NothingDelivered' /\ AllAreClosed' /\ LogKept' /\ ServiceIsDown'
    BY DEF SetUp, NothingDelivered, AllAreClosed, LogKept, ServiceIsDown
  <2>3. ServerDrained' /\ PoolsClosed' /\ NoPoolLost' /\ OnlyLateRequestsSuffer'
    BY DEF ServerDrained, PoolsClosed, NoPoolLost, OnlyLateRequestsSuffer
  <2>4. RequestsServed'
    BY DEF RequestsServed
  <2> QED BY <2>1, <2>2, <2>3, <2>4
<1>2. CASE GetDatabase(r)
  <2> USE DEF GetClient, InitClient, InitClientFails, OpenPool
  <2>1. PICK d \in Databases : GetClient(r, d) \/ InitClient(r, d) \/ InitClientFails(r, d)
    BY <1>2 DEF GetDatabase
  <2>2. /\ phase # "stopped" /\ request[r] = "working"
        /\ UNCHANGED <<busVars, logVars, configVars, phase, setupVars, publisher, toCloseDB, timedOut>>
        /\ request' = [request EXCEPT ![r] =
                         IF missed'[r] # None THEN "working"
                         ELSE IF held'[r] # None THEN "connected" ELSE "failed"]
    BY <1>2 DEF GetDatabase
  <2>3. request' \in [Requests -> RequestStates] /\ \A q \in Requests : q # r => request'[q] = request[q]
    BY <2>2
  <2>4. ServerTypeOK' /\ SetUp' /\ NothingDelivered' /\ AllAreClosed' /\ LogKept' /\ ServiceIsDown'
    BY <2>2, <2>3 DEF SetUp, NothingDelivered, AllAreClosed, LogKept, ServiceIsDown
  <2>5. timedOut \/ phase \notin {"unregistering"} \cup Down
    BY <2>2 DEF ServerDrained
  <2>6. PoolsTypeOK'
    <3>1. CASE UNCHANGED <<client, open, opened>>
      BY <2>1, <3>1
    <3>2. CASE OpenPool(r, d) /\ missed' = [missed EXCEPT ![r] = None]
      BY <3>2
    <3> QED BY <2>1, <3>1, <3>2
  <2>7. NoPoolLost'
    <3>1. CASE UNCHANGED <<client, open>>
      BY <3>1 DEF NoPoolLost
    <3>2. CASE OpenPool(r, d) /\ client[d] = None
      BY <3>2 DEF NoPoolLost
    <3> QED BY <2>1, <3>1, <3>2
  <2>8. RequestsServed'
    <3>1. held[r] = None /\ request'[r] \in {"working", "connected", "failed"}
      BY <2>2 DEF RequestsServed
    <3>2. held'[r] \in {None, client'[d]} /\ \A q \in Requests : q # r => held'[q] = held[q]
      BY <2>1, <3>1
    <3>3. request'[r] = "working" => held'[r] = None
      <4>1. request'[r] = "working" => missed'[r] # None
        BY <2>2
      <4>2. missed'[r] # None => held'[r] = held[r]
        BY <2>1
      <4> QED BY <3>1, <4>1, <4>2
    <3>4. request'[r] = "connected" => held'[r] # None
      <4>1. request'[r] = IF missed'[r] # None THEN "working"
                          ELSE IF held'[r] # None THEN "connected" ELSE "failed"
        BY <2>2
      <4> HIDE DEF GetClient, InitClient, InitClientFails, OpenPool
      <4> QED BY <4>1
    <3>5. phase' \notin Down => \A c \in Databases : client'[c] \in open' \cup {None}
      BY <2>1, <2>2 DEF RequestsServed
    <3>6. open \subseteq open'
      BY <2>1
    <3>7. UNCHANGED <<phase, publisher, timedOut>>
      BY <2>2
    <3> HIDE DEF GetClient, InitClient, InitClientFails, OpenPool
    <3>8. ASSUME NEW q \in Requests, q # r
          PROVE  /\ request'[q] \in {"none", "working"} => held'[q] = None
                 /\ request'[q] = "connected" /\ phase' \notin Down => held'[q] \in open'
                 /\ request'[q] \in {"enabled", "publishing"} => publisher' \/ timedOut'
      <4>1. RequestsServed
        OBVIOUS
      <4> QED BY <2>3, <3>2, <3>6, <3>7, <3>8, <4>1 DEF RequestsServed
    <3>9. /\ request'[r] \in {"none", "working"} => held'[r] = None
          /\ request'[r] = "connected" /\ phase' \notin Down => held'[r] \in open'
          /\ request'[r] \notin {"enabled", "publishing"}
      BY <3>1, <3>2, <3>3, <3>4, <3>5
    <3> QED BY <3>5, <3>8, <3>9 DEF RequestsServed
  <2>9. ServerDrained' /\ PoolsClosed' /\ OnlyLateRequestsSuffer'
    BY <2>2, <2>3, <2>5 DEF ServerDrained, PoolsClosed, OnlyLateRequestsSuffer
  <2> QED BY <2>4, <2>6, <2>7, <2>8, <2>9
<1>3. CASE Query(r) \/ LookAtPublisher(r)
  <2>1. /\ phase # "stopped" /\ request[r] \in {"connected", "queried"}
        /\ UNCHANGED <<partVars, phase, setupVars, publisher, toCloseDB, timedOut>>
        /\ \E to \in {"queried", "refused", "enabled", "done"} :
              /\ request' = [request EXCEPT ![r] = to]
              /\ to = "refused" => request[r] = "connected" /\ held[r] \notin open
              /\ to = "enabled" => publisher
    BY <1>3 DEF Query, LookAtPublisher
  <2>2. timedOut \/ phase \notin {"unregistering"} \cup Down
    BY <2>1 DEF ServerDrained
  <2>3. ServerTypeOK' /\ PoolsTypeOK'
    BY <2>1
  <2>4. SetUp' /\ NothingDelivered' /\ AllAreClosed' /\ LogKept' /\ ServiceIsDown'
    BY <2>1 DEF SetUp, NothingDelivered, AllAreClosed, LogKept, ServiceIsDown
  <2>5. ServerDrained' /\ PoolsClosed' /\ NoPoolLost'
    BY <2>1, <2>2 DEF ServerDrained, PoolsClosed, NoPoolLost
  <2>6. RequestsServed' /\ OnlyLateRequestsSuffer'
    BY <2>1, <2>2 DEF RequestsServed, OnlyLateRequestsSuffer
  <2> QED BY <2>3, <2>4, <2>5, <2>6
<1>4. CASE CallPublisher(r)
  <2> USE RuntimeAssumption DEF PublishIgnored, PublishAccepted
  <2>1. /\ phase # "stopped" /\ request[r] = "enabled"
        /\ UNCHANGED <<logVars, poolVars, configVars, phase, setupVars, publisher, toCloseDB, timedOut>>
        /\ UNCHANGED <<subscribers, byCategory, isShutdown, task, wg, closer, toClose, closed>>
        /\ \E to \in {"done", "publishing", "panicked"} :
              /\ request' = [request EXCEPT ![r] = to]
              /\ to = "panicked" => ~publisher
              /\ to = "publishing" => publisher /\ subscribers # {}
              /\ to # "publishing" => UNCHANGED pending
    <3>1. PublishAccepted(r) => subscribers # {}
      BY CategoryAssumption DEF IInv, CategoryIndexAgrees, HasSubscribers
    <3> QED BY <1>4, <3>1 DEF CallPublisher
  <2>2. r \in InProgress
    BY <2>1
  <2>3. timedOut \/ phase \notin {"unregistering"} \cup Down
    BY <2>2 DEF ServerDrained
  <2>4. ServerTypeOK' /\ PoolsTypeOK'
    BY <2>1
  <2>5. SetUp' /\ AllAreClosed' /\ LogKept' /\ ServiceIsDown'
    BY <2>1 DEF SetUp, AllAreClosed, LogKept, ServiceIsDown
  <2>6. NothingDelivered'
    BY <2>1 DEF NothingDelivered, SetUp
  <2>7. ServerDrained' /\ PoolsClosed' /\ NoPoolLost'
    BY <2>1, <2>3 DEF ServerDrained, PoolsClosed, NoPoolLost
  <2>8. RequestsServed' /\ OnlyLateRequestsSuffer'
    BY <2>1, <2>3 DEF RequestsServed, OnlyLateRequestsSuffer
  <2> QED BY <2>4, <2>5, <2>6, <2>7, <2>8
<1>5. ASSUME NEW s \in Subscribers, Broadcast(r, s) PROVE RInv'
  <2>1. /\ s \in pending[r]
        /\ UNCHANGED <<logVars, poolVars, configVars, phase, setupVars, publisher, toCloseDB, timedOut>>
        /\ UNCHANGED <<subscribers, byCategory, isShutdown, closer, toClose, closed>>
        /\ request' \in {request, [request EXCEPT ![r] = "done"]}
    BY <1>5 DEF Broadcast, SpawnHandler
  <2>2. ServerTypeOK' /\ PoolsTypeOK'
    BY <2>1
  <2>3. SetUp' /\ AllAreClosed' /\ LogKept' /\ ServiceIsDown'
    BY <2>1 DEF SetUp, AllAreClosed, LogKept, ServiceIsDown
  <2>4. NothingDelivered'
    BY <2>1, RuntimeAssumption DEF NothingDelivered
  <2>5. ServerDrained' /\ PoolsClosed' /\ NoPoolLost'
    BY <2>1 DEF ServerDrained, PoolsClosed, NoPoolLost
  <2>6. RequestsServed' /\ OnlyLateRequestsSuffer'
    BY <2>1 DEF RequestsServed, OnlyLateRequestsSuffer
  <2> QED BY <2>2, <2>3, <2>4, <2>5, <2>6
<1> QED BY <1>1, <1>2, <1>3, <1>4, <1>5 DEF Work

\* The goroutines: one that writes is inside OnEvent, and then nothing was closed yet.
LEMMA GoroutineStep ==
  ASSUME RInv, IInv',
         FlusherTicks \/ \E r \in Events, s \in Subscribers : Handle(r, s)
  PROVE  RInv'
<1> USE DEF poolVars, configVars, graphVars, fileVars, serverVars
<1>1. /\ UNCHANGED <<poolVars, configVars, serverVars>>
      /\ UNCHANGED <<subscribers, isShutdown, pending, toClose, closed, adapter>>
  BY DEF FlusherTicks, PeriodicFlush, Handle, StartHandler, SkipHandler, FinishHandler,
     WriteLine, logVars, busVars
<1>2. PoolsTypeOK' /\ ServerTypeOK'
  BY <1>1
<1>3. SetUp' /\ AllAreClosed' /\ ServiceIsDown'
  BY <1>1 DEF SetUp, AllAreClosed, ServiceIsDown
<1>4. ServerDrained' /\ RequestsServed' /\ PoolsClosed' /\ NoPoolLost' /\ OnlyLateRequestsSuffer'
  BY <1>1 DEF ServerDrained, RequestsServed, PoolsClosed, NoPoolLost, OnlyLateRequestsSuffer
<1>5. CASE FlusherTicks
  BY <1>1, <1>2, <1>3, <1>4, <1>5 DEF FlusherTicks, PeriodicFlush, Flushed, LogKept,
     NothingDelivered, busVars
<1>6. ASSUME NEW r \in Events, NEW s \in Subscribers, Handle(r, s) PROVE RInv'
  <2>1. task[<<r, s>>] \in {"spawned", "handling"}
    BY <1>6 DEF Handle, StartHandler, SkipHandler, FinishHandler
  <2>2. phase # "starting" /\ ~failedFast
    BY <2>1 DEF NothingDelivered
  <2>3. NothingDelivered'
    BY <1>1, <2>2 DEF NothingDelivered
  <2>4. CASE UNCHANGED logVars
    BY <1>1, <1>2, <1>3, <1>4, <2>3, <2>4 DEF LogKept, logVars
  <2>5. CASE FinishHandler(r, s) /\ s = FileSub /\ WriteLine(r)
    <3>1. closed = {}
      BY <2>5 DEF IInv, ClosedAfterWait, FinishHandler, Deliveries
    <3>2. LogKept'
      BY <1>1, <2>5, <3>1 DEF LogKept, WriteLine, logVars
    <3> QED BY <1>2, <1>3, <1>4, <2>3, <3>2
  <2> QED BY <1>6, <2>4, <2>5 DEF Handle
<1> QED BY <1>5, <1>6

\* gracefulShutdown, in its order.
LEMMA StopStep ==
  ASSUME RInv, IInv', Stop
  PROVE  RInv'
<1> USE DEF partVars, busVars, logVars, poolVars, configVars, graphVars, fileVars, setupVars,
            serverVars
<1>1. CASE Signal \/ ShutdownServer
  <2>1. /\ phase \in {"serving", "draining"} /\ phase' \in {"draining", "unregistering"}
        /\ timedOut' = IF phase' = "unregistering" THEN InProgress # {} ELSE timedOut
        /\ UNCHANGED <<partVars, setupVars, publisher, request, toCloseDB>>
    BY <1>1 DEF Signal, ShutdownServer
  <2>2. PoolsTypeOK' /\ ServerTypeOK'
    BY <2>1
  <2>3. SetUp' /\ NothingDelivered' /\ AllAreClosed' /\ LogKept' /\ ServiceIsDown'
    BY <2>1 DEF SetUp, NothingDelivered, AllAreClosed, LogKept, ServiceIsDown
  <2>4. ~timedOut
    BY <2>1 DEF ServerDrained
  <2>5. ServerDrained' /\ PoolsClosed' /\ NoPoolLost'
    BY <2>1, <2>4 DEF ServerDrained, PoolsClosed, NoPoolLost
  <2>6. RequestsServed' /\ OnlyLateRequestsSuffer'
    BY <2>1, <2>4 DEF RequestsServed, OnlyLateRequestsSuffer
  <2> QED BY <2>2, <2>3, <2>5, <2>6
<1>2. CASE ShutdownPublisher \/ CloseFileSubscriber
  <2> USE DEF BeginShutdown, HandlersDrained, CloseSubscriber, FlushBeforeClose, Flushed,
              MarkClosed, CloseFile
  <2>1. /\ phase = "unregistering"
        /\ UNCHANGED <<poolVars, configVars, serverVars>>
        /\ UNCHANGED <<subscribers, pending, task, written>>
    BY <1>2 DEF ShutdownPublisher, CloseFileSubscriber
  <2>2. PoolsTypeOK' /\ ServerTypeOK' /\ SetUp' /\ NothingDelivered' /\ ServiceIsDown'
    BY <2>1 DEF SetUp, NothingDelivered, ServiceIsDown
  <2>3. ServerDrained' /\ RequestsServed' /\ PoolsClosed' /\ NoPoolLost' /\ OnlyLateRequestsSuffer'
    BY <2>1 DEF ServerDrained, RequestsServed, PoolsClosed, NoPoolLost, OnlyLateRequestsSuffer
  <2>4. AllAreClosed' /\ LogKept'
    <3>1. CASE BeginShutdown(Main) /\ UNCHANGED logVars
      BY <2>1, <3>1 DEF AllAreClosed, LogKept, IInv, OneEffectiveShutdown
    <3>2. CASE HandlersDrained(Main) /\ UNCHANGED logVars
      BY <2>1, <3>2 DEF AllAreClosed, LogKept
    <3>3. ASSUME NEW s \in Subscribers \ {FileSub}, CloseSubscriber(Main, s), UNCHANGED logVars
          PROVE  AllAreClosed' /\ LogKept'
      BY <2>1, <3>3 DEF AllAreClosed, LogKept
    <3>4. CASE CloseSubscriber(Main, FileSub) /\ FlushBeforeClose
      BY <2>1, <3>4 DEF AllAreClosed, LogKept
    <3>5. CASE (MarkClosed \/ CloseFile) /\ UNCHANGED busVars
      BY <2>1, <3>5 DEF AllAreClosed, LogKept
    <3> QED BY <1>2, <3>1, <3>2, <3>3, <3>4, <3>5 DEF ShutdownPublisher, CloseFileSubscriber
  <2> QED BY <2>2, <2>3, <2>4
<1>3. CASE ShutdownService
  <2>1. /\ phase = "unregistering" /\ phase' = "closing" /\ publisher' = FALSE
        /\ UNCHANGED <<logVars, poolVars, configVars, setupVars, request, toCloseDB, timedOut>>
        /\ UNCHANGED <<subscribers, isShutdown, pending, task, toClose, closed>>
    BY <1>3 DEF ShutdownService, ShutdownReturns
  <2>2. PoolsTypeOK' /\ ServerTypeOK'
    BY <2>1
  <2>3. SetUp' /\ NothingDelivered' /\ AllAreClosed' /\ LogKept'
    BY <2>1 DEF SetUp, NothingDelivered, AllAreClosed, LogKept
  <2>4. ServiceIsDown'
    <3>1. CASE publisher
      <4>1. toClose = {} /\ adapter \notin {"flushed", "marked"} /\ isShutdown
        BY <1>3, <3>1, RuntimeAssumption DEF ShutdownService, ShutdownReturns, IInv, ShutdownPhases
      <4>2. subscribers = closed
        BY <4>1 DEF AllAreClosed
      <4>3. failedFast \/ active = closed
        BY <2>1, <4>2 DEF SetUp
      <4> QED BY <2>1, <4>1, <4>3 DEF ServiceIsDown, LogKept
    <3>2. CASE ~publisher
      BY <2>1, <3>2 DEF ServiceIsDown, SetUp, LogKept
    <3> QED BY <3>1, <3>2
  <2>5. ServerDrained' /\ PoolsClosed' /\ NoPoolLost' /\ OnlyLateRequestsSuffer'
    BY <2>1 DEF ServerDrained, PoolsClosed, NoPoolLost, OnlyLateRequestsSuffer
  <2>6. RequestsServed'
    BY <2>1 DEF RequestsServed, ServerDrained
  <2> QED BY <2>2, <2>3, <2>4, <2>5, <2>6
<1>4. ASSUME NEW d \in Databases, CloseDatabase(d) PROVE RInv'
  <2> USE <1>4 DEF CloseDatabase, CloseClient
  <2>1. SetUp' /\ NothingDelivered' /\ AllAreClosed' /\ LogKept' /\ ServiceIsDown' /\ ServerDrained'
    BY DEF SetUp, NothingDelivered, AllAreClosed, LogKept, ServiceIsDown, ServerDrained
  <2>2. PoolsTypeOK' /\ ServerTypeOK'
    OBVIOUS
  <2>3. NoPoolLost'
    BY DEF NoPoolLost
  <2>4. PoolsClosed'
    BY DEF PoolsClosed
  <2>5. RequestsServed' /\ OnlyLateRequestsSuffer'
    BY DEF RequestsServed, OnlyLateRequestsSuffer
  <2> QED BY <2>1, <2>2, <2>3, <2>4, <2>5
<1>5. CASE Exit
  <2> USE <1>5 DEF Exit
  <2>1. PoolsTypeOK' /\ ServerTypeOK' /\ SetUp' /\ NothingDelivered' /\ AllAreClosed' /\ LogKept'
    BY DEF SetUp, NothingDelivered, AllAreClosed, LogKept
  <2>2. ServiceIsDown' /\ ServerDrained' /\ RequestsServed' /\ PoolsClosed' /\ NoPoolLost'
        /\ OnlyLateRequestsSuffer'
    BY DEF ServiceIsDown, ServerDrained, RequestsServed, PoolsClosed, NoPoolLost,
       OnlyLateRequestsSuffer
  <2> QED BY <2>1, <2>2
<1> QED BY <1>1, <1>2, <1>3, <1>4, <1>5 DEF Stop

LEMMA RInvStep == RInv /\ [RuntimeNext]_vars => RInv'
<1> SUFFICES ASSUME RInv, [RuntimeNext]_vars PROVE RInv'
  OBVIOUS
<1>1. IInv'
  BY BusInvStep
<1>2. CASE UNCHANGED vars
  BY <1>1, <1>2 DEF vars, busVars, logVars, poolVars, graphVars, fileVars, serverVars, SetUp,
     NothingDelivered, AllAreClosed, LogKept, ServiceIsDown, ServerDrained, RequestsServed,
     PoolsClosed, NoPoolLost, OnlyLateRequestsSuffer
<1> QED BY <1>1, <1>2, StartStep, RequestStep, GoroutineStep, StopStep DEF RuntimeNext

-----------------------------------------------------------------------------
(* The theorems.                                                           *)

LEMMA RInvHolds == RuntimeSpec => []RInv
  BY RInitInv, RInvStep, PTL DEF RuntimeSpec

\* A request meets a publisher that is gone, or a pool that was closed, only if it
\* outlasted the five seconds of server.Shutdown, however many requests, subscribers and
\* databases there are.
THEOREM LateRequests == RuntimeSpec => []OnlyLateRequestsSuffer
<1>1. RInv => OnlyLateRequestsSuffer
  OBVIOUS
<1> QED BY <1>1, RInvHolds, PTL

\* The provider loses no pool that is open: getOrInitClient looks at the pointer again
\* under the write lock.
THEOREM PoolsHaveClients == RuntimeSpec => []NoPoolLost
<1>1. RInv => NoPoolLost
  OBVIOUS
<1> QED BY <1>1, RInvHolds, PTL

\* gracefulShutdown leaves behind no line that was written and is not in the file, no
\* subscriber in use that is not closed and, but for late requests, no open pool.
THEOREM ExitIsClean == RuntimeSpec => []CleanExit
<1>1. RInv => CleanExit
  <2> SUFFICES ASSUME RInv, phase = "stopped"
               PROVE  /\ written \subseteq file
                      /\ timedOut \/ open = {}
                      /\ failedFast \/ active \subseteq closed
    BY DEF CleanExit
  <2>1. failedFast \/ (active \subseteq closed /\ adapter \in {"none", "closed"})
    BY DEF ServiceIsDown
  <2>2. written \subseteq file
    BY <2>1 DEF LogKept, NothingDelivered
  <2>3. timedOut \/ open = {}
    BY DEF PoolsClosed, NoPoolLost
  <2> QED BY <2>1, <2>2, <2>3
<1> QED BY <1>1, RInvHolds, PTL

\* The server uses the publisher as module EventBus says that it is used: every step of
\* the server is one of the bus or leaves it alone, and so what was proved of the bus
\* for any users holds for these.
THEOREM ServerUsesBus == RuntimeSpec => Init /\ [][Next]_busVars /\ []NoHandlingOnceClosed
<1>1. RuntimeInit => Init
  BY DEF RuntimeInit
<1>2. [RuntimeNext]_vars => [Next]_busVars
  BY BusStep DEF vars, busVars
<1>3. RInv => NoHandlingOnceClosed
  BY DEF IInv, ClosedAfterWait, NoHandlingOnceClosed, Deliveries
<1> QED BY <1>1, <1>2, <1>3, RInvHolds, PTL DEF RuntimeSpec

-----------------------------------------------------------------------------
(* A cache: the list and the entries.                                      *)

\* What a list holds after its operations, pair by pair.
LEMMA ListPairs ==
    ASSUME NEW r \in SUBSET (Keys \X Keys), NEW k \in Keys,
           NEW a \in Keys, NEW b \in Keys
    PROVE  /\ <<a, b>> \in PushFront(r, k)
              <=> \/ <<a, b>> \in r
                  \/ a = k /\ (b = k \/ <<b, b>> \in r)
           /\ <<a, b>> \in RemoveFrom(r, k)
              <=> <<a, b>> \in r /\ a # k /\ b # k
           /\ <<a, b>> \in MoveToFront(r, k)
              <=> \/ <<a, b>> \in r /\ a # k /\ b # k
                  \/ a = k /\ (b = k \/ <<b, b>> \in r)
  BY DEF PushFront, RemoveFrom, Without, MoveToFront, Listed

\* The operations keep a list a list of keys.
LEMMA ListTypes ==
    ASSUME NEW r \in SUBSET (Keys \X Keys), NEW k \in Keys
    PROVE  /\ PushFront(r, k) \in SUBSET (Keys \X Keys)
           /\ RemoveFrom(r, k) \in SUBSET (Keys \X Keys)
           /\ MoveToFront(r, k) \in SUBSET (Keys \X Keys)
  BY DEF PushFront, RemoveFrom, Without, MoveToFront, Listed

\* A new entry and one that is used are entries, used now.
LEMMA EntryType ==
    ASSUME NEW v \in Values, NEW x \in Nat, NEW n \in Nat, now \in Nat
    PROVE  /\ Entry(v, x, n) \in Entries
           /\ Entry(v, x, n).lastAccess = now
           /\ Entry(v, x, n).accessCount = n
           /\ Entry(v, x, n).value = v
           /\ Entry(v, x, n).expiry = x
  BY DEF Entries, Entry

\* The items of the heap are of the keys.
LEMMA ItemType ==
    ASSUME NEW k \in Keys, NEW e \in Entries
    PROVE  Item(k, e) \in HeapItems
  BY DEF Item, Entries, HeapItems

-----------------------------------------------------------------------------
(* A cache: type correctness.                                              *)

\* Every operation of inmemorycache.go keeps the state in its types.
LEMMA CacheTypeStep == CacheTypeOK /\ [CacheNext]_cacheVars => CacheTypeOK'
<1> SUFFICES ASSUME CacheTypeOK, [CacheNext]_cacheVars PROVE CacheTypeOK'
  OBVIOUS
<1> USE CacheAssumption DEF CacheTypeOK
<1>1. ASSUME NEW k \in Keys, NEW v \in Values, Set(k, v) PROVE CacheTypeOK'
  <2>0. now + TTL \in Nat
    OBVIOUS
  <2>1. CASE SetExisting(k, v)
    <3> DEFINE e == Entry(v, now + TTL, cache[k].accessCount + 1)
    <3>1. e \in Entries /\ Item(k, e) \in HeapItems
      <4>1. cache[k].accessCount + 1 \in Nat
        BY <2>1 DEF SetExisting, Entries
      <4> HIDE DEF CacheTypeOK
      <4> QED BY <2>0, <4>1, EntryType, ItemType DEF CacheTypeOK
    <3>2. lfuHeap' \in SUBSET HeapItems
      BY <2>1, <3>1 DEF SetExisting, HeapFixed, HeapWithout
    <3>3. accessOrder' \in SUBSET (Keys \X Keys)
      BY <2>1, ListTypes DEF SetExisting
    <3>4. cache' \in [Keys -> Entries \cup {Nothing}]
      BY <2>1, <3>1 DEF SetExisting
    <3> QED BY <1>1, <3>2, <3>3, <3>4 DEF Set
  <2>2. CASE SetNew(k, v)
    <3> DEFINE e == Entry(v, now + TTL, 1)
               r == PushFront(accessOrder, k)
               h == HeapFixed(lfuHeap, k, e)
    <3>1. e \in Entries /\ Item(k, e) \in HeapItems
      BY <2>0, EntryType, ItemType
    <3>2. h \in SUBSET HeapItems /\ r \in SUBSET (Keys \X Keys)
      BY <3>1, ListTypes DEF HeapFixed, HeapWithout
    <3>3. \A x \in Victims(r, h) : x \in Keys
      BY <3>2 DEF Victims, Back, Listed, HeapItems
    <3>4. lfuHeap' \in SUBSET HeapItems
      BY <2>2, <3>2 DEF SetNew, HeapWithout
    <3>5. accessOrder' \in SUBSET (Keys \X Keys)
      <4>1. \A x \in Keys : RemoveFrom(r, x) \in SUBSET (Keys \X Keys)
        BY <3>2, ListTypes
      <4> HIDE DEF r, h
      <4> QED BY <2>2, <3>2, <3>3, <4>1 DEF SetNew, r, h
    <3>6. cache' \in [Keys -> Entries \cup {Nothing}]
      BY <2>2, <3>1 DEF SetNew
    <3> QED BY <1>1, <3>4, <3>5, <3>6 DEF Set
  <2> QED BY <1>1, <2>1, <2>2 DEF Set
<1>2. ASSUME NEW k \in Keys, DeleteEntry(k)
      PROVE  /\ cache' \in [Keys -> Entries \cup {Nothing}]
             /\ accessOrder' \in SUBSET (Keys \X Keys)
             /\ lfuHeap' \in SUBSET HeapItems
  BY <1>2, ListTypes DEF DeleteEntry, HeapWithout
<1>3. ASSUME NEW k \in Keys, Get(k) PROVE CacheTypeOK'
  <2>1. CASE Hit(k)
    <3> DEFINE e == Used(cache[k])
    <3>1. e \in Entries /\ Item(k, e) \in HeapItems /\ e.value \in Values
      BY <2>1, EntryType, ItemType DEF Hit, Used, Entries
    <3>2. lfuHeap' \in SUBSET HeapItems
      BY <2>1, <3>1 DEF Hit, HeapFixed, HeapWithout
    <3>3. accessOrder' \in SUBSET (Keys \X Keys)
      BY <2>1, ListTypes DEF Hit
    <3>4. cache' \in [Keys -> Entries \cup {Nothing}]
      BY <2>1, <3>1 DEF Hit
    <3>5. last' \in [key : Keys, value : Values]
      BY <2>1, <3>1 DEF Hit
    <3> QED BY <1>3, <3>2, <3>3, <3>4, <3>5 DEF Get
  <2>2. CASE Miss(k)
    BY <1>3, <2>2 DEF Get, Miss
  <2>3. CASE MissExpired(k)
    BY <1>2, <1>3, <2>3 DEF Get, MissExpired
  <2> QED BY <1>3, <2>1, <2>2, <2>3 DEF Get
<1>4. ASSUME NEW k \in Keys, Delete(k) PROVE CacheTypeOK'
  BY <1>2, <1>4 DEF Delete
<1>5. CASE Clear
  BY <1>5 DEF Clear
<1>6. CASE CleanupExpired
  BY <1>6 DEF CleanupExpired, Without
<1>7. CASE Tick
  BY <1>7 DEF Tick
<1>8. CASE UNCHANGED cacheVars
  BY <1>8 DEF cacheVars
<1> QED BY <1>1, <1>3, <1>4, <1>5, <1>6, <1>7, <1>8 DEF CacheNext

\* The type invariant of the cache.
THEOREM CacheTypeCorrect == InMemoryCacheSpec => []CacheTypeOK
<1>1. CacheInit => CacheTypeOK
  BY CacheAssumption DEF CacheInit, CacheTypeOK, Policies
<1> QED BY <1>1, CacheTypeStep, PTL DEF InMemoryCacheSpec

-----------------------------------------------------------------------------
(* A cache: the map, the list and the heap.                                *)

\* No use is in the future.
Times == \A k \in Cached : cache[k].lastAccess <= now

\* Linked is inductive with Times: the key that is used goes to the front of
\* the list because its time is not before any other.
CacheInv == CacheTypeOK /\ Linked /\ Times

\* An entry is none of what Nothing stands for.
LEMMA EntryNotNone ==
    ASSUME NEW e \in Entries PROVE e # Nothing
  BY CacheAssumption DEF Entries

\* What using an entry does to the map and the list, in Set and in Get.
LEMMA UseKeepsList ==
    ASSUME CacheInv, NEW k \in Cached, NEW e \in Entries, e.lastAccess = now,
           cache' = [cache EXCEPT ![k] = e],
           accessOrder' = MoveToFront(accessOrder, k)
    PROVE  ListExact' /\ Cached' = Cached
<1> USE DEF CacheInv, CacheTypeOK, Linked
<1>1. k \in Keys /\ e # Nothing
  BY EntryNotNone DEF Cached
<1>2. Cached' = Cached
  BY <1>1 DEF Cached
<1>3. ASSUME NEW a \in Keys, NEW b \in Keys
      PROVE  <<a, b>> \in accessOrder'
             <=> \/ <<a, b>> \in accessOrder /\ a # k /\ b # k
                 \/ a = k /\ (b = k \/ <<b, b>> \in accessOrder)
  BY <1>1, <1>3, ListPairs
<1>4. accessOrder' \in SUBSET (Keys \X Keys)
  BY <1>1, ListTypes
<1>5. \A a \in Cached : <<a, a>> \in accessOrder
  BY DEF ListExact
<1>6. \A a, b \in Keys : <<a, b>> \in accessOrder => a \in Cached /\ b \in Cached
  BY DEF ListExact
<1>7. \A a \in Cached : cache[a] \in Entries /\ cache[a].lastAccess <= now /\ a \in Keys
  BY DEF Times, Cached
<1>8. accessOrder' \subseteq Cached \X Cached
  <2>1. \A a, b \in Keys : <<a, b>> \in accessOrder' => a \in Cached /\ b \in Cached
    BY <1>3, <1>6
  <2> QED BY <1>4, <2>1
<1>9. ASSUME NEW a \in Cached, NEW b \in Cached
      PROVE  /\ <<a, b>> \in accessOrder' \/ <<b, a>> \in accessOrder'
             /\ a # b => ~(<<a, b>> \in accessOrder' /\ <<b, a>> \in accessOrder')
             /\ <<a, b>> \in accessOrder' => cache'[a].lastAccess >= cache'[b].lastAccess
  <2>1. a \in Keys /\ b \in Keys
    BY <1>7
  <2>2. /\ <<a, b>> \in accessOrder' <=> \/ <<a, b>> \in accessOrder /\ a # k /\ b # k
                                        \/ a = k
        /\ <<b, a>> \in accessOrder' <=> \/ <<b, a>> \in accessOrder /\ a # k /\ b # k
                                        \/ b = k
    BY <1>3, <1>5, <2>1
  <2>3. /\ cache'[a] = IF a = k THEN e ELSE cache[a]
        /\ cache'[b] = IF b = k THEN e ELSE cache[b]
    BY <2>1
  <2>4. /\ <<a, b>> \in accessOrder \/ <<b, a>> \in accessOrder
        /\ a # b => ~(<<a, b>> \in accessOrder /\ <<b, a>> \in accessOrder)
        /\ <<a, b>> \in accessOrder => cache[a].lastAccess >= cache[b].lastAccess
    BY DEF ListExact
  <2>5. now \in Nat /\ cache[a].lastAccess <= now /\ cache[b].lastAccess <= now
    BY <1>7
  <2> HIDE DEF CacheInv
  <2>6. <<a, b>> \in accessOrder' => cache'[a].lastAccess >= cache'[b].lastAccess
    BY <2>2, <2>3, <2>4, <2>5
  <2> QED BY <2>2, <2>4, <2>6
<1> QED BY <1>2, <1>8, <1>9 DEF ListExact

\* What removing entries does to the map and the list, in every operation that
\* removes some.
LEMMA RemovalKeepsList ==
    ASSUME CacheInv, NEW gone \in SUBSET Keys,
           cache' = [k \in Keys |-> IF k \in gone THEN Nothing ELSE cache[k]],
           accessOrder' = Without(accessOrder, gone)
    PROVE  ListExact' /\ Cached' = Cached \ gone
<1> USE DEF CacheInv, CacheTypeOK, Linked
<1>1. Cached' = Cached \ gone
  BY DEF Cached
<1>2. accessOrder' \subseteq Cached' \X Cached'
  BY <1>1 DEF ListExact, Without, Cached
<1>3. ASSUME NEW a \in Cached', NEW b \in Cached'
      PROVE  /\ <<a, b>> \in accessOrder' <=> <<a, b>> \in accessOrder
             /\ <<b, a>> \in accessOrder' <=> <<b, a>> \in accessOrder
             /\ cache'[a] = cache[a] /\ cache'[b] = cache[b]
             /\ a \in Cached /\ b \in Cached
  BY <1>1, <1>3 DEF Without, Cached
<1> QED BY <1>1, <1>2, <1>3 DEF ListExact

\* The map c and the list r that Set has when it looks for an entry to evict.
LEMMA PushIsList ==
    ASSUME CacheInv, NEW k \in Keys, cache[k] = Nothing, NEW e \in Entries, e.lastAccess = now
    PROVE  LET c == [cache EXCEPT ![k] = e]
               r == PushFront(accessOrder, k)
               K == Cached \cup {k}
           IN  /\ r \subseteq K \X K
               /\ \A a, b \in K :
                     /\ <<a, b>> \in r \/ <<b, a>> \in r
                     /\ a # b => ~(<<a, b>> \in r /\ <<b, a>> \in r)
                     /\ <<a, b>> \in r => c[a].lastAccess >= c[b].lastAccess
<1> DEFINE c == [cache EXCEPT ![k] = e]
           r == PushFront(accessOrder, k)
           K == Cached \cup {k}
<1> USE DEF CacheInv, CacheTypeOK, Linked
<1>1. k \notin Cached
  BY DEF Cached
<1>2. \A a, b \in Keys : <<a, b>> \in accessOrder => a \in Cached /\ b \in Cached
  BY DEF ListExact
<1>3. \A a \in Cached : <<a, a>> \in accessOrder
  BY DEF ListExact
<1>4. \A a, b \in K : <<a, b>> \in r <=> \/ <<a, b>> \in accessOrder
                                       \/ a = k
  <2>1. accessOrder \in SUBSET (Keys \X Keys) /\ K \subseteq Keys
    BY DEF Cached
  <2>2. \A a, b \in Keys : <<a, b>> \in r <=>
           \/ <<a, b>> \in accessOrder
           \/ a = k /\ (b = k \/ <<b, b>> \in accessOrder)
    BY <2>1, ListPairs
  <2> QED
    BY <1>3, <2>1, <2>2
<1>5. \A a \in Cached : a \in Keys /\ cache[a].lastAccess <= now /\ now \in Nat
  BY DEF Times, Cached
<1>6. r \subseteq K \X K
  BY <1>2 DEF PushFront, Listed, ListExact
<1>7. ASSUME NEW a \in K, NEW b \in K
      PROVE  /\ <<a, b>> \in r \/ <<b, a>> \in r
             /\ a # b => ~(<<a, b>> \in r /\ <<b, a>> \in r)
             /\ <<a, b>> \in r => c[a].lastAccess >= c[b].lastAccess
  <2>1. /\ <<a, b>> \in r <=> <<a, b>> \in accessOrder \/ a = k
        /\ <<b, a>> \in r <=> <<b, a>> \in accessOrder \/ b = k
    BY <1>4, <1>7
  <2>2. /\ <<a, b>> \in accessOrder => a # k /\ b # k
        /\ <<b, a>> \in accessOrder => a # k /\ b # k
    BY <1>1, <1>2, <1>5, <1>7
  <2>3. a # k /\ b # k =>
          /\ <<a, b>> \in accessOrder \/ <<b, a>> \in accessOrder
          /\ a # b => ~(<<a, b>> \in accessOrder /\ <<b, a>> \in accessOrder)
          /\ <<a, b>> \in accessOrder => cache[a].lastAccess >= cache[b].lastAccess
    BY <1>7 DEF ListExact
  <2>4. /\ c[a] = IF a = k THEN e ELSE cache[a]
        /\ c[b] = IF b = k THEN e ELSE cache[b]
    BY <1>5, <1>7
  <2>5. (b # k => cache[b].lastAccess <= now) /\ now \in Nat
    BY <1>5, <1>7
  <2> HIDE DEF CacheInv, c, r, K
  <2>6. <<a, b>> \in r => c[a].lastAccess >= c[b].lastAccess
    BY <2>1, <2>2, <2>3, <2>4, <2>5
  <2> QED BY <2>1, <2>2, <2>3, <2>6
<1> HIDE DEF c, r, K
<1>8. \A a, b \in K :
         /\ <<a, b>> \in r \/ <<b, a>> \in r
         /\ a # b => ~(<<a, b>> \in r /\ <<b, a>> \in r)
         /\ <<a, b>> \in r => c[a].lastAccess >= c[b].lastAccess
  BY <1>7
<1> QED BY <1>6, <1>8 DEF c, r, K

\* The heap after the item of a key was pushed or fixed.
LEMMA FixedHeap ==
    ASSUME CacheInv, NEW k \in Keys, NEW e \in Entries
    PROVE  HeapFixed(lfuHeap, k, e)
           = IF policy = "LFU"
             THEN {Item(a, [cache EXCEPT ![k] = e][a]) : a \in Cached \cup {k}}
             ELSE {}
<1> USE DEF CacheInv, CacheTypeOK, Linked
<1>1. CASE policy = "LFU"
  <2> DEFINE c == [cache EXCEPT ![k] = e]
  <2>1. lfuHeap = {Item(a, cache[a]) : a \in Cached}
    BY <1>1 DEF HeapExact
  <2>2. HeapWithout(lfuHeap, k) = {Item(a, cache[a]) : a \in Cached \ {k}}
    BY <2>1 DEF HeapWithout, Item
  <2>3. \A a \in Cached \ {k} : c[a] = cache[a]
    BY DEF Cached
  <2>4. c[k] = e
    OBVIOUS
  <2> HIDE DEF c
  <2>5. HeapWithout(lfuHeap, k) \cup {Item(k, e)} = {Item(a, c[a]) : a \in Cached \cup {k}}
    BY <2>2, <2>3, <2>4
  <2> QED BY <1>1, <2>5 DEF HeapFixed, c
<1>2. CASE policy # "LFU"
  BY <1>2 DEF HeapFixed, HeapExact
<1> QED BY <1>1, <1>2

\* Entries that are removed: the map, the list and the heap lose the same keys.
LEMMA RemovalStep ==
    ASSUME CacheInv, CacheTypeOK', NEW gone \in SUBSET Keys,
           cache' = [k \in Keys |-> IF k \in gone THEN Nothing ELSE cache[k]],
           accessOrder' = Without(accessOrder, gone),
           lfuHeap' = {i \in lfuHeap : i.key \notin gone},
           UNCHANGED <<policy, size, now>>
    PROVE  CacheInv'
<1>1. ListExact' /\ Cached' = Cached \ gone
  BY RemovalKeepsList
<1> USE DEF CacheInv, CacheTypeOK, Linked
<1>2. HeapExact'
  <2>1. CASE policy = "LFU"
    <3>1. lfuHeap = {Item(k, cache[k]) : k \in Cached}
      BY <2>1 DEF HeapExact
    <3>2. lfuHeap' = {Item(k, cache[k]) : k \in Cached \ gone}
      BY <3>1 DEF Item
    <3>3. \A k \in Cached \ gone : cache'[k] = cache[k]
      BY DEF Cached
    <3>4. {Item(k, cache[k]) : k \in Cached \ gone} = {Item(k, cache'[k]) : k \in Cached \ gone}
      BY <3>3
    <3>5. lfuHeap' = {Item(k, cache'[k]) : k \in Cached'}
      BY <1>1, <3>2, <3>4
    <3> QED BY <2>1, <3>5 DEF HeapExact, Item
  <2>2. CASE policy # "LFU"
    BY <2>2 DEF HeapExact
  <2> QED BY <2>1, <2>2
<1>3. Cardinality(Cached') <= size'
  <2>1. IsFiniteSet(Cached)
    BY CacheAssumption, FS_Subset DEF Cached
  <2>2. Cardinality(Cached') <= Cardinality(Cached)
    BY <1>1, <2>1, FS_Subset
  <2>3. Cardinality(Cached) \in Nat /\ Cardinality(Cached') \in Nat /\ size \in Nat
    BY <1>1, <2>1, FS_Subset, FS_CardinalityType, CacheAssumption
  <2> QED BY <2>2, <2>3
<1>4. Times'
  BY <1>1 DEF Times, Cached
<1> QED BY <1>1, <1>2, <1>3, <1>4

\* An entry that is used, by Get or by Set.
LEMMA UseStep ==
    ASSUME CacheInv, CacheTypeOK', NEW k \in Cached, NEW e \in Entries, e.lastAccess = now,
           cache' = [cache EXCEPT ![k] = e],
           accessOrder' = MoveToFront(accessOrder, k),
           lfuHeap' = HeapFixed(lfuHeap, k, e),
           UNCHANGED <<policy, size, now>>
    PROVE  CacheInv'
<1>1. ListExact' /\ Cached' = Cached /\ k \in Keys
  BY UseKeepsList DEF Cached
<1>2. HeapExact'
  <2>1. lfuHeap' = IF policy = "LFU"
                   THEN {Item(a, [cache EXCEPT ![k] = e][a]) : a \in Cached \cup {k}}
                   ELSE {}
    BY <1>1, FixedHeap
  <2>2. Cached \cup {k} = Cached'
    BY <1>1
  <2>3. lfuHeap' = IF policy' = "LFU" THEN {Item(a, cache'[a]) : a \in Cached'} ELSE {}
    BY <2>1, <2>2
  <2> QED BY <2>3 DEF HeapExact, Item
<1>3. Times'
  <2>1. ASSUME NEW a \in Cached PROVE cache'[a].lastAccess <= now
    BY <1>1, <2>1 DEF CacheInv, CacheTypeOK, Times, Cached
  <2> QED BY <1>1, <2>1 DEF Times
<1> QED BY <1>1, <1>2, <1>3 DEF CacheInv, Linked

\* The entry that evict takes out is one of those there are.
LEMMA VictimListed ==
    ASSUME CacheInv, NEW k \in Keys, cache[k] = Nothing, NEW e \in Entries, e.lastAccess = now,
           NEW x \in Victims(PushFront(accessOrder, k), HeapFixed(lfuHeap, k, e))
    PROVE  x \in Cached \cup {k}
<1>1. CASE policy = "LFU"
  <2>1. HeapFixed(lfuHeap, k, e) = {Item(a, [cache EXCEPT ![k] = e][a]) : a \in Cached \cup {k}}
    BY <1>1, FixedHeap
  <2>2. \A i \in HeapFixed(lfuHeap, k, e) : i.key \in Cached \cup {k}
    BY <2>1 DEF Item
  <2> QED BY <1>1, <2>2 DEF Victims
<1>2. CASE policy # "LFU"
  <2>1. PushFront(accessOrder, k) \subseteq (Cached \cup {k}) \X (Cached \cup {k})
    BY PushIsList
  <2> QED BY <1>2, <2>1 DEF Victims, Back, Listed
<1> QED BY <1>1, <1>2

\* A new entry, and the eviction that may follow.
LEMMA NewStep ==
    ASSUME CacheInv, CacheTypeOK', NEW k \in Keys, NEW v \in Values, SetNew(k, v),
           UNCHANGED <<policy, size, now>>
    PROVE  CacheInv'
<1> DEFINE e == Entry(v, now + TTL, 1)
           c == [cache EXCEPT ![k] = e]
           r == PushFront(accessOrder, k)
           h == HeapFixed(lfuHeap, k, e)
           K == Cached \cup {k}
<1>0. now \in Nat /\ now + TTL \in Nat /\ cache \in [Keys -> Entries \cup {Nothing}]
  BY CacheAssumption DEF CacheInv, CacheTypeOK
<1>1. e \in Entries /\ e.lastAccess = now /\ e # Nothing
  BY <1>0, EntryType, EntryNotNone
<1>2. cache[k] = Nothing /\ k \notin Cached
  BY DEF SetNew, Cached
<1>3. /\ r \subseteq K \X K
      /\ \A a, b \in K :
            /\ <<a, b>> \in r \/ <<b, a>> \in r
            /\ a # b => ~(<<a, b>> \in r /\ <<b, a>> \in r)
            /\ <<a, b>> \in r => c[a].lastAccess >= c[b].lastAccess
  BY <1>1, <1>2, PushIsList
<1>4. h = IF policy = "LFU" THEN {Item(a, c[a]) : a \in K} ELSE {}
  BY <1>1, FixedHeap
<1>5. \A a \in K : a \in Keys /\ c[a] # Nothing /\ c[a].lastAccess <= now
  BY <1>0, <1>1 DEF CacheInv, Times, Cached
<1>6. \A a \in Keys \ K : c[a] = Nothing
  BY <1>0 DEF Cached
<1>7. IsFiniteSet(Cached) /\ IsFiniteSet(K) /\ Cardinality(Cached) \in Nat /\ size \in Nat
  BY CacheAssumption, FS_Subset, FS_AddElement, FS_CardinalityType DEF Cached, CacheInv, CacheTypeOK
<1>8. Cardinality(Cached) <= size /\ Cardinality(K) = Cardinality(Cached) + 1
  BY <1>2, <1>7, FS_AddElement DEF CacheInv, Linked
<1>9. DOMAIN c = Keys
  BY <1>0
<1>10. SetNew(k, v) <=>
         /\ cache[k] = Nothing
         /\ IF Cardinality(K) > size
            THEN \E x \in Victims(r, h) : /\ cache' = [c EXCEPT ![x] = Nothing]
                                         /\ accessOrder' = RemoveFrom(r, x)
                                         /\ lfuHeap' = HeapWithout(h, x)
            ELSE cache' = c /\ accessOrder' = r /\ lfuHeap' = h
  BY DEF SetNew
<1>11. \A x \in Victims(r, h) : x \in K
  BY <1>1, <1>2, VictimListed
<1> HIDE DEF e, c, r, h, K
<1>12. CASE Cardinality(K) > size
  <2>1. PICK x \in Victims(r, h) : /\ cache' = [c EXCEPT ![x] = Nothing]
                                  /\ accessOrder' = RemoveFrom(r, x)
                                  /\ lfuHeap' = HeapWithout(h, x)
    BY <1>10, <1>12
  <2>2. x \in K /\ x \in Keys
    BY <1>5, <1>11
  <2>3. Cached' = K \ {x}
    BY <1>5, <1>6, <1>9, <2>1, <2>2 DEF Cached
  <2>4. \A a \in K \ {x} : cache'[a] = c[a]
    BY <1>5, <1>9, <2>1
  <2>5. ListExact'
    <3>1. \A a, b \in K \ {x} : <<a, b>> \in accessOrder' <=> <<a, b>> \in r
      BY <1>5, <2>1 DEF RemoveFrom, Without
    <3>2. accessOrder' \subseteq (K \ {x}) \X (K \ {x})
      BY <1>3, <2>1 DEF RemoveFrom, Without
    <3> QED BY <1>3, <2>3, <2>4, <3>1, <3>2 DEF ListExact
  <2>6. HeapExact'
    <3>1. CASE policy = "LFU"
      <4>1. lfuHeap' = {Item(a, c[a]) : a \in K \ {x}}
        BY <1>4, <2>1, <3>1 DEF HeapWithout, Item
      <4>2. {Item(a, c[a]) : a \in K \ {x}} = {Item(a, cache'[a]) : a \in K \ {x}}
        BY <2>4
      <4>3. lfuHeap' = {Item(a, cache'[a]) : a \in Cached'}
        BY <2>3, <4>1, <4>2
      <4> QED BY <3>1, <4>3 DEF HeapExact, Item
    <3>2. CASE policy # "LFU"
      BY <1>4, <2>1, <3>2 DEF HeapExact, HeapWithout
    <3> QED BY <3>1, <3>2
  <2>7. Cardinality(Cached') <= size'
    <3>1. Cardinality(Cached') = Cardinality(K) - 1
      BY <1>7, <2>2, <2>3, FS_RemoveElement
    <3> QED BY <1>7, <1>8, <3>1
  <2>8. Times'
    BY <1>5, <2>3, <2>4 DEF Times
  <2> QED BY <2>5, <2>6, <2>7, <2>8 DEF CacheInv, Linked
<1>13. CASE ~(Cardinality(K) > size)
  <2>1. cache' = c /\ accessOrder' = r /\ lfuHeap' = h
    BY <1>10, <1>13
  <2>2. Cached' = K
    BY <1>5, <1>6, <2>1 DEF Cached
  <2>3. ListExact'
    BY <1>3, <2>1, <2>2 DEF ListExact
  <2>4. HeapExact'
    <3>1. lfuHeap' = IF policy' = "LFU" THEN {Item(a, cache'[a]) : a \in Cached'} ELSE {}
      BY <1>4, <2>1, <2>2
    <3> QED BY <3>1 DEF HeapExact, Item
  <2>5. Cardinality(Cached') <= size'
    BY <1>7, <1>8, <1>13, <2>2
  <2>6. Times'
    BY <1>5, <2>1, <2>2 DEF Times
  <2> QED BY <2>3, <2>4, <2>5, <2>6 DEF CacheInv, Linked
<1> QED BY <1>12, <1>13

\* Deleting one entry, as deleteEntry does it.
LEMMA DeleteStep ==
    ASSUME CacheInv, CacheTypeOK', NEW k \in Keys, DeleteEntry(k), UNCHANGED <<policy, size, now>>
    PROVE  CacheInv'
<1>1. cache' = [l \in Keys |-> IF l \in {k} THEN Nothing ELSE cache[l]]
  BY DEF DeleteEntry, CacheInv, CacheTypeOK
<1>2. accessOrder' = Without(accessOrder, {k})
  BY DEF DeleteEntry, RemoveFrom
<1>3. lfuHeap' = {i \in lfuHeap : i.key \notin {k}}
  BY DEF DeleteEntry, HeapWithout, CacheInv, Linked, HeapExact
<1> QED BY <1>1, <1>2, <1>3, RemovalStep

\* Every operation of inmemorycache.go keeps the map, the list and the heap
\* about the same entries.
LEMMA CacheInvStep == CacheInv /\ [CacheNext]_cacheVars => CacheInv'
<1> SUFFICES ASSUME CacheInv, [CacheNext]_cacheVars PROVE CacheInv'
  OBVIOUS
<1>0. CacheTypeOK'
  BY CacheTypeStep DEF CacheInv
<1>1. ASSUME NEW k \in Keys, NEW v \in Values, Set(k, v) PROVE CacheInv'
  <2>1. CASE SetExisting(k, v)
    <3> DEFINE e == Entry(v, now + TTL, cache[k].accessCount + 1)
    <3>1. k \in Cached /\ cache[k] \in Entries /\ now \in Nat
      BY <2>1 DEF SetExisting, Cached, CacheInv, CacheTypeOK
    <3>2. now + TTL \in Nat /\ cache[k].accessCount + 1 \in Nat
      BY <3>1, CacheAssumption DEF Entries
    <3>3. e \in Entries /\ e.lastAccess = now
      BY <3>1, <3>2, EntryType
    <3> QED BY <1>0, <1>1, <2>1, <3>1, <3>3, UseStep DEF SetExisting, Set
  <2>2. CASE SetNew(k, v)
    BY <1>0, <1>1, <2>2, NewStep DEF Set
  <2> QED BY <1>1, <2>1, <2>2 DEF Set
<1>2. ASSUME NEW k \in Keys, Get(k) PROVE CacheInv'
  <2>1. CASE Hit(k)
    <3>1. k \in Cached /\ cache[k] \in Entries /\ now \in Nat
      BY <2>1 DEF Hit, Cached, CacheInv, CacheTypeOK
    <3>2. Used(cache[k]) \in Entries /\ Used(cache[k]).lastAccess = now
      BY <3>1, EntryType DEF Used, Entries
    <3> QED BY <1>0, <1>2, <2>1, <3>1, <3>2, UseStep DEF Hit, Get
  <2>2. CASE Miss(k)
    BY <1>0, <1>2, <2>2 DEF Miss, Get, CacheInv, Linked, ListExact, HeapExact, Times, Cached
  <2>3. CASE MissExpired(k)
    BY <1>0, <1>2, <2>3, DeleteStep DEF MissExpired, Get
  <2> QED BY <1>2, <2>1, <2>2, <2>3 DEF Get
<1>3. ASSUME NEW k \in Keys, Delete(k) PROVE CacheInv'
  <2>1. CASE cache[k] # Nothing
    BY <1>0, <1>3, <2>1, DeleteStep DEF Delete
  <2>2. CASE cache[k] = Nothing
    BY <1>0, <1>3, <2>2 DEF Delete, CacheInv, Linked, ListExact, HeapExact, Times, Cached
  <2> QED BY <2>1, <2>2
<1>4. CASE Clear
  <2>1. cache' = [k \in Keys |-> IF k \in Keys THEN Nothing ELSE cache[k]]
    BY <1>4 DEF Clear
  <2>2. accessOrder' = Without(accessOrder, Keys)
    BY <1>4 DEF Clear, Without
  <2>3. lfuHeap' = {i \in lfuHeap : i.key \notin Keys}
    BY <1>4 DEF Clear, CacheInv, CacheTypeOK, HeapItems
  <2> QED BY <1>0, <1>4, <2>1, <2>2, <2>3, RemovalStep DEF Clear
<1>5. CASE CleanupExpired
  <2> DEFINE gone == {k \in Cached : Expired(k)}
  <2>1. gone \in SUBSET Keys
    BY DEF Cached
  <2>2. /\ cache' = [k \in Keys |-> IF k \in gone THEN Nothing ELSE cache[k]]
        /\ accessOrder' = Without(accessOrder, gone)
        /\ lfuHeap' = {i \in lfuHeap : i.key \notin gone}
        /\ UNCHANGED <<policy, size, now>>
    BY <1>5 DEF CleanupExpired
  <2> HIDE DEF gone
  <2> QED BY <1>0, <2>1, <2>2, RemovalStep
<1>6. CASE Tick
  <2>1. Linked'
    BY <1>6 DEF Tick, CacheInv, Linked, ListExact, HeapExact, Cached
  <2>2. Times'
    BY <1>6 DEF Tick, CacheInv, CacheTypeOK, Times, Cached, Entries
  <2> QED BY <1>0, <2>1, <2>2 DEF CacheInv
<1>7. CASE UNCHANGED cacheVars
  BY <1>0, <1>7 DEF cacheVars, CacheInv, Linked, ListExact, HeapExact, Times, Cached
<1> QED BY <1>1, <1>2, <1>3, <1>4, <1>5, <1>6, <1>7 DEF CacheNext

LEMMA InvInit == CacheInit => CacheInv
<1> SUFFICES ASSUME CacheInit PROVE CacheInv
  OBVIOUS
<1>1. CacheTypeOK
  BY CacheAssumption DEF CacheInit, CacheTypeOK, Policies
<1>2. Cached = {}
  BY DEF CacheInit, Cached
<1>3. Cardinality(Cached) <= size
  BY <1>1, <1>2, FS_EmptySet, CacheAssumption DEF CacheTypeOK
<1>4. ListExact /\ HeapExact /\ Times
  BY <1>2 DEF CacheInit, ListExact, HeapExact, Times
<1> QED BY <1>1, <1>3, <1>4 DEF CacheInv, Linked

\* The map, the list and the heap are always about the same entries, and they
\* are never more than the configured size.
THEOREM LinkedAlways == InMemoryCacheSpec => []Linked
<1>1. CacheInv => Linked
  BY DEF CacheInv
<1> QED BY <1>1, InvInit, CacheInvStep, PTL DEF InMemoryCacheSpec

-----------------------------------------------------------------------------
(* A cache: eviction.                                                      *)

\* What Set evicts to make room for a new entry.
LEMMA EvictionStep ==
    ASSUME CacheInv, NEW k \in Keys, NEW v \in Values, SetNew(k, v)
    PROVE  /\ \A gone, kept \in Keys :
                 cache[gone] # Nothing /\ cache'[gone] = Nothing /\ cache'[kept] # Nothing
                 => NotBetter(cache[gone], cache'[kept])
           /\ policy = "LRU" /\ size > 0 => cache'[k] # Nothing
<1> DEFINE e == Entry(v, now + TTL, 1)
           c == [cache EXCEPT ![k] = e]
           r == PushFront(accessOrder, k)
           h == HeapFixed(lfuHeap, k, e)
           K == Cached \cup {k}
<1>0. now \in Nat /\ now + TTL \in Nat /\ cache \in [Keys -> Entries \cup {Nothing}]
  BY CacheAssumption DEF CacheInv, CacheTypeOK
<1>1. e \in Entries /\ e.lastAccess = now /\ e # Nothing
  BY <1>0, EntryType, EntryNotNone
<1>2. cache[k] = Nothing /\ k \notin Cached
  BY DEF SetNew, Cached
<1>3. /\ r \subseteq K \X K
      /\ \A a, b \in K :
            /\ <<a, b>> \in r \/ <<b, a>> \in r
            /\ a # b => ~(<<a, b>> \in r /\ <<b, a>> \in r)
            /\ <<a, b>> \in r => c[a].lastAccess >= c[b].lastAccess
  BY <1>1, <1>2, PushIsList
<1>4. h = IF policy = "LFU" THEN {Item(a, c[a]) : a \in K} ELSE {}
  BY <1>1, FixedHeap
<1>5. /\ \A a \in K : a \in Keys /\ c[a] \in Entries /\ c[a] # Nothing
      /\ \A a \in Keys \ K : c[a] = Nothing
      /\ \A a \in Keys : a # k => c[a] = cache[a]
      /\ c \in [Keys -> Entries \cup {Nothing}]
  BY <1>0, <1>1 DEF Cached
<1>6. IF Cardinality(K) > size
      THEN \E x \in Victims(r, h) : cache' = [c EXCEPT ![x] = Nothing]
      ELSE cache' = c
  BY DEF SetNew
<1>7. \A x \in Victims(r, h) : x \in K
  BY <1>1, <1>2, VictimListed
<1>8. \A a \in Cached : <<k, a>> \in r
  BY ListPairs DEF CacheInv, CacheTypeOK, Linked, ListExact, Cached
<1>9. IsFiniteSet(Cached) /\ Cardinality(Cached) \in Nat /\ size \in Nat
      /\ Cardinality(K) = Cardinality(Cached) + 1
  BY <1>2, CacheAssumption, FS_Subset, FS_AddElement, FS_CardinalityType
     DEF Cached, CacheInv, CacheTypeOK
<1>10. \A a \in Cached : a \in K
  OBVIOUS
<1>11. k \in K
  OBVIOUS
<1> HIDE DEF e, c, r, h, K
<1>12. CASE ~(Cardinality(K) > size)
  BY <1>2, <1>5, <1>6, <1>11, <1>12
<1>13. CASE Cardinality(K) > size
  <2>1. PICK x \in Victims(r, h) : cache' = [c EXCEPT ![x] = Nothing]
    BY <1>6, <1>13
  <2>2. x \in K /\ x \in Keys
    BY <1>5, <1>7
  <2>3. ASSUME NEW gone \in Keys, NEW kept \in Keys,
               cache[gone] # Nothing, cache'[gone] = Nothing, cache'[kept] # Nothing
        PROVE  NotBetter(cache[gone], cache'[kept])
    <3>1. gone = x /\ cache[gone] = c[x]
      BY <1>2, <1>5, <2>1, <2>2, <2>3 DEF Cached
    <3>2. kept \in K /\ kept # x /\ cache'[kept] = c[kept]
      BY <1>5, <2>1, <2>2, <2>3
    <3>3. CASE policy = "LFU"
      <4>1. PICK i \in h : i.key = x /\ \A j \in h : ~Less(j, i)
        BY <3>3 DEF Victims
      <4>2. i = Item(x, c[x])
        BY <1>4, <3>3, <4>1 DEF Item
      <4>3. Item(kept, c[kept]) \in h
        BY <1>4, <3>2, <3>3
      <4>4. ~Less(Item(kept, c[kept]), Item(x, c[x]))
        BY <4>1, <4>2, <4>3
      <4>5. ~Less(c[kept], c[x])
        BY <4>4 DEF Less, Item
      <4> QED BY <3>1, <3>2, <3>3, <4>5 DEF NotBetter
    <3>4. CASE policy # "LFU"
      <4>1. x \in Back(r)
        BY <3>4 DEF Victims
      <4>2. <<kept, kept>> \in r /\ kept \in Keys
        BY <1>3, <3>2
      <4>3. <<kept, x>> \in r
        BY <4>1, <4>2 DEF Back, Listed
      <4>4. c[kept].lastAccess >= c[x].lastAccess
        BY <1>3, <2>2, <3>2, <4>3
      <4>5. c[kept].lastAccess \in Nat /\ c[x].lastAccess \in Nat
        BY <1>5, <2>2, <3>2 DEF Entries
      <4> QED BY <3>1, <3>2, <3>4, <4>4, <4>5 DEF NotBetter
    <3> QED BY <3>3, <3>4
  <2>4. ASSUME policy = "LRU", size > 0 PROVE cache'[k] # Nothing
    <3>1. Cached # {}
      BY <1>9, <1>13, <2>4, FS_EmptySet
    <3>2. PICK a \in Cached : a \in K /\ a # k
      BY <1>2, <1>10, <3>1
    <3>3. <<k, a>> \in r /\ ~(<<a, k>> \in r)
      BY <1>3, <1>8, <1>11, <3>2
    <3>4. <<a, a>> \in r /\ a \in Keys
      BY <1>3, <1>5, <3>2
    <3>5. k \notin Back(r)
      BY <3>3, <3>4 DEF Back, Listed
    <3>6. x # k
      BY <2>4, <3>5 DEF Victims
    <3> QED BY <1>5, <1>11, <2>1, <3>6
  <2> QED BY <2>3, <2>4
<1> QED BY <1>12, <1>13

\* Eviction only ever takes the entry that was used the longest ago, or one of
\* those that were used the least.
THEOREM EvictionFair == InMemoryCacheSpec => EvictsLeastUsed
<1>1. ASSUME CacheInv, NEW k \in Keys, NEW v \in Values, Set(k, v)
      PROVE  /\ \A gone, kept \in Keys :
                   cache[gone] # Nothing /\ cache'[gone] = Nothing /\ cache'[kept] # Nothing
                   => NotBetter(cache[gone], cache'[kept])
             /\ policy = "LRU" /\ size > 0 => cache'[k] # Nothing
  <2>1. CASE SetExisting(k, v)
    <3>1. Entry(v, now + TTL, cache[k].accessCount + 1) # Nothing
      <4>1. now \in Nat /\ now + TTL \in Nat /\ cache[k].accessCount + 1 \in Nat
        BY <1>1, <2>1, CacheAssumption DEF SetExisting, CacheInv, CacheTypeOK, Entries
      <4> QED BY <4>1, EntryType, EntryNotNone
    <3> QED BY <1>1, <2>1, <3>1 DEF SetExisting, CacheInv, CacheTypeOK
  <2>2. CASE SetNew(k, v)
    BY <1>1, <2>2, EvictionStep
  <2> QED BY <1>1, <2>1, <2>2 DEF Set
<1>2. CacheInv /\ [CacheNext]_cacheVars =>
        [\A k \in Keys, v \in Values : Set(k, v) =>
           /\ \A gone, kept \in Keys :
                 cache[gone] # Nothing /\ cache'[gone] = Nothing /\ cache'[kept] # Nothing
                 => NotBetter(cache[gone], cache'[kept])
           /\ policy = "LRU" /\ size > 0 => cache'[k] # Nothing]_cacheVars
  BY <1>1
<1> QED BY <1>2, InvInit, CacheInvStep, PTL DEF InMemoryCacheSpec, EvictsLeastUsed

-----------------------------------------------------------------------------
(* A cache implements CacheSpec.                                           *)

Known == [k \in Keys |-> Cell(cache[k])]

LEMMA KnownType == CacheTypeOK => Known \in [Keys -> [value : Values, expiry : Nat] \cup {Nothing}]
  BY DEF CacheTypeOK, Known, Cell, Entries

\* What a cell says of an entry.
LEMMA CellOf ==
    ASSUME CacheTypeOK, NEW k \in Keys
    PROVE  /\ Known[k] = Nothing <=> cache[k] = Nothing
           /\ cache[k] # Nothing => Known[k].value = cache[k].value /\ Known[k].expiry = cache[k].expiry
<1>1. CASE cache[k] = Nothing
  BY <1>1 DEF Known, Cell
<1>2. CASE cache[k] # Nothing
  <2>1. [value |-> cache[k].value, expiry |-> cache[k].expiry] \in [value : Values, expiry : Nat]
    BY <1>2 DEF CacheTypeOK, Entries
  <2> QED BY <1>2, <2>1, CacheAssumption DEF Known, Cell
<1> QED BY <1>1, <1>2

\* An operation that learns nothing is one that forgets.
LEMMA ForgetsWhat ==
    ASSUME CacheTypeOK, CacheTypeOK', NEW k \in Keys,
           cache'[k] = Nothing \/ (cache[k] # Nothing /\ cache'[k] # Nothing
                                /\ cache'[k].value = cache[k].value
                                /\ cache'[k].expiry = cache[k].expiry)
    PROVE  Known'[k] \in {Known[k], Nothing}
  BY DEF Known, Cell

\* Get, Set, Delete, Clear and the cleanup are operations of the abstract cache.
LEMMA RefinementStep == CacheInv /\ CacheInv' /\ [CacheNext]_cacheVars => [Abstract!Next]_(Abstract!specVars)
<1> SUFFICES ASSUME CacheInv, CacheInv', [CacheNext]_cacheVars PROVE [Abstract!Next]_(Abstract!specVars)
  OBVIOUS
<1>0. CacheTypeOK /\ CacheTypeOK' /\ Known' \in [Keys -> [value : Values, expiry : Nat] \cup {Nothing}]
  <2>1. CacheTypeOK /\ CacheTypeOK'
    BY DEF CacheInv
  <2>2. CacheTypeOK' => Known' \in [Keys -> [value : Values, expiry : Nat] \cup {Nothing}]
    BY DEF CacheTypeOK, Known, Cell, Entries
  <2> QED BY <2>1, <2>2
<1>1. ASSUME NEW k \in Keys, NEW v \in Values, Set(k, v) PROVE Abstract!Set(k, v)
  <2> DEFINE cell == [value |-> v, expiry |-> now + TTL]
  <2>0. now + TTL \in Nat /\ now \in Nat
    BY <1>0, CacheAssumption DEF CacheTypeOK
  <2>1. Known'[k] \in {cell, Nothing}
    <3>1. CASE SetExisting(k, v)
      BY <1>0, <3>1 DEF SetExisting, Known, Cell, Entry, CacheTypeOK
    <3>2. CASE SetNew(k, v)
      BY <1>0, <3>2 DEF SetNew, Known, Cell, Entry, CacheTypeOK
    <3> QED BY <1>1, <3>1, <3>2 DEF Set
  <2>2. \A l \in Keys \ {k} : Known'[l] \in {Known[l], Nothing}
    <3>1. CASE SetExisting(k, v)
      BY <1>0, <3>1 DEF SetExisting, Known, CacheTypeOK
    <3>2. CASE SetNew(k, v)
      BY <1>0, <3>2 DEF SetNew, Known, Cell, CacheTypeOK
    <3> QED BY <1>1, <3>1, <3>2 DEF Set
  <2>3. UNCHANGED now /\ last' = [key |-> k, value |-> v]
    BY <1>1 DEF Set
  <2>4. Known' = [l \in Keys |-> Cell(cache[l])]' /\ Known = [l \in Keys |-> Cell(cache[l])]
    BY DEF Known
  <2> HIDE DEF Known
  <2> QED BY <1>0, <2>1, <2>2, <2>3, <2>4 DEF Abstract!Set
<1>2. ASSUME NEW k \in Keys, Get(k) PROVE Abstract!Get(k)
  <2>1. CASE Hit(k)
    <3>1. cache[k] \in Entries /\ now \in Nat
      BY <1>0, <2>1 DEF Hit, CacheTypeOK
    <3>2. /\ Used(cache[k]).value = cache[k].value
          /\ Used(cache[k]).expiry = cache[k].expiry
          /\ Used(cache[k]) # Nothing
      <4>1. /\ cache[k].value \in Values /\ cache[k].expiry \in Nat
            /\ cache[k].lastAccess \in Nat /\ cache[k].accessCount \in Nat
        BY <3>1 DEF Entries
      <4>2. Entry(cache[k].value, cache[k].expiry, cache[k].accessCount + 1) \in Entries
        BY <3>1, <4>1 DEF Entry, Entries
      <4> QED
        BY <4>2, EntryNotNone DEF Used, Entry
    <3>3. \A l \in Keys : Known'[l] \in {Known[l], Nothing}
      BY <1>0, <2>1, <3>2 DEF Hit, Known, Cell, CacheTypeOK
    <3>4. Known[k] # Nothing /\ Known[k].value = cache[k].value /\ Known[k].expiry = cache[k].expiry
      BY <1>0, <2>1, CellOf DEF Hit
    <3>5. now <= Known[k].expiry
      BY <2>1, <3>1, <3>4 DEF Hit, Expired, Entries
    <3>6. last' = [key |-> k, value |-> Known[k].value]
      BY <2>1, <3>2, <3>4 DEF Hit
    <3> QED BY <1>0, <1>2, <3>3, <3>4, <3>5, <3>6
            DEF Get, Known, Abstract!Get, Abstract!Forgets
  <2>2. CASE Miss(k) \/ MissExpired(k)
    <3>1. \A l \in Keys : Known'[l] \in {Known[l], Nothing}
      BY <1>0, <2>2 DEF Miss, MissExpired, DeleteEntry, Known, Cell, CacheTypeOK
    <3>2. last' = Nothing
      BY <2>2 DEF Miss, MissExpired
    <3> QED BY <1>0, <1>2, <3>1, <3>2 DEF Get, Known, Abstract!Get, Abstract!Forgets
  <2> QED BY <1>2, <2>1, <2>2 DEF Get
<1>3. ASSUME NEW k \in Keys, Delete(k) PROVE Abstract!Delete(k)
  <2>1. Known' = [Known EXCEPT ![k] = Nothing]
    BY <1>0, <1>3 DEF Delete, DeleteEntry, Known, Cell, CacheTypeOK
  <2> QED BY <1>3, <2>1 DEF Delete, Known, Abstract!Delete
<1>4. CASE Clear \/ CleanupExpired
  <2>1. \A l \in Keys : Known'[l] \in {Known[l], Nothing}
    BY <1>0, <1>4 DEF Clear, CleanupExpired, Known, Cell, CacheTypeOK
  <2> QED BY <1>0, <1>4, <2>1
          DEF Clear, CleanupExpired, Known, Abstract!Next, Abstract!Forget, Abstract!Forgets
<1>5. CASE Tick
  BY <1>5 DEF Tick, Abstract!Next, Abstract!Tick
<1>6. CASE UNCHANGED cacheVars
  BY <1>6 DEF cacheVars, Abstract!specVars
<1> QED BY <1>1, <1>2, <1>3, <1>4, <1>5, <1>6 DEF CacheNext, Abstract!Next

\* The in-memory cache does what CacheSpec promises: no hit returns a value that
\* was replaced, was deleted or has expired.
THEOREM Refinement == InMemoryCacheSpec => ImplementsSpec
<1>1. CacheInit => Abstract!Init
  BY CacheAssumption DEF CacheInit, Abstract!Init, Cell
<1>2. CacheInv /\ CacheInv' /\ [CacheNext]_cacheVars => [Abstract!Next]_(Abstract!specVars)
  BY RefinementStep
<1> QED BY <1>1, <1>2, InvInit, CacheInvStep, PTL DEF InMemoryCacheSpec, ImplementsSpec, Abstract!Spec

=============================================================================
