-------------------------- MODULE MCConfiguration --------------------------
(* Two rows in every table, x the older one, and requests that meet over   *)
(* them, over a name, an identifier, a handle or a page.                   *)
EXTENDS Configuration, TLC

CONSTANTS c1, c2, x, y, n1, n2, n3, id1, ou1, ou2, t1, t2

CallSymmetry == Permutations(Calls)

a == <<"a">>
b == <<"b">>
aOverB == <<"a", "/", "b">>
MCHandles == {a, b, aOverB}

NoRows == [i \in Ids |-> None]
Two(older, newer) == [NoRows EXCEPT ![x] = older, ![y] = newer]

\* Attributes: an indexed login, and what is below profile.
Text(t) == [kind |-> "string", text |-> t]
Null == [kind |-> "null"]
Object(of) == [kind |-> "object", of |-> of]
User(login, profile) == Object([login |-> login, profile |-> profile])
Mail(m) == Object([mail |-> m])

Login == [type |-> "string", required |-> TRUE, unique |-> TRUE]
MailOf(p) == [type |-> "object", properties |-> [mail |-> p]]
Definition1 == [login |-> Login, profile |-> MailOf([type |-> "string", unique |-> TRUE, required |-> TRUE])]
Definition2 ==
    [login |-> [Login EXCEPT !.required = FALSE],
     profile |-> [type |-> "object", properties |->
        [age |-> [type |-> "number", enum |-> {"30"}], active |-> [type |-> "boolean"],
         home |-> MailOf([type |-> "string", unique |-> TRUE, pattern |-> {"p", "q"}]),
         tags |-> [type |-> "array", required |-> TRUE,
                   items |-> [type |-> "string", regex |-> {"p"}]]]]]

Rich(home, tags) ==
    Object([profile |-> Object([age |-> [kind |-> "number", text |-> "30"],
                                active |-> [kind |-> "boolean", text |-> "true"],
                                home |-> home, tags |-> [kind |-> "array", items |-> tags]])])

Attributes ==
    {User(Text("x"), Mail(Text("r"))), User(Text("z"), Mail(Text("q"))),
     User(Text("z"), Mail(Null)), User(Text("w"), Text("q")), User(Null, Mail(Text("r"))),
     Object([login |-> Text("w")]), Object([profile |-> Mail(Text("r"))]), Absent,
     Rich(Mail(Text("q")), <<Text("p")>>), Rich(Mail(Text("r")), <<Text("p")>>),
     Rich(Null, <<Text("p")>>), Rich(Mail(Text("p")), <<>>), Rich(Mail(Text("p")), <<Text("q")>>)}

ProfileRequests ==
    {[op |-> "createUser", attrs |-> at] : at \in Attributes}
    \cup {[op |-> "updateUser", user |-> u, attrs |-> at] : u \in {x, y},
             at \in {User(Text("z"), Mail(Text("p"))), User(Text("y"), Mail(Text("s"))),
                    Rich(Mail(Text("q")), <<Text("p")>>)}}
    \cup {[op |-> "deleteUser", user |-> x]}
    \cup {[op |-> "defineType", definition |-> d] : d \in
             {Definition2, << >>, [login |-> [type |-> "text"]],
              [login |-> [type |-> "string", enum |-> {}]],
              [login |-> [type |-> "string", regex |-> {}, pattern |-> {}]],
              [profile |-> [type |-> "object"]], [tags |-> [type |-> "array"]],
              [age |-> [type |-> "number", regex |-> {}]],
              [active |-> [type |-> "boolean", unique |-> TRUE]]}}

\* The properties and the values of the requests and of the tables, with what is in them.
RECURSIVE WithPartsOf(_), WithValuesIn(_)
WithPartsOf(p) ==
    {p} \cup (IF Lacks(p, "items") THEN {} ELSE WithPartsOf(p.items))
        \cup (IF Lacks(p, "properties") THEN {}
              ELSE UNION {WithPartsOf(p.properties[n]) : n \in DOMAIN p.properties})
WithValuesIn(v) ==
    {v} \cup (IF v.kind = "array" THEN UNION {WithValuesIn(item) : item \in ToSet(v.items)} ELSE {})
        \cup (IF v.kind = "object" THEN UNION {WithValuesIn(v.of[n]) : n \in DOMAIN v.of} ELSE {})

MCProperties ==
    UNION {UNION {WithPartsOf(d[n]) : n \in DOMAIN d} :
             d \in {Definition1} \cup {r.definition : r \in {q \in ProfileRequests : q.op = "defineType"}}}

MCValues ==
    UNION {WithValuesIn(v) :
             v \in {User(Text("x"), Mail(Text("p"))), User(Text("y"), Mail(Text("q")))}
                   \cup {r.attrs : r \in {q \in ProfileRequests : q.op \in {"createUser", "updateUser"}}}}

MCTables ==
    {[servers |-> Two([name |-> n1, named |-> x, ident |-> id1, ou |-> ou1, delim |-> "/"],
                      [name |-> n2, named |-> y, ident |-> None, ou |-> ou2, delim |-> ":"]),
      resources |-> Two([server |-> x, parent |-> None, handle |-> a, permission |-> a],
                        [server |-> x, parent |-> x, handle |-> b, permission |-> aOverB]),
      actions |-> Two([server |-> x, resource |-> None, handle |-> a, permission |-> a],
                      [server |-> x, resource |-> x, handle |-> b, permission |-> aOverB]),
      idps |-> Two([name |-> n1, named |-> x], [name |-> n2, named |-> y]),
      senders |-> Two([name |-> n1, named |-> x, type |-> t1], [name |-> n2, named |-> y, type |-> t1]),
      brandings |-> Two([content |-> x], [content |-> y]),
      apps |-> Two([branding |-> x], [branding |-> None]),
      users |-> Two([attrs |-> User(Text("x"), Mail(Text("p"))), by |-> x],
                    [attrs |-> User(Text("y"), Mail(Text("q"))), by |-> y]),
      index |-> {<<x, "login", "x">>, <<y, "login", "y">>},
      type |-> [definition |-> Definition1, by |-> x],
      created |-> [row \in Tables \X Ids |-> IF row[2] = x THEN 1 ELSE IF row[2] = y THEN 2 ELSE 0],
      clock |-> 2,
      immutable |-> i] : i \in BOOLEAN}

Server(op, s, n, i, o) ==
    [op |-> op, server |-> s, name |-> n, ident |-> i, ou |-> o, delim |-> ":"]
In(op, s, above, h) == [op |-> op, server |-> s, above |-> above, handle |-> h]
Row(op, s, above, i) == [op |-> op, server |-> s, above |-> above, id |-> i]
Walk(table, forward, limit) ==
    [op |-> "list", table |-> table, server |-> x, above |-> None,
     forward |-> forward, limit |-> limit]

ServerRequests ==
    {Server("createServer", None, n1, None, ou2), Server("createServer", None, n3, id1, ou1),
     Server("createServer", None, n3, None, "gone"),
     Server("updateServer", x, n1, None, ou2), Server("updateServer", y, n3, None, ou1),
     Server("updateServer", y, n2, id1, ou2)}
    \cup {[op |-> "deleteServer", server |-> s] : s \in {x, y}}
    \cup {[op |-> "getServer", server |-> y]}

ResourceRequests ==
    {In("createResource", x, None, aOverB), In("createResource", x, x, a),
     In("createResource", y, None, aOverB), In("createResource", y, x, a),
     In("createAction", x, y, a), In("createAction", x, None, aOverB),
     In("createAction", y, None, b)}
    \cup {Row(op, x, None, i) : op \in {"updateResource", "deleteResource"}, i \in {x, y}}
    \cup {Row("getResource", y, None, x)}
    \cup {Row(op, x, x, y) : op \in {"updateAction", "deleteAction", "getAction"}}
    \cup {Row("deleteAction", x, None, x)}

ListRequests ==
    {Walk(table, forward, 1) : table \in {"servers", "actions"}, forward \in BOOLEAN}
    \cup {Walk("resources", TRUE, 1), Walk("brandings", FALSE, 2), Walk("brandings", TRUE, 3)}

RegistryRequests ==
    {[op |-> "createIdp", name |-> n3], [op |-> "updateIdp", id |-> x, name |-> n3],
     [op |-> "updateIdp", id |-> y, name |-> n1],
     [op |-> "deleteIdp", id |-> x], [op |-> "getIdp", id |-> x],
     [op |-> "createSender", name |-> n3, type |-> t1],
     [op |-> "updateSender", id |-> x, name |-> n3, type |-> t1],
     [op |-> "updateSender", id |-> x, name |-> n1, type |-> t2],
     [op |-> "deleteSender", id |-> x]}

BrandingRequests ==
    {[op |-> "createBranding"], [op |-> "updateBranding", branding |-> y],
     [op |-> "deleteBranding", branding |-> x], [op |-> "deleteBranding", branding |-> y],
     [op |-> "brandApp", app |-> x, branding |-> None], [op |-> "brandApp", app |-> y, branding |-> y],
     [op |-> "resolve", app |-> x], [op |-> "resolve", app |-> y]}

MCRequests ==
    ServerRequests \cup ResourceRequests \cup ListRequests \cup RegistryRequests \cup BrandingRequests
    \cup ProfileRequests

\* The premise of the theorem on profiles.
ASSUME ValidationAssumption ==
    \A definition \in UsedDefinitions, attrs \in UsedAttributes : ValidationTells(definition, attrs)
=============================================================================
