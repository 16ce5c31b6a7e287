--------------------------- MODULE Configuration ---------------------------
(***************************************************************************)
(* The configuration services together: calls of all of them on one        *)
(* database.                                                               *)
(***************************************************************************)
EXTENDS Resources, Registries, Profiles

\* The operation of r begins; lists with a limit that is not allowed and changes
\* in immutable mode end at once.
Begin(c, r) ==
    /\ At(c, "idle")
    /\ call' = [call EXCEPT ![c] =
          [Idle EXCEPT !.req = r,
             !.before = {d \in Calls : Ended(d)},
             !.start = IF r.op = "list" THEN Present(r.table) ELSE {},
             !.pc = IF Refused(r) \/ (r.op = "list" /\ ~Valid(r)) THEN "refused"
                    ELSE IF r.op \in RegistryOps \cup BrandingOps \cup {"brandApp", "resolve"}
                    THEN FirstRegistryStep(r)
                    ELSE IF r.op \in ProfileOps THEN FirstProfileStep(r) ELSE FirstStep(r)]]
    /\ UNCHANGED db

Init ==
    /\ db \in InitialTables
    /\ call = [c \in Calls |-> Idle]

Next ==
    \/ \E c \in Calls, r \in Requests : Begin(c, r)
    \/ \E c \in Calls : ResourceService(c) \/ RegistryService(c) \/ ProfileService(c) \/ Fails(c)

Spec == Init /\ [][Next]_vars

-----------------------------------------------------------------------------
(* Properties, the first of them of tables t: the initial ones have them, too. *)

RowsTyped(t) ==
    \A table \in Tables :
        /\ t[table] \in [Ids -> Rows(table) \cup {None}]
        \* The rows of a table are in the order of their creation.
        /\ \A i, j \in PresentIn(t, table) :
              /\ t.created[<<table, i>>] \in 1 .. t.clock
              /\ i # j => t.created[<<table, i>>] # t.created[<<table, j>>]

TypeOK ==
    /\ RowsTyped(db)
    /\ \A c \in Calls :
          /\ call[c].pc \in Steps \cup Answers
          /\ call[c].req \in Requests \cup {None}
          /\ Ended(c) => call[c].row = None /\ call[c].above = None

TellPlaces(t) ==
    \A table \in {"resources", "actions"} : \A i \in PresentIn(t, table) :
        LET row == t[table][i]
            above == IF table = "resources" THEN row.parent ELSE row.resource
        IN  /\ row.permission = DerivePermission(t.servers[row.server],
                  IF above = None THEN None ELSE t.resources[above], row.handle)
            /\ \A j \in PresentIn(t, table) \ {i} :
                  t[table][j].server = row.server => t[table][j].permission # row.permission

\* The permission of a resource or of an action spells its place: the handles on
\* the way to it, with the delimiter of the server in between.  And no two
\* resources of a server have the same one, nor two actions, so that who is granted
\* one is not granted the other.  (Handles are unique in a place and do not have
\* the delimiter in them, UpdateResourceServer keeps the delimiter, and nobody is
\* put in the place of a parent.)
PermissionsTellPlaces == TellPlaces(db)

Referenced(t) ==
    /\ \A i \in PresentIn(t, "resources") :
          LET r == t.resources[i]
          IN  /\ t.servers[r.server] # None
              /\ r.parent # None =>
                    t.resources[r.parent] # None /\ t.resources[r.parent].server = r.server
    /\ \A i \in PresentIn(t, "actions") :
          LET a == t.actions[i]
          IN  /\ t.servers[a.server] # None
              /\ a.resource # None =>
                    t.resources[a.resource] # None /\ t.resources[a.resource].server = a.server
    /\ \A i \in PresentIn(t, "apps") :
          t.apps[i].branding # None => t.brandings[t.apps[i].branding] # None

\* Every resource and every action is below a server that is there, and below a
\* resource of that server if below one, and no application uses a branding that
\* is gone.  The checks before a deletion do not see what is created after them;
\* the foreign keys do.
ReferencesHold == TypeOK /\ Referenced(db)

NamedTables == {"servers", "idps", "senders"}
RenameOps == {"updateServer", "updateIdp", "updateSender"}

\* The row that an update names.
Target(c) == IF Asks(c, {"updateServer"}) THEN call[c].req.server ELSE call[c].req.id

\* Call c updates a row, and so does another call that it meets, to another name.
Contended(c) ==
    \E d \in Calls :
        /\ Overlap(c, d)
        /\ Asks(c, RenameOps) /\ call[d].req.op = call[c].req.op
        /\ Target(d) = Target(c) /\ call[d].req.name # call[c].req.name

\* Two other calls on servers met, one of which asked for the name that c keeps.
Twinned(c) ==
    \E p, q \in Calls :
        /\ Overlap(p, q)
        /\ \A d \in {p, q} : Asks(d, {"createServer", "updateServer"})
        /\ call[p].req.name = call[c].req.name

\* What a call checks suffices unless it meets another call.  Two servers, two
\* identity providers or two senders have the same name only if the calls that
\* named them met (no key keeps the names of providers and senders apart, nor those
\* of servers of two organization units), or one of them put back the name it had
\* read, which another update had changed meanwhile and others could then take.
\* And a call is turned away by a key, or finds no branding where there should be
\* one, only if it met another, so that the checks anticipate every key of the
\* tables; except that a server whose name another one has already, because the
\* calls that named them met, cannot be moved to the organization unit of that one.
ChecksSuffice ==
    /\ \A table \in NamedTables : \A i, j \in Present(table) :
          LET p == db[table][i].named
              q == db[table][j].named
          IN  i # j /\ db[table][i].name = db[table][j].name =>
                 \/ {p, q} \subseteq Calls /\ Overlap(p, q)
                 \/ \E c \in {p, q} \cap Calls : Contended(c)
    /\ \A c \in Calls : call[c].pc \in {"rejected", "dangling"} =>
          \/ \E d \in Calls : Overlap(c, d)
          \/ Asks(c, {"updateServer"}) /\ Twinned(c)

\* The definition was set before the call began that wrote a profile.
Governed(row) ==
    db.type.by \in Seeds \cup (IF row.by \in Calls THEN call[row.by].before ELSE {})

\* A profile fits the definition it was checked against, at every depth, and users who
\* were checked against it share no value it calls unique unless the calls that wrote
\* them met: whether a value is found in the index or in the JSON, whatever was
\* indexed for an earlier profile of the user, and in whichever order properties are
\* looked at.
ProfilesHold ==
    \A u \in Users : db.users[u].by \in Calls /\ Governed(db.users[u]) =>
        LET row == db.users[u]
            definition == db.type.definition
        IN  /\ Fits(definition, row.attrs)
            /\ \A w \in Users \ {u}, path \in UniquePaths(definition) :
                  LET v == ValueAt(row.attrs, path)
                      other == db.users[w]
                  IN  /\ Governed(other)
                      /\ v.kind \in {"string", "number"}
                      /\ v = ValueAt(other.attrs, path)
                      => other.by \in Calls /\ Overlap(row.by, other.by)

DeleteOps == {"deleteServer", "deleteResource", "deleteAction", "deleteBranding"}
CreateOps == {"createServer", "createResource", "createAction", "createBranding"}

\* A client that walks through a list sees every row that was there all along,
\* unless rows went or came between the count and the page of a request, or, while
\* it walked forward, were removed, or, backward, were added.  (Pages are found by
\* offset, the newest row first, and the link to the next page by the count.)
PagesCoverTable ==
    \A c \in Calls : At(c, "ok") /\ Asks(c, {"list"}) =>
        \/ List(c) \cap call[c].start \subseteq call[c].listed
        \/ call[c].slipped
        \/ \E d \in Calls :
              /\ Overlap(c, d)
              /\ Asks(d, IF call[c].req.forward THEN DeleteOps ELSE CreateOps)

-----------------------------------------------------------------------------
(* What the constants are.                                                 *)

\* Requests as they are once they have been parsed: of the types that the operations need.
ASSUME RequestsAssumption == \A r \in Requests :
    /\ r.op \in {"createServer", "updateServer"} =>
          r.name \in Names /\ r.ident \in Identifiers \cup {None} /\ r.delim \in Delimiters
    /\ r.op \in {"createResource", "createAction"} => r.handle \in Handles
    /\ r.op \in {"updateServer", "deleteServer", "getServer", "createResource", "updateResource",
                 "deleteResource", "getResource"} \cup ActionOps => r.server \in Ids
    /\ r.op \in {"createResource"} \cup ActionOps => r.above \in Ids \cup {None}
    /\ r.op \in {"updateResource", "deleteResource", "getResource"}
                 \cup (ActionOps \ {"createAction"})
                 \cup (RegistryOps \ {"createIdp", "createSender"}) => r.id \in Ids
    /\ r.op \in {"createIdp", "updateIdp", "createSender", "updateSender"} => r.name \in Names
    /\ r.op \in {"createSender", "updateSender"} => r.type \in SenderTypes
    /\ r.op \in {"updateBranding", "deleteBranding"} => r.branding \in Ids
    /\ r.op = "brandApp" => r.app \in Ids /\ r.branding \in Ids \cup {None}
    /\ r.op = "resolve" => r.app \in Ids
    /\ r.op \in {"updateUser", "deleteUser"} => r.user \in Ids
    /\ r.op = "list" =>
          /\ r.table \in {"servers", "resources", "actions", "brandings"}
          /\ r.forward \in BOOLEAN /\ r.limit \in Int
          /\ r.table \in {"resources", "actions"} => r.server \in Ids /\ r.above \in Ids \cup {None}

\* The initial rows were created one after the other.
ASSUME TablesAssumption == \A t \in InitialTables :
    /\ DOMAIN t = Tables \cup {"users", "index", "type", "created", "clock", "immutable"}
    /\ t.created \in [Tables \X Ids -> Nat] /\ t.clock \in Nat
    /\ RowsTyped(t) /\ TellPlaces(t) /\ Referenced(t)
    /\ \A table \in Tables : PresentIn(t, table) \subseteq Seeds
    /\ \A table \in {"resources", "actions"} : \A i \in PresentIn(t, table) :
          ValidHandle(t[table][i].handle, t.servers[t[table][i].server].delim)
    /\ \A table \in NamedTables : \A i, j \in PresentIn(t, table) :
          /\ t[table][i].named \in Seeds
          /\ i # j => t[table][i].name # t[table][j].name
    /\ \A i, j \in PresentIn(t, "servers") :
          i # j /\ t.servers[i].ident # None => t.servers[i].ident # t.servers[j].ident
    /\ DOMAIN t.users = Ids /\ t.type.by \in Seeds
    /\ \A u \in Ids : t.users[u] # None =>
          t.users[u].by \in Seeds /\ Entries(u, t.users[u].attrs) \subseteq t.index

\* The definitions and the attributes that there may be.
UsedDefinitions ==
    {t.type.definition : t \in InitialTables}
    \cup {r.definition : r \in {q \in Requests : q.op = "defineType" /\ CompilesSchema(q.definition)}}

UsedAttributes ==
    {r.attrs : r \in {q \in Requests : q.op \in {"createUser", "updateUser"}}}
    \cup UNION {{t.users[u].attrs : u \in {i \in Ids : t.users[i] # None}} : t \in InitialTables}

\* Validation and the lookups tell of attributes what the definition says, at every
\* depth: what is accepted fits, and what is unique in it is looked up at its path.
ValidationTells(definition, attrs) ==
    /\ UniquePaths(definition) \subseteq Seq(STRING)
    /\ Validate(definition, attrs) =>
          /\ Fits(definition, attrs)
          /\ \A path \in UniquePaths(definition) :
                LET v == ValueAt(attrs, path)
                IN  v.kind \in {"string", "number"} =>
                       /\ ~Lacks(v, "text")
                       /\ \E l \in LookupsOf(definition, attrs) :
                             /\ l[1].type # "object" /\ Flag(l[1], "unique")
                             /\ l[2] = v /\ l[3] = path

=============================================================================
