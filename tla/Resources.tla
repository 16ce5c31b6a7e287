----------------------------- MODULE Resources -----------------------------
(***************************************************************************)
(* The resource service (internal/resource): resource servers, resources   *)
(* in a tree below them, and actions of a server or of a resource.  The    *)
(* permission of a resource or an action is derived from its place when it *)
(* is created and is stored with it.                                       *)
(***************************************************************************)
EXTENDS ConfigDB

-----------------------------------------------------------------------------
(* Permissions.                                                            *)

\* Fault: a handle may have any character.
HandleOfAnything(handle, delimiter) == Len(handle) > 0

\* validateHandle: the delimiter of the server does not occur in a handle.
ValidHandle(handle, delimiter) == delimiter \notin ToSet(handle)

\* derivePermission, for resource above the new one, None at the top.
DerivePermission(server, above, handle) ==
    IF above = None THEN handle ELSE above.permission \o <<server.delim>> \o handle

-----------------------------------------------------------------------------
(* Where the calls go from one query to the next.                          *)

ActionOps == {"createAction", "updateAction", "deleteAction", "getAction"}

Creates(c) == Asks(c, {"createServer", "createResource", "createAction"})
Deletes(c) == Asks(c, {"deleteServer", "deleteResource", "deleteAction"})

\* What is not there is as good as deleted.
NotFound(c) == Answer(c, IF Deletes(c) THEN "ok" ELSE "notFound")

\* Once the resource above, if any, has been read.
AfterAbove(c) ==
    CASE Asks(c, {"list"}) -> "count"
      [] Asks(c, {"createResource", "createAction"}) -> "handle"
      [] Asks(c, {"updateAction", "deleteAction", "getAction"}) -> "action"

\* Once the server has been read: the resource above is the parent of a resource
\* to create or of those to list, or the one the action belongs to.
AfterServer(c) ==
    CASE Asks(c, {"updateServer"}) -> "ou"
      [] Asks(c, {"deleteServer"}) -> "children"
      [] Asks(c, {"updateResource", "deleteResource", "getResource"}) -> "resource"
      [] Asks(c, {"createResource"} \cup ActionOps \cup {"list"}) ->
            IF call[c].req.above = None THEN AfterAbove(c) ELSE "above"

FirstStep(req) ==
    CASE req.op = "createServer" -> "ou"
      [] req.op = "list" /\ req.table \notin {"resources", "actions"} -> "count"
      [] OTHER -> "server"

-----------------------------------------------------------------------------
(* Queries.                                                                *)

\* The handle of a new resource is checked against the delimiter at once, the
\* one of a new action once its resource has been read.
GetServer(c) ==
    LET row == db.servers[call[c].req.server]
    IN  /\ At(c, "server")
        /\ IF row = None THEN NotFound(c)
           ELSE IF Asks(c, {"getServer"}) THEN Answer(c, "ok")
           ELSE IF Asks(c, {"createResource"}) /\ ~ValidHandle(call[c].req.handle, row.delim)
           THEN Answer(c, "refused")
           ELSE call' = [call EXCEPT ![c].row = row, ![c].pc = AfterServer(c)]
        /\ UNCHANGED db

OrganizationUnit(c) ==
    /\ At(c, "ou")
    /\ Check(c, call[c].req.ou \in OUs, "notFound",
          IF call[c].row = None \/ call[c].row.name # call[c].req.name THEN "name"
          ELSE "ident")

ServerName(c) ==
    /\ At(c, "name")
    /\ Check(c, \A s \in Present("servers") : db.servers[s].name # call[c].req.name,
          "conflict", "ident")

\* An identifier that is given, and is not the one the server has, has to be free.
ServerIdentifier(c) ==
    LET ident == call[c].req.ident
    IN  /\ At(c, "ident")
        /\ Check(c,
              \/ ident = None
              \/ call[c].row # None /\ call[c].row.ident = ident
              \/ \A s \in Present("servers") : db.servers[s].ident # ident,
              "conflict", "write")

\* The resource in this server with this ID.
ResourceOf(c, i) ==
    IF db.resources[i] # None /\ db.resources[i].server = call[c].req.server
    THEN db.resources[i] ELSE None

GetAbove(c) ==
    LET row == ResourceOf(c, call[c].req.above)
    IN  /\ At(c, "above")
        /\ IF row = None THEN NotFound(c)
           ELSE call' = [call EXCEPT ![c].above = row, ![c].pc = AfterAbove(c)]
        /\ UNCHANGED db

GetResource(c) ==
    /\ At(c, "resource")
    /\ IF ResourceOf(c, call[c].req.id) = None THEN NotFound(c)
       ELSE IF Asks(c, {"getResource"}) THEN Answer(c, "ok")
       ELSE Goto(c, IF Deletes(c) THEN "children" ELSE "write")
    /\ UNCHANGED db

GetAction(c) ==
    LET row == db.actions[call[c].req.id]
    IN  /\ At(c, "action")
        /\ IF \/ row = None
              \/ row.server # call[c].req.server
              \/ row.resource # call[c].req.above
           THEN NotFound(c)
           ELSE IF Asks(c, {"getAction"}) THEN Answer(c, "ok") ELSE Goto(c, "write")
        /\ UNCHANGED db

\* No other resource, or no other action, has the handle in the same place.
ResourceHandleFree(c) ==
    \A r \in Present("resources") :
        ~ /\ db.resources[r].server = call[c].req.server
          /\ db.resources[r].parent = call[c].req.above
          /\ db.resources[r].handle = call[c].req.handle

ActionHandleFree(c) ==
    \A a \in Present("actions") :
        ~ /\ db.actions[a].server = call[c].req.server
          /\ db.actions[a].resource = call[c].req.above
          /\ db.actions[a].handle = call[c].req.handle

CheckHandle(c) ==
    /\ At(c, "handle")
    /\ IF Asks(c, {"createAction"}) /\ ~ValidHandle(call[c].req.handle, call[c].row.delim)
       THEN Answer(c, "refused") /\ UNCHANGED db
       ELSE Check(c, IF Asks(c, {"createAction"}) THEN ActionHandleFree(c) ELSE ResourceHandleFree(c),
               "conflict", "write")

\* Fault: the actions of a resource do not count.
ResourcesBelow(table, i) ==
    \E r \in Present("resources") :
        \/ table = "servers" /\ db.resources[r].server = i
        \/ table = "resources" /\ db.resources[r].parent = i

\* A server has resources or actions of its own, a resource has resources or
\* actions.
HasDependencies(table, i) ==
    \/ \E r \in Present("resources") :
          \/ table = "servers" /\ db.resources[r].server = i
          \/ table = "resources" /\ db.resources[r].parent = i
    \/ \E a \in Present("actions") :
          \/ table = "servers" /\ db.actions[a].server = i /\ db.actions[a].resource = None
          \/ table = "resources" /\ db.actions[a].resource = i

CheckDependencies(c) ==
    /\ At(c, "children")
    /\ Check(c,
          ~(IF Asks(c, {"deleteServer"}) THEN HasDependencies("servers", call[c].req.server)
            ELSE HasDependencies("resources", call[c].req.id)),
          "refused", "write")

-----------------------------------------------------------------------------
(* Writes.                                                                 *)

\* An update keeps the delimiter the server had; a new server has the one of the
\* request, which is the configured one where none is given.
Delimiter(c) == IF Creates(c) THEN call[c].req.delim ELSE call[c].row.delim

\* The row of the server as c writes it.
ServerRow(c, i) ==
    [name |-> call[c].req.name, ident |-> call[c].req.ident, ou |-> call[c].req.ou,
     delim |-> Delimiter(c),
     named |-> IF db.servers[i] # None /\ db.servers[i].name = call[c].req.name
               THEN db.servers[i].named ELSE c]

\* The unique keys: the name within the organization unit, and the identifier.
ServerUnique(c, i) ==
    \A s \in Present("servers") \ {i} :
        /\ ~(db.servers[s].ou = call[c].req.ou /\ db.servers[s].name = call[c].req.name)
        /\ call[c].req.ident = None \/ db.servers[s].ident # call[c].req.ident

InsertServer(c) ==
    /\ At(c, "write")
    /\ Write(c, ServerUnique(c, c), TRUE, With("servers", c, ServerRow(c, c)))

StoreServer(c) ==
    LET i == call[c].req.server
    IN  /\ At(c, "write")
        /\ Write(c, db.servers[i] = None \/ ServerUnique(c, i), TRUE,
              Replaced("servers", i, ServerRow(c, i)))

RemoveServer(c) ==
    LET i == call[c].req.server
    IN  /\ At(c, "write")
        /\ Write(c, TRUE, ~ReferringTo("servers", i), Without("servers", i))

\* The row refers to the server and to the resource above as they were read; the
\* permission is derived from them.
InsertResource(c) ==
    LET req == call[c].req
    IN  /\ At(c, "write")
        /\ Write(c, ResourceHandleFree(c),
              /\ db.servers[req.server] # None
              /\ req.above # None => db.resources[req.above] # None,
              With("resources", c,
                 [server |-> req.server, parent |-> req.above, handle |-> req.handle,
                  permission |-> DerivePermission(call[c].row, call[c].above, req.handle)]))

\* Only the name and the description change, of which nothing here depends.
StoreResource(c) ==
    /\ At(c, "write")
    /\ Write(c, TRUE, TRUE, db)

RemoveResource(c) ==
    LET i == call[c].req.id
    IN  /\ At(c, "write")
        /\ Write(c, TRUE, ~ReferringTo("resources", i), Without("resources", i))

InsertAction(c) ==
    LET req == call[c].req
    IN  /\ At(c, "write")
        /\ Write(c, ActionHandleFree(c),
              /\ db.servers[req.server] # None
              /\ req.above # None => db.resources[req.above] # None,
              With("actions", c,
                 [server |-> req.server, resource |-> req.above, handle |-> req.handle,
                  permission |-> DerivePermission(call[c].row, call[c].above, req.handle)]))

StoreAction(c) ==
    /\ At(c, "write")
    /\ Write(c, TRUE, TRUE, db)

RemoveAction(c) ==
    /\ At(c, "write")
    /\ Write(c, TRUE, TRUE, Without("actions", call[c].req.id))

-----------------------------------------------------------------------------
(* The operations.                                                         *)

CreateResourceServer(c) ==
    /\ Asks(c, {"createServer"})
    /\ OrganizationUnit(c) \/ ServerName(c) \/ ServerIdentifier(c) \/ InsertServer(c)

UpdateResourceServer(c) ==
    /\ Asks(c, {"updateServer"})
    /\ \/ GetServer(c)
       \/ OrganizationUnit(c) \/ ServerName(c) \/ ServerIdentifier(c) \/ StoreServer(c)

DeleteResourceServer(c) ==
    /\ Asks(c, {"deleteServer"})
    /\ GetServer(c) \/ CheckDependencies(c) \/ RemoveServer(c)

GetResourceServer(c) ==
    /\ Asks(c, {"getServer"})
    /\ GetServer(c)

CreateResource(c) ==
    /\ Asks(c, {"createResource"})
    /\ GetServer(c) \/ GetAbove(c) \/ CheckHandle(c) \/ InsertResource(c)

UpdateResource(c) ==
    /\ Asks(c, {"updateResource"})
    /\ GetServer(c) \/ GetResource(c) \/ StoreResource(c)

DeleteResource(c) ==
    /\ Asks(c, {"deleteResource"})
    /\ GetServer(c) \/ GetResource(c) \/ CheckDependencies(c) \/ RemoveResource(c)

ReadResource(c) ==
    /\ Asks(c, {"getResource"})
    /\ GetServer(c) \/ GetResource(c)

CreateAction(c) ==
    /\ Asks(c, {"createAction"})
    /\ GetServer(c) \/ GetAbove(c) \/ CheckHandle(c) \/ InsertAction(c)

UpdateAction(c) ==
    /\ Asks(c, {"updateAction"})
    /\ GetServer(c) \/ GetAbove(c) \/ GetAction(c) \/ StoreAction(c)

DeleteAction(c) ==
    /\ Asks(c, {"deleteAction"})
    /\ GetServer(c) \/ GetAbove(c) \/ GetAction(c) \/ RemoveAction(c)

ReadAction(c) ==
    /\ Asks(c, {"getAction"})
    /\ GetServer(c) \/ GetAbove(c) \/ GetAction(c)

\* The lists of resources and of actions look up the server and the resource for
\* each of their pages.
ReadList(c) ==
    /\ Asks(c, {"list"})
    /\ GetServer(c) \/ GetAbove(c) \/ Count(c) \/ Page(c, FirstStep(call[c].req))

ResourceService(c) ==
    \/ CreateResourceServer(c) \/ UpdateResourceServer(c) \/ DeleteResourceServer(c)
    \/ GetResourceServer(c)
    \/ CreateResource(c) \/ UpdateResource(c) \/ DeleteResource(c) \/ ReadResource(c)
    \/ CreateAction(c) \/ UpdateAction(c) \/ DeleteAction(c) \/ ReadAction(c)
    \/ ReadList(c)

=============================================================================
