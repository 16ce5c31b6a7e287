------------------------------ MODULE ConfigDB ------------------------------
(***************************************************************************)
(* What the configuration services share: the tables of resource servers,  *)
(* resources, actions, identity providers, notification senders, brandings *)
(* and the applications that use them (dbscripts/thunderdb), and the API   *)
(* calls that run on them; and the lists of their rows in pages.           *)
(*                                                                         *)
(* Every call has a goroutine of its own and sends one statement at a      *)
(* time, none of them in a transaction: calls interleave between any two   *)
(* statements.  Only the unique constraints and, on a connection that      *)
(* enforces them, the foreign keys are checked together with a write.      *)
(***************************************************************************)
EXTENDS Integers, Sequences, SequencesExt, FiniteSets, FiniteSetsExt

CONSTANTS
    Calls,          \* API calls; the UUID of what a call creates is named after it
    Seeds,          \* IDs of the initial rows
    Names,          \* names of servers, identity providers and senders
    Identifiers,    \* identifiers of servers
    OUs,            \* organization units there are
    Handles,        \* handles of resources and actions, sequences of characters
    Delimiters,     \* characters that may separate them
    SenderTypes,
    Requests,       \* what the calls may ask for, with the operation in field op
    InitialTables,  \* the tables the calls may find
    MaxPageSize,    \* the most rows a page may have
    ForeignKeys,    \* whether connections enforce foreign keys: {TRUE} on PostgreSQL
    None

ASSUME ForeignKeysAssumption == ForeignKeys \subseteq BOOLEAN /\ ForeignKeys # {}

Ids == Seeds \cup Calls

ASSUME IdsAssumption == IsFiniteSet(Seeds) /\ Seeds \cap Calls = {} /\ None \notin Ids

VARIABLES
    db,     \* the tables; field created has the times at which their rows were
            \* inserted, by field clock, which counts the insertions, and immutable
            \* says that providers and senders are given by files
    call    \* what each call asks for, where it is and what it has read; fields
            \* slipped, start and before are history, for the properties

vars == <<db, call>>

Tables == {"servers", "resources", "actions", "idps", "senders", "brandings", "apps"}

\* In the rows, field named is the call that last changed the name.
ServerRows ==
    [name : Names, named : Ids, ident : Identifiers \cup {None}, ou : OUs, delim : Delimiters]
Permissions == Seq(Delimiters \cup UNION {ToSet(h) : h \in Handles})
ResourceRows ==
    [server : Ids, parent : Ids \cup {None}, handle : Handles, permission : Permissions]
ActionRows ==
    [server : Ids, resource : Ids \cup {None}, handle : Handles, permission : Permissions]
IdpRows == [name : Names, named : Ids]
SenderRows == [name : Names, named : Ids, type : SenderTypes]
BrandingRows == [content : Ids]
AppRows == [branding : Ids \cup {None}]

Rows(table) ==
    CASE table = "servers" -> ServerRows
      [] table = "resources" -> ResourceRows
      [] table = "actions" -> ActionRows
      [] table = "idps" -> IdpRows
      [] table = "senders" -> SenderRows
      [] table = "brandings" -> BrandingRows
      [] table = "apps" -> AppRows

ASSUME ValuesAssumption ==
    /\ Handles \subseteq Permissions
    /\ MaxPageSize \in Nat
    /\ None \notin Nat
    /\ \A table \in Tables : None \notin Rows(table)

-----------------------------------------------------------------------------
(* The course of a call.                                                   *)

\* What a call does next.
Steps ==
    {"idle", "server", "ou", "name", "ident", "above", "resource", "action", "handle", "children",
     "byName", "byID", "exists", "inUse", "app", "branding", "validate", "unique", "count", "page",
     "write"}

Answers == {"ok", "notFound", "conflict", "refused", "rejected", "dangling", "failed"}

Idle ==
    [pc |-> "idle", req |-> None, row |-> None, above |-> None,
     total |-> 0, offset |-> 0, back |-> FALSE, listed |-> {}, slipped |-> FALSE,
     start |-> {}, before |-> {}]

At(c, step) == call[c].pc = step
Asks(c, ops) == ~At(c, "idle") /\ call[c].req.op \in ops
Ended(c) == call[c].pc \in Answers
Running(c) == ~At(c, "idle") /\ ~Ended(c)

Goto(c, step) == call' = [call EXCEPT ![c].pc = step]

\* What call c has read is only needed until it answers a.
Answer(c, a) == call' = [call EXCEPT ![c].pc = a, ![c].row = None, ![c].above = None]

\* A query that decides whether c goes on.
Check(c, holds, refusal, next) ==
    /\ IF holds THEN Goto(c, next) ELSE Answer(c, refusal)
    /\ UNCHANGED db

-----------------------------------------------------------------------------
(* Statements.                                                             *)

With(table, i, row) ==
    [db EXCEPT ![table][i] = row, !.created[<<table, i>>] = db.clock + 1, !.clock = @ + 1]

Replaced(table, i, row) ==
    IF db[table][i] = None THEN db ELSE [db EXCEPT ![table][i] = row]

Without(table, i) ==
    [db EXCEPT ![table][i] = None, !.created[<<table, i>>] = 0]

PresentIn(tables, table) == {i \in Ids : tables[table][i] # None}
Present(table) == PresentIn(db, table)

\* References whose row may not be deleted: every foreign key says ON DELETE RESTRICT.
ReferringTo(table, i) ==
    CASE table = "servers" ->
            \/ \E r \in Present("resources") : db.resources[r].server = i
            \/ \E a \in Present("actions") : db.actions[a].server = i
      [] table = "resources" ->
            \/ \E r \in Present("resources") : db.resources[r].parent = i
            \/ \E a \in Present("actions") : db.actions[a].resource = i
      [] table = "brandings" -> \E a \in Present("apps") : db.apps[a].branding = i
      [] OTHER -> FALSE

\* The connection that runs the write of call c enforces the foreign keys or
\* does not.  The write may be applied and yet be reported as failed.
Write(c, unique, referenced, new) ==
    \E enforced \in ForeignKeys :
        IF unique /\ (enforced => referenced)
        THEN /\ db' = new
             /\ \E a \in {"ok", "failed"} : Answer(c, a)
        ELSE Answer(c, "rejected") /\ UNCHANGED db

\* A query or a statement fails, or the server stops: c ends where it is, and
\* what it was about to do is not done.
Fails(c) ==
    /\ Running(c)
    /\ Answer(c, "failed")
    /\ UNCHANGED db

\* Two calls neither of which had ended when the other began.
Overlap(c, d) ==
    /\ c # d
    /\ ~At(c, "idle") /\ ~At(d, "idle")
    /\ c \notin call[d].before
    /\ d \notin call[c].before

-----------------------------------------------------------------------------
(***************************************************************************)
(* Lists in pages, as every service gives them (buildPaginationLinks is    *)
(* the same in all of them): a request counts the rows, then reads a page  *)
(* of them, the newest first, and answers with links to other pages.  A    *)
(* client asks for the first page and follows the links forward, or goes   *)
(* to the last page and back.                                              *)
(***************************************************************************)

\* The rows of each list: the resources of a server that are in resource parent, None
\* for those at the top, and the actions of a server itself, or of one of its resources.
ServerList == Present("servers")

BrandingList == Present("brandings")

ResourceList(server, parent) ==
    {i \in Present("resources") : db.resources[i].server = server /\ db.resources[i].parent = parent}

ActionList(server, resource) ==
    {i \in Present("actions") : db.actions[i].server = server /\ db.actions[i].resource = resource}

List(c) ==
    LET req == call[c].req
    IN  CASE req.table = "servers" -> ServerList
          [] req.table = "brandings" -> BrandingList
          [] req.table = "resources" -> ResourceList(req.server, req.above)
          [] req.table = "actions" -> ActionList(req.server, req.above)

\* How many rows of the list come before row i, the newest first.
Place(c, i) ==
    LET table == call[c].req.table
    IN  Cardinality({j \in List(c) : db.created[<<table, j>>] > db.created[<<table, i>>]})

\* Fault: the next page is linked only if there are two more rows.
LinksButLast(limit, offset, total) ==
    [prev |-> IF offset = 0 THEN None ELSE IF offset < limit THEN 0 ELSE offset - limit,
     next |-> IF offset + limit < total - 1 THEN offset + limit ELSE None,
     last |-> LET page == ((total - 1) \div limit) * limit
              IN  IF offset < page THEN page ELSE None]

\* buildPaginationLinks; the link to the first page goes with the one before.
Links(limit, offset, total) ==
    [prev |-> IF offset = 0 THEN None ELSE IF offset < limit THEN 0 ELSE offset - limit,
     next |-> IF offset + limit < total THEN offset + limit ELSE None,
     last |-> LET page == ((total - 1) \div limit) * limit
              IN  IF offset < page THEN page ELSE None]

Valid(req) == req.limit \in 1 .. MaxPageSize

Count(c) ==
    /\ At(c, "count")
    /\ call' = [call EXCEPT ![c].pc = "page", ![c].total = Cardinality(List(c))]
    /\ UNCHANGED db

\* The page, and the client's next request, which begins with step first: on, or
\* once to the last page, where the client begins to collect rows, and back.
Page(c, first) ==
    LET k == call[c]
        req == k.req
        offset == k.offset
        links == Links(req.limit, offset, k.total)
        turns == ~req.forward /\ ~k.back /\ links.last # None
        to == IF req.forward THEN links.next
              ELSE IF turns THEN links.last ELSE links.prev
    IN  /\ At(c, "page")
        /\ call' = [call EXCEPT
              ![c].pc = IF to = None THEN "ok" ELSE first,
              ![c].row = None, ![c].above = None,
              ![c].listed = IF turns THEN {}
                            ELSE k.listed \cup {i \in List(c) : Place(c, i) \in offset .. offset + req.limit - 1},
              ![c].offset = IF to = None THEN offset ELSE to,
              ![c].back = k.back \/ turns,
              ![c].slipped = k.slipped \/ Cardinality(List(c)) # k.total]
        /\ UNCHANGED db

=============================================================================
