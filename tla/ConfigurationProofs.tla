------------------------- MODULE ConfigurationProofs -------------------------
(***************************************************************************)
(* Proofs about the configuration services, for any number of calls, rows  *)
(* and requests: that permissions tell places and references hold, that    *)
(* the checks of a call suffice unless it meets another call, that a       *)
(* client that walks through a list sees every row that stays, and that    *)
(* users fit the schema they were written under and differ as it asks.     *)
(***************************************************************************)
EXTENDS Configuration, FiniteSetTheorems, SequenceTheorems, TLAPS

-----------------------------------------------------------------------------
(* What is always known of calls and of the tables.                        *)

Op(c) == call[c].req.op

\* A step of a call that has begun.
Serves(c) == ResourceService(c) \/ RegistryService(c) \/ ProfileService(c) \/ Fails(c)

\* Nobody is about to create row i: it is an initial one, or the call that it is
\* named after has ended.
Made(i) == i \in Calls => Ended(i)

CallStates ==
    [pc : Steps \cup Answers, req : Requests \cup {None},
     row : ServerRows \cup IdpRows \cup SenderRows \cup AppRows \cup {None},
     above : ResourceRows \cup {None}, total : Nat, offset : Nat, back : BOOLEAN,
     listed : SUBSET Ids, slipped : BOOLEAN, start : SUBSET Ids, before : SUBSET Calls]

CallsTyped == call \in [Calls -> CallStates]

\* What a call knows of the past is of calls that have ended.
HistoryKept(c) ==
    /\ IF At(c, "idle") THEN call[c] = Idle ELSE call[c].req \in Requests
    /\ \A d \in call[c].before : Ended(d)
    /\ \A i \in call[c].start : Made(i)
    /\ Ended(c) => call[c].row = None /\ call[c].above = None

TablesTyped ==
    /\ DOMAIN db = Tables \cup {"users", "index", "type", "created", "clock", "immutable"}
    /\ \A table \in Tables : db[table] \in [Ids -> Rows(table) \cup {None}]
    /\ db.created \in [Tables \X Ids -> Nat]
    /\ db.clock \in Nat

RowsMade == \A table \in Tables : \A i \in Present(table) : Made(i)

RowsFinite == \A table \in Tables : IsFiniteSet(Present(table))

RowsStamped ==
    \A table \in Tables : \A i, j \in Present(table) :
        /\ db.created[<<table, i>>] \in 1 .. db.clock
        /\ i # j => db.created[<<table, i>>] # db.created[<<table, j>>]

-----------------------------------------------------------------------------
(* What a call has read, and is still so.                                  *)

\* Server i, if it is there still, has the delimiter it had when its row was read.
DelimiterKept(c, i) ==
    /\ call[c].row \in ServerRows
    /\ Made(i)
    /\ db.servers[i] # None => db.servers[i].delim = call[c].row.delim

\* Calls that write the row of a server.
ServerCourse(c) ==
    LET req == call[c].req
    IN  Asks(c, {"createServer", "updateServer"}) =>
           /\ Op(c) = "createServer" => call[c].row = None
           /\ Op(c) = "updateServer" /\ call[c].pc \in {"ou", "name", "ident", "write"} =>
                 DelimiterKept(c, req.server)
           /\ call[c].pc \in {"name", "ident", "write"} => req.ou \in OUs

\* Calls that create something in a place.
PlaceCourse(c) ==
    LET req == call[c].req
    IN  Asks(c, {"createResource", "createAction"}) =>
           /\ call[c].pc \in {"above", "handle", "write"} =>
                 /\ DelimiterKept(c, req.server)
                 /\ Op(c) = "createResource" \/ At(c, "write") =>
                       ValidHandle(req.handle, call[c].row.delim)
           /\ call[c].pc \in {"server", "above"} => call[c].above = None
           /\ call[c].pc \in {"handle", "write"} =>
                 IF req.above = None THEN call[c].above = None
                 ELSE /\ call[c].above \in ResourceRows
                      /\ call[c].above.server = req.server
                      /\ Made(req.above)
                      /\ db.resources[req.above] # None => db.resources[req.above] = call[c].above

AboveCourse(c) == At(c, "above") => call[c].req.above # None

\* Calls on rows that no key keeps.
RegistryCourse(c) ==
    /\ Asks(c, {"updateIdp"}) /\ call[c].pc \in {"byName", "write"} =>
          call[c].row \in IdpRows /\ Made(call[c].req.id)
    /\ Asks(c, {"updateSender"}) /\ call[c].pc \in {"byName", "write"} =>
          call[c].row \in SenderRows /\ Made(call[c].req.id)
    /\ Asks(c, {"resolve"}) /\ At(c, "branding") =>
          call[c].row \in AppRows /\ call[c].row.branding # None

ListCourse(c) ==
    LET k == call[c]
    IN  Asks(c, {"list"}) /\ Running(c) =>
           /\ k.req.limit \in 1 .. MaxPageSize
           /\ k.pc \in {"server", "above", "count", "page"}
           /\ k.pc \in {"server", "above"} => k.req.table \in {"resources", "actions"}
           /\ k.back => ~k.req.forward
           /\ ~k.back /\ ~k.req.forward => k.offset = 0

\* The calls and the tables in their bounds.
Bounds ==
    /\ CallsTyped /\ TablesTyped /\ RowsMade /\ RowsFinite /\ RowsStamped
    /\ \A c \in Calls :
          /\ HistoryKept(c) /\ ServerCourse(c) /\ PlaceCourse(c) /\ AboveCourse(c)
          /\ RegistryCourse(c) /\ ListCourse(c)

HandlesValid ==
    \A table \in {"resources", "actions"} : \A i \in Present(table) :
        ValidHandle(db[table][i].handle, db.servers[db[table][i].server].delim)

\* The unique keys of the servers.
KeysHold ==
    \A i, j \in Present("servers") : i # j =>
        /\ ~(db.servers[i].ou = db.servers[j].ou /\ db.servers[i].name = db.servers[j].name)
        /\ db.servers[i].ident # None => db.servers[i].ident # db.servers[j].ident

-----------------------------------------------------------------------------
(* Names.                                                                  *)

NamingOps(table) ==
    CASE table = "servers" -> {"createServer", "updateServer"}
      [] table = "idps" -> {"createIdp", "updateIdp"}
      [] table = "senders" -> {"createSender", "updateSender"}

\* The row that a call names: of its own, or the one that it updates.
Named(c) == IF Asks(c, RenameOps) THEN Target(c) ELSE c

\* The call that named a row has asked for the name.
NamesAsked ==
    \A table \in NamedTables : \A i \in Present(table) :
        LET c == db[table][i].named
        IN  c \in Calls =>
               Asks(c, NamingOps(table)) /\ call[c].req.name = db[table][i].name

\* Since c looked the name up, only calls that it meets have given it to another row.
NameTaken(c, table) ==
    \A i \in Present(table) \ {Named(c)} : db[table][i].name = call[c].req.name =>
        db[table][i].named \in Calls /\ Overlap(c, db[table][i].named)

\* An update does not look up the name that the row has; it does not miss a change then
\* unless it meets the call that made it.
NameKept(c, table) ==
    /\ Asks(c, RenameOps) /\ call[c].row.name = call[c].req.name
    /\ Made(Named(c))
    /\ \/ db[table][Named(c)] = None
       \/ db[table][Named(c)].name = call[c].req.name
       \/ Contended(c)

\* What a call knows of the name by the time it writes.
NameCourse(c, table) ==
    Asks(c, NamingOps(table)) =>
        /\ call[c].pc \in {"ident", "write"} => NameTaken(c, table) \/ NameKept(c, table)
        /\ /\ call[c].pc \in {"ou", "name", "byName"}
           /\ Asks(c, RenameOps) /\ call[c].row.name = call[c].req.name
           => NameKept(c, table)

\* Rows with the same name, but for those which calls that met have named.
NamesApart ==
    \A table \in NamedTables : \A i, j \in Present(table) :
        LET p == db[table][i].named
            q == db[table][j].named
        IN  i # j /\ db[table][i].name = db[table][j].name =>
               \/ {p, q} \subseteq Calls /\ Overlap(p, q)
               \/ \E c \in {p, q} \cap Calls : Contended(c)

-----------------------------------------------------------------------------
(* A call that meets no other finds everything as it left it.              *)

Meets(c) == \E d \in Calls : Overlap(c, d)

\* Nobody else has the identifier.
IdentFree(c, i) ==
    \A s \in Present("servers") \ {i} :
        call[c].req.ident = None \/ db.servers[s].ident # call[c].req.ident

NameFree(c) == \A s \in Present("servers") : db.servers[s].name # call[c].req.name

AloneServer(c) ==
    LET req == call[c].req
    IN  /\ Asks(c, {"createServer"}) =>
              /\ call[c].pc \in {"ident", "write"} => NameFree(c)
              /\ At(c, "write") => IdentFree(c, c)
        /\ Asks(c, {"updateServer"}) =>
              /\ call[c].pc \in {"ou", "name", "ident", "write"} =>
                    call[c].row = db.servers[req.server]
              /\ call[c].pc \in {"ident", "write"} => NameFree(c) \/ call[c].row.name = req.name
              /\ At(c, "write") => IdentFree(c, req.server)

AlonePlace(c) ==
    LET req == call[c].req
    IN  Asks(c, {"createResource", "createAction"}) =>
           /\ call[c].pc \in {"above", "handle", "write"} => db.servers[req.server] # None
           /\ call[c].pc \in {"handle", "write"} /\ req.above # None => db.resources[req.above] # None
           /\ At(c, "write") =>
                 IF Op(c) = "createResource" THEN ResourceHandleFree(c) ELSE ActionHandleFree(c)

AloneRemoval(c) ==
    At(c, "write") =>
        /\ Asks(c, {"deleteServer"}) => ~HasDependencies("servers", call[c].req.server)
        /\ Asks(c, {"deleteResource"}) => ~HasDependencies("resources", call[c].req.id)

AloneBranding(c) ==
    LET req == call[c].req
    IN  /\ Asks(c, {"deleteBranding"}) /\ At(c, "write") => ApplicationsOf(req.branding) = {}
        /\ Asks(c, {"brandApp"}) /\ At(c, "write") =>
              req.branding = None \/ db.brandings[req.branding] # None
        /\ Asks(c, {"resolve"}) /\ At(c, "branding") => db.brandings[call[c].row.branding] # None

AloneRule(c) ==
    Running(c) /\ ~Meets(c) =>
        AloneServer(c) /\ AlonePlace(c) /\ AloneRemoval(c) /\ AloneBranding(c)

\* A call that was turned away met another, or moved a server that has a twin.
TurnedAway(c) ==
    call[c].pc \in {"rejected", "dangling"} =>
        Meets(c) \/ (Asks(c, {"updateServer"}) /\ Twinned(c))

-----------------------------------------------------------------------------
(* Lists.                                                                  *)

\* Call c has met one that may have moved the rows it walks over the wrong way.
Moved(c) ==
    \E d \in Calls :
        Overlap(c, d) /\ Asks(d, IF call[c].req.forward THEN DeleteOps ELSE CreateOps)

\* The rows that were there from the start and are before the next page, or after it
\* on the way back, have been collected.
PagesRule(c) ==
    LET k == call[c]
    IN  Asks(c, {"list"}) /\ ~k.slipped /\ ~Moved(c) =>
           \A i \in List(c) \cap k.start :
              /\ At(c, "ok") => i \in k.listed
              /\ Running(c) /\ k.req.forward /\ Place(c, i) < k.offset => i \in k.listed
              /\ Running(c) /\ k.back /\ Place(c, i) >= k.offset + k.req.limit => i \in k.listed

-----------------------------------------------------------------------------
(* The inductive invariants.                                               *)

\* What holds with and without foreign keys.
NamesInv ==
    /\ NamesAsked /\ NamesApart
    /\ \A c \in Calls, table \in NamedTables : NameCourse(c, table)

PagesInv == \A c \in Calls : PagesRule(c)

\* What holds where foreign keys are enforced.
PlacesInv == Referenced(db) /\ HandlesValid /\ TellPlaces(db)

AloneInv == KeysHold /\ \A c \in Calls : AloneRule(c) /\ TurnedAway(c)

-----------------------------------------------------------------------------
(* Sequences: where a delimiter that a handle does not have is the last.   *)

Joined(p, d, h) == p \o <<d>> \o h

\* A handle after the last delimiter, and what is before it, are known from the whole.
LEMMA LastDelimiter ==
    ASSUME NEW S, NEW p \in Seq(S), NEW q \in Seq(S), NEW h \in Seq(S), NEW k \in Seq(S),
           NEW d \in S, d \notin ToSet(h), d \notin ToSet(k),
           Joined(p, d, h) = Joined(q, d, k)
    PROVE  p = q /\ h = k
  <1> DEFINE s == p \o <<d>> \o h
             t == q \o <<d>> \o k
  <1>1. /\ Len(s) = Len(p) + 1 + Len(h)
        /\ \A n \in 1 .. Len(p) : s[n] = p[n]
        /\ s[Len(p) + 1] = d
        /\ \A n \in 1 .. Len(h) : s[Len(p) + 1 + n] = h[n]
    OBVIOUS
  <1>2. /\ Len(t) = Len(q) + 1 + Len(k)
        /\ \A n \in 1 .. Len(q) : t[n] = q[n]
        /\ t[Len(q) + 1] = d
        /\ \A n \in 1 .. Len(k) : t[Len(q) + 1 + n] = k[n]
    OBVIOUS
  <1>3. \A n \in 1 .. Len(h) : h[n] # d
    BY DEF ToSet
  <1>4. \A n \in 1 .. Len(k) : k[n] # d
    BY DEF ToSet
  <1>5. s = t
    BY DEF Joined
  <1>6. Len(p) \in Nat /\ Len(q) \in Nat /\ Len(h) \in Nat /\ Len(k) \in Nat
    OBVIOUS
  <1> HIDE DEF s, t
  <1>7. ~(Len(p) < Len(q))
    <2> SUFFICES ASSUME Len(p) < Len(q) PROVE FALSE
      OBVIOUS
    <2>1. Len(q) - Len(p) \in 1 .. Len(h)
      BY <1>1, <1>2, <1>5, <1>6
    <2>2. s[Len(p) + 1 + (Len(q) - Len(p))] = h[Len(q) - Len(p)]
      BY <2>1, <1>1
    <2>3. Len(p) + 1 + (Len(q) - Len(p)) = Len(q) + 1
      BY <1>6
    <2> QED
      BY <2>1, <2>2, <2>3, <1>2, <1>3, <1>5
  <1>8. ~(Len(q) < Len(p))
    <2> SUFFICES ASSUME Len(q) < Len(p) PROVE FALSE
      OBVIOUS
    <2>1. Len(p) - Len(q) \in 1 .. Len(k)
      BY <1>1, <1>2, <1>5, <1>6
    <2>2. t[Len(q) + 1 + (Len(p) - Len(q))] = k[Len(p) - Len(q)]
      BY <2>1, <1>2
    <2>3. Len(q) + 1 + (Len(p) - Len(q)) = Len(p) + 1
      BY <1>6
    <2> QED
      BY <2>1, <2>2, <2>3, <1>1, <1>4, <1>5
  <1>9. Len(p) = Len(q) /\ Len(h) = Len(k)
    BY <1>1, <1>2, <1>5, <1>6, <1>7, <1>8
  <1>10. p = q
    <2>1. \A n \in 1 .. Len(p) : p[n] = q[n]
      BY <1>1, <1>2, <1>5, <1>9
    <2> QED
      BY <2>1, <1>9, SeqEqual
  <1>11. h = k
    <2>1. \A n \in 1 .. Len(h) : h[n] = k[n]
      BY <1>1, <1>2, <1>5, <1>9
    <2> QED
      BY <2>1, <1>9, SeqEqual
  <1> QED
    BY <1>10, <1>11

\* What has a delimiter in it is no handle that does not.
LEMMA HasDelimiter ==
    ASSUME NEW S, NEW p \in Seq(S), NEW h \in Seq(S), NEW d \in S
    PROVE  d \in ToSet(p \o <<d>> \o h) /\ p \o <<d>> \o h \in Seq(S)
  <1>1. /\ p \o <<d>> \o h \in Seq(S)
        /\ Len(p) + 1 \in DOMAIN (p \o <<d>> \o h)
        /\ (p \o <<d>> \o h)[Len(p) + 1] = d
    OBVIOUS
  <1> QED
    BY <1>1 DEF ToSet

-----------------------------------------------------------------------------
(* What a step leaves of the calls.                                        *)

\* A step of c leaves other calls alone, and what c asks for and knows of the past.
Keeps(c) ==
    /\ CallsTyped'
    /\ \A d \in Calls \ {c} : call'[d] = call[d]
    /\ call'[c].req = call[c].req
    /\ call'[c].start = call[c].start
    /\ call'[c].before = call[c].before

\* And the pages that it has collected.
Rest(c) ==
    /\ Keeps(c)
    /\ call'[c].total = call[c].total
    /\ call'[c].offset = call[c].offset
    /\ call'[c].back = call[c].back
    /\ call'[c].listed = call[c].listed
    /\ call'[c].slipped = call[c].slipped

Ends(c, answers) ==
    /\ Rest(c)
    /\ call'[c].pc \in answers
    /\ call'[c].row = None /\ call'[c].above = None

Goes(c, step) ==
    /\ Rest(c)
    /\ call'[c].pc = step
    /\ call'[c].row = call[c].row /\ call'[c].above = call[c].above

Reads(c, step, row) ==
    /\ Rest(c)
    /\ call'[c].pc = step
    /\ call'[c].row = row /\ call'[c].above = call[c].above

ReadsAbove(c, step, above) ==
    /\ Rest(c)
    /\ call'[c].pc = step
    /\ call'[c].row = call[c].row /\ call'[c].above = above

\* An answer ends a call.
LEMMA Ending ==
    ASSUME CallsTyped, NEW c \in Calls
    PROVE  /\ \A a \in Answers : Answer(c, a) => Ends(c, {a})
           /\ Answer(c, "rejected") => Ends(c, {"rejected"})
           /\ Answer(c, "dangling") => Ends(c, {"dangling"})
  <1>1. call[c] \in CallStates
    BY DEF CallsTyped
  <1>2. ASSUME NEW a \in Answers, Answer(c, a) PROVE Ends(c, {a})
    <2>1. call' = [call EXCEPT ![c] = [call[c] EXCEPT !.pc = a, !.row = None, !.above = None]]
      BY <1>2 DEF Answer, CallsTyped
    <2>2. [call[c] EXCEPT !.pc = a, !.row = None, !.above = None] \in CallStates
      <3>2. a \in Steps \cup Answers
        OBVIOUS
      <3> QED
        BY <1>1, <3>2 DEF CallStates
    <2>3. CallsTyped' /\ \A d \in Calls \ {c} : call'[d] = call[d]
      BY <2>1, <2>2 DEF CallsTyped
    <2>4. call'[c] = [call[c] EXCEPT !.pc = a, !.row = None, !.above = None]
      BY <2>1 DEF CallsTyped
    <2> QED
      BY <1>1, <2>3, <2>4 DEF Ends, Rest, Keeps, CallStates
  <1> QED
    BY <1>2 DEF Answers

\* A call that goes on, with what it has read.
LEMMA Going ==
    ASSUME CallsTyped, NEW c \in Calls, NEW step \in Steps
    PROVE  /\ Goto(c, step) => Goes(c, step)
           /\ \A row \in ServerRows \cup IdpRows \cup SenderRows \cup AppRows :
                 call' = [call EXCEPT ![c].row = row, ![c].pc = step] => Reads(c, step, row)
           /\ \A above \in ResourceRows :
                 call' = [call EXCEPT ![c].above = above, ![c].pc = step]
                 => ReadsAbove(c, step, above)
  <1>1. call[c] \in CallStates
    BY DEF CallsTyped
  <1>2. ASSUME NEW new \in CallStates, call' = [call EXCEPT ![c] = new]
        PROVE  CallsTyped' /\ (\A d \in Calls \ {c} : call'[d] = call[d]) /\ call'[c] = new
    BY <1>2 DEF CallsTyped
  <1>3. ASSUME Goto(c, step) PROVE Goes(c, step)
    <2>1. call' = [call EXCEPT ![c] = [call[c] EXCEPT !.pc = step]]
      BY <1>3 DEF Goto, CallsTyped
    <2>2. [call[c] EXCEPT !.pc = step] \in CallStates
      BY <1>1 DEF CallStates
    <2>3. CallsTyped' /\ (\A d \in Calls \ {c} : call'[d] = call[d])
          /\ call'[c] = [call[c] EXCEPT !.pc = step]
      BY <1>2, <2>1, <2>2
    <2> QED
      BY <1>1, <2>3 DEF Goes, Rest, Keeps, CallStates
  <1>4. ASSUME NEW row \in ServerRows \cup IdpRows \cup SenderRows \cup AppRows,
               call' = [call EXCEPT ![c].row = row, ![c].pc = step]
        PROVE  Reads(c, step, row)
    <2>1. call' = [call EXCEPT ![c] = [call[c] EXCEPT !.row = row, !.pc = step]]
      BY <1>4 DEF CallsTyped
    <2>2. [call[c] EXCEPT !.row = row, !.pc = step] \in CallStates
      BY <1>1 DEF CallStates
    <2>3. CallsTyped' /\ (\A d \in Calls \ {c} : call'[d] = call[d])
          /\ call'[c] = [call[c] EXCEPT !.row = row, !.pc = step]
      BY <1>2, <2>1, <2>2
    <2> QED
      BY <1>1, <2>3 DEF Reads, Rest, Keeps, CallStates
  <1>5. ASSUME NEW above \in ResourceRows,
               call' = [call EXCEPT ![c].above = above, ![c].pc = step]
        PROVE  ReadsAbove(c, step, above)
    <2>1. call' = [call EXCEPT ![c] = [call[c] EXCEPT !.above = above, !.pc = step]]
      BY <1>5 DEF CallsTyped
    <2>2. [call[c] EXCEPT !.above = above, !.pc = step] \in CallStates
      BY <1>1 DEF CallStates
    <2>3. CallsTyped' /\ (\A d \in Calls \ {c} : call'[d] = call[d])
          /\ call'[c] = [call[c] EXCEPT !.above = above, !.pc = step]
      BY <1>2, <2>1, <2>2
    <2> QED
      BY <1>1, <2>3 DEF ReadsAbove, Rest, Keeps, CallStates
  <1> QED
    BY <1>3, <1>4, <1>5

\* A step of a call is one of its operation, or its failure.
LEMMA Operations ==
    ASSUME NEW c \in Calls, Serves(c)
    PROVE  /\ ~At(c, "idle")
           /\ Op(c) = "createServer" => CreateResourceServer(c) \/ Fails(c)
           /\ Op(c) = "updateServer" => UpdateResourceServer(c) \/ Fails(c)
           /\ Op(c) = "deleteServer" => DeleteResourceServer(c) \/ Fails(c)
           /\ Op(c) = "createResource" => CreateResource(c) \/ Fails(c)
           /\ Op(c) = "deleteResource" => DeleteResource(c) \/ Fails(c)
           /\ Op(c) = "createAction" => CreateAction(c) \/ Fails(c)
           /\ Op(c) = "deleteAction" => DeleteAction(c) \/ Fails(c)
           /\ Op(c) = "createIdp" => CreateIdentityProvider(c) \/ Fails(c)
           /\ Op(c) = "updateIdp" => UpdateIdentityProvider(c) \/ Fails(c)
           /\ Op(c) = "deleteIdp" => DeleteIdentityProvider(c) \/ Fails(c)
           /\ Op(c) = "createSender" => CreateSender(c) \/ Fails(c)
           /\ Op(c) = "updateSender" => UpdateSender(c) \/ Fails(c)
           /\ Op(c) = "deleteSender" => DeleteSender(c) \/ Fails(c)
           /\ Op(c) = "createBranding" => CreateBranding(c) \/ Fails(c)
           /\ Op(c) = "updateBranding" => UpdateBranding(c) \/ Fails(c)
           /\ Op(c) = "deleteBranding" => DeleteBranding(c) \/ Fails(c)
           /\ Op(c) = "brandApp" => BrandApplication(c) \/ Fails(c)
           /\ Op(c) = "resolve" => ResolveBranding(c) \/ Fails(c)
           /\ Op(c) = "list" => ReadList(c) \/ Fails(c)
  <1> USE DEF Serves, ResourceService, RegistryService, ProfileService, Asks, Op,
              CreateResourceServer, UpdateResourceServer, DeleteResourceServer, GetResourceServer,
              CreateResource, UpdateResource, DeleteResource, ReadResource,
              CreateAction, UpdateAction, DeleteAction, ReadAction, ReadList,
              CreateIdentityProvider, UpdateIdentityProvider, DeleteIdentityProvider,
              GetIdentityProvider, CreateSender, UpdateSender, DeleteSender,
              CreateBranding, UpdateBranding, DeleteBranding, BrandApplication, ResolveBranding,
              CreateUser, UpdateUser, DeleteUser, UpdateUserSchema
  <1>1. ~At(c, "idle")
    BY DEF Fails, Running
  <1>2. Op(c) \in {"createServer", "updateServer", "deleteServer", "createResource", "deleteResource"}
        => /\ Op(c) = "createServer" => CreateResourceServer(c) \/ Fails(c)
           /\ Op(c) = "updateServer" => UpdateResourceServer(c) \/ Fails(c)
           /\ Op(c) = "deleteServer" => DeleteResourceServer(c) \/ Fails(c)
           /\ Op(c) = "createResource" => CreateResource(c) \/ Fails(c)
           /\ Op(c) = "deleteResource" => DeleteResource(c) \/ Fails(c)
    OBVIOUS
  <1>3. Op(c) \in {"createAction", "deleteAction", "list", "createIdp", "updateIdp", "deleteIdp"}
        => /\ Op(c) = "createAction" => CreateAction(c) \/ Fails(c)
           /\ Op(c) = "deleteAction" => DeleteAction(c) \/ Fails(c)
           /\ Op(c) = "list" => ReadList(c) \/ Fails(c)
           /\ Op(c) = "createIdp" => CreateIdentityProvider(c) \/ Fails(c)
           /\ Op(c) = "updateIdp" => UpdateIdentityProvider(c) \/ Fails(c)
           /\ Op(c) = "deleteIdp" => DeleteIdentityProvider(c) \/ Fails(c)
    OBVIOUS
  <1>4. Op(c) \in {"createSender", "updateSender", "deleteSender", "createBranding"}
        => /\ Op(c) = "createSender" => CreateSender(c) \/ Fails(c)
           /\ Op(c) = "updateSender" => UpdateSender(c) \/ Fails(c)
           /\ Op(c) = "deleteSender" => DeleteSender(c) \/ Fails(c)
           /\ Op(c) = "createBranding" => CreateBranding(c) \/ Fails(c)
    OBVIOUS
  <1>5. Op(c) \in {"updateBranding", "deleteBranding", "brandApp", "resolve"}
        => /\ Op(c) = "updateBranding" => UpdateBranding(c) \/ Fails(c)
           /\ Op(c) = "deleteBranding" => DeleteBranding(c) \/ Fails(c)
           /\ Op(c) = "brandApp" => BrandApplication(c) \/ Fails(c)
           /\ Op(c) = "resolve" => ResolveBranding(c) \/ Fails(c)
    OBVIOUS
  <1> HIDE DEF Serves, ResourceService, RegistryService, ProfileService, Asks,
              CreateResourceServer, UpdateResourceServer, DeleteResourceServer, GetResourceServer,
              CreateResource, UpdateResource, DeleteResource, ReadResource,
              CreateAction, UpdateAction, DeleteAction, ReadAction, ReadList,
              CreateIdentityProvider, UpdateIdentityProvider, DeleteIdentityProvider,
              GetIdentityProvider, CreateSender, UpdateSender, DeleteSender,
              CreateBranding, UpdateBranding, DeleteBranding, BrandApplication, ResolveBranding,
              CreateUser, UpdateUser, DeleteUser, UpdateUserSchema
  <1> QED
    BY <1>1, <1>2, <1>3, <1>4, <1>5

-----------------------------------------------------------------------------
(* What a step leaves of the tables.                                       *)

Unstamped == db'.clock = db.clock /\ db'.created = db.created

Same ==
    /\ DOMAIN db' = DOMAIN db
    /\ \A table \in Tables : db'[table] = db[table]
    /\ Unstamped

\* Only row i of the table is another one.
Puts(table, i, row) ==
    /\ DOMAIN db' = DOMAIN db
    /\ db'[table] = [db[table] EXCEPT ![i] = row]
    /\ \A other \in Tables \ {table} : db'[other] = db[other]

Inserts(table, i, row) ==
    /\ Puts(table, i, row)
    /\ db'.clock = db.clock + 1
    /\ db'.created = [db.created EXCEPT ![<<table, i>>] = db.clock + 1]

Updates(table, i, row) == db[table][i] # None /\ Puts(table, i, row) /\ Unstamped

Drops(table, i) ==
    /\ Puts(table, i, None)
    /\ db'.clock = db.clock
    /\ db'.created = [db.created EXCEPT ![<<table, i>>] = 0]

\* The statements.
LEMMA Statements ==
    ASSUME TablesTyped, NEW table \in Tables, NEW i \in Ids, NEW row
    PROVE  /\ db' = db => Same
           /\ db' = With(table, i, row) => Inserts(table, i, row)
           /\ db' = Replaced(table, i, row) => Same \/ Updates(table, i, row)
           /\ db' = Without(table, i) => Drops(table, i)
  <1>1. db' = db => Same
    BY DEF Same, Unstamped
  <1>2. /\ table \in DOMAIN db /\ "created" \in DOMAIN db /\ "clock" \in DOMAIN db
        /\ Tables \subseteq DOMAIN db /\ "created" \notin Tables /\ "clock" \notin Tables
        /\ table # "created" /\ table # "clock"
    BY DEF TablesTyped, Tables
  <1>3. ASSUME db' = With(table, i, row) PROVE Inserts(table, i, row)
    BY <1>2, <1>3 DEF With, Inserts, Puts
  <1>4. ASSUME db' = Replaced(table, i, row) PROVE Same \/ Updates(table, i, row)
    BY <1>1, <1>2, <1>4 DEF Replaced, Updates, Puts, Unstamped
  <1>5. ASSUME db' = Without(table, i) PROVE Drops(table, i)
    BY <1>2, <1>5 DEF Without, Drops, Puts
  <1> QED
    BY <1>1, <1>3, <1>4, <1>5

\* Users and their type are in other tables.
LEMMA ProfileStatements ==
    ASSUME TablesTyped, NEW u, NEW row, NEW entries
    PROVE  /\ db' = WithUser(u, row, entries) => Same
           /\ db' = [db EXCEPT !.type = row] => Same
  BY DEF TablesTyped, Tables, WithUser, Same, Unstamped

\* A call is turned away with nothing done, its course at an end.
Stops(c) == Running(c) /\ Same /\ Ends(c, Answers \ {"rejected", "dangling"})

\* A row of a server that a call has written, of its own or of the server it updates.
ServerWritten(c) ==
    /\ At(c, "write") /\ Asks(c, {"createServer", "updateServer"})
    /\ ServerUnique(c, Named(c))
    /\ IF Op(c) = "createServer" THEN Inserts("servers", c, ServerRow(c, c))
       ELSE Updates("servers", Named(c), ServerRow(c, Named(c)))

\* The place of a resource, or of an action, is there.
PlaceThere(c) ==
    LET req == call[c].req
    IN  db.servers[req.server] # None /\ (req.above # None => db.resources[req.above] # None)

ResourceMade(c) ==
    LET req == call[c].req
    IN  /\ At(c, "write") /\ Asks(c, {"createResource"})
        /\ ResourceHandleFree(c)
        /\ ForeignKeys = {TRUE} => PlaceThere(c)
        /\ Inserts("resources", c,
              [server |-> req.server, parent |-> req.above, handle |-> req.handle,
               permission |-> DerivePermission(call[c].row, call[c].above, req.handle)])

ActionMade(c) ==
    LET req == call[c].req
    IN  /\ At(c, "write") /\ Asks(c, {"createAction"})
        /\ ActionHandleFree(c)
        /\ ForeignKeys = {TRUE} => PlaceThere(c)
        /\ Inserts("actions", c,
              [server |-> req.server, resource |-> req.above, handle |-> req.handle,
               permission |-> DerivePermission(call[c].row, call[c].above, req.handle)])

IdpWritten(c) ==
    /\ At(c, "write") /\ Asks(c, {"createIdp", "updateIdp"})
    /\ IF Op(c) = "createIdp" THEN Inserts("idps", c, IdpRow(c, c))
       ELSE Updates("idps", Named(c), IdpRow(c, Named(c)))

SenderWritten(c) ==
    /\ At(c, "write") /\ Asks(c, {"createSender", "updateSender"})
    /\ IF Op(c) = "createSender" THEN Inserts("senders", c, SenderRow(c, c))
       ELSE Updates("senders", Named(c), SenderRow(c, Named(c)))

BrandingWritten(c) ==
    /\ At(c, "write") /\ Asks(c, {"createBranding", "updateBranding"})
    /\ IF Op(c) = "createBranding" THEN Inserts("brandings", c, [content |-> c])
       ELSE Updates("brandings", call[c].req.branding, [content |-> c])

AppWritten(c) ==
    LET req == call[c].req
    IN  /\ At(c, "write") /\ Asks(c, {"brandApp"})
        /\ ForeignKeys = {TRUE} => req.branding = None \/ db.brandings[req.branding] # None
        /\ Updates("apps", req.app, [branding |-> req.branding])

Removes(c, table, i) ==
    /\ At(c, "write") /\ (table \in {"idps", "senders"} \/ Asks(c, DeleteOps))
    /\ ForeignKeys = {TRUE} => ~ReferringTo(table, i)
    /\ Drops(table, i)

Changed(c) ==
    \/ Same
    \/ ServerWritten(c) \/ ResourceMade(c) \/ ActionMade(c)
    \/ IdpWritten(c) \/ SenderWritten(c) \/ BrandingWritten(c) \/ AppWritten(c)
    \/ \E table \in Tables \ {"apps"}, i \in Ids : Removes(c, table, i)

-----------------------------------------------------------------------------
(* The operations, step by step.                                           *)

\* What the types give of a call and of the row that it asks for.
LEMMA CallFacts ==
    ASSUME Bounds, NEW c \in Calls, ~At(c, "idle")
    PROVE  /\ call[c].req \in Requests
           /\ c \in Ids
           /\ CallsTyped /\ TablesTyped
           /\ HistoryKept(c) /\ ServerCourse(c) /\ PlaceCourse(c) /\ AboveCourse(c)
           /\ RegistryCourse(c) /\ ListCourse(c)
  BY DEF Bounds, HistoryKept, Ids

\* A row that is there is one of its table.
LEMMA RowFacts ==
    ASSUME TablesTyped, NEW i \in Ids
    PROVE  /\ db.servers[i] # None => db.servers[i] \in ServerRows
           /\ db.resources[i] # None => db.resources[i] \in ResourceRows
           /\ db.actions[i] # None => db.actions[i] \in ActionRows
           /\ db.idps[i] # None => db.idps[i] \in IdpRows
           /\ db.senders[i] # None => db.senders[i] \in SenderRows
           /\ db.brandings[i] # None => db.brandings[i] \in BrandingRows
           /\ db.apps[i] # None => db.apps[i] \in AppRows
  <1>1. \A table \in Tables : db[table][i] # None => db[table][i] \in Rows(table)
    BY DEF TablesTyped
  <1> QED
    BY <1>1 DEF Rows, Tables

\* A failure ends a call.
LEMMA Failing ==
    ASSUME CallsTyped, TablesTyped, NEW c \in Calls, Fails(c)
    PROVE  Stops(c)
  <1>1. Same
    BY DEF Fails, Same, Unstamped
  <1>2. Ends(c, {"failed"})
    BY Ending DEF Fails, Answers
  <1> QED
    BY <1>1, <1>2 DEF Fails, Stops, Ends, Answers

\* createServer
LEMMA CreateServerSteps ==
    ASSUME Bounds, NEW c \in Calls, CreateResourceServer(c)
    PROVE  \/ Stops(c)
           \/ At(c, "ou") /\ call[c].req.ou \in OUs /\ Same /\ Goes(c, "name")
           \/ At(c, "name") /\ NameFree(c) /\ Same /\ Goes(c, "ident")
           \/ At(c, "ident") /\ IdentFree(c, c) /\ Same /\ Goes(c, "write")
           \/ ServerWritten(c) /\ Ends(c, {"ok", "failed"})
           \/ At(c, "write") /\ ~ServerUnique(c, c) /\ Same /\ Ends(c, {"rejected"})
  <1>1. Asks(c, {"createServer"}) /\ ~At(c, "idle") /\ Op(c) = "createServer"
    BY DEF CreateResourceServer, Asks, Op
  <1>2. CallsTyped /\ TablesTyped /\ call[c].row = None
    BY <1>1, CallFacts DEF ServerCourse, Asks
  <1>3. \A s : At(c, s) /\ s \notin Answers /\ s # "idle" => Running(c)
    BY DEF Running, Ended, At
  <1>4. db' = db => Same
    BY DEF Same, Unstamped
  <1>5. CASE OrganizationUnit(c)
    <2>1. call[c].row = None \/ call[c].row.name # call[c].req.name
      BY <1>2
    <2>2. CASE call[c].req.ou \in OUs
      BY <1>2, <1>4, <1>5, <2>1, <2>2, Going DEF OrganizationUnit, Check, Steps
    <2>3. CASE call[c].req.ou \notin OUs
      BY <1>2, <1>3, <1>4, <1>5, <2>3, Ending DEF OrganizationUnit, Check, Answers, Stops, Ends
    <2> QED
      BY <2>2, <2>3
  <1>6. CASE ServerName(c)
    <2>1. CASE NameFree(c)
      BY <1>2, <1>4, <1>6, <2>1, Going DEF ServerName, Check, Steps, NameFree
    <2>2. CASE ~NameFree(c)
      BY <1>2, <1>3, <1>4, <1>6, <2>2, Ending
         DEF ServerName, Check, Answers, Stops, Ends, NameFree
    <2> QED
      BY <2>1, <2>2
  <1>7. CASE ServerIdentifier(c)
    <2>1. CASE \/ call[c].req.ident = None
               \/ \A s \in Present("servers") : db.servers[s].ident # call[c].req.ident
      BY <1>2, <1>4, <1>7, <2>1, Going DEF ServerIdentifier, Check, Steps, IdentFree
    <2>2. CASE ~(\/ call[c].req.ident = None
                 \/ \A s \in Present("servers") : db.servers[s].ident # call[c].req.ident)
      BY <1>2, <1>3, <1>4, <1>7, <2>2, Ending
         DEF ServerIdentifier, Check, Answers, Stops, Ends
    <2> QED
      BY <2>1, <2>2
  <1>8. CASE InsertServer(c)
    <2>1. Named(c) = c /\ c \in Ids /\ "servers" \in Tables
      BY <1>1 DEF Named, Asks, RenameOps, Op, Ids, Tables
    <2>2. CASE ServerUnique(c, c)
      <3>1. db' = With("servers", c, ServerRow(c, c)) /\ \E a \in {"ok", "failed"} : Answer(c, a)
        BY <1>8, <2>2, ForeignKeysAssumption DEF InsertServer, Write
      <3>2. Inserts("servers", c, ServerRow(c, c))
        BY <1>2, <2>1, <3>1, Statements
      <3>3. Ends(c, {"ok", "failed"})
        BY <1>2, <3>1, Ending DEF Answers, Ends
      <3> QED
        BY <1>1, <1>8, <2>1, <2>2, <3>2, <3>3 DEF ServerWritten, InsertServer, Asks
    <2>3. CASE ~ServerUnique(c, c)
      BY <1>2, <1>4, <1>8, <2>3, Ending, ForeignKeysAssumption DEF InsertServer, Write
    <2> QED
      BY <2>2, <2>3
  <1> QED
    BY <1>5, <1>6, <1>7, <1>8 DEF CreateResourceServer

\* updateServer
LEMMA UpdateServerSteps ==
    ASSUME Bounds, NEW c \in Calls, UpdateResourceServer(c)
    PROVE  LET k == call[c]
           IN  \/ Stops(c)
               \/ /\ At(c, "server") /\ db.servers[k.req.server] # None
                  /\ Same /\ Reads(c, "ou", db.servers[k.req.server])
               \/ /\ At(c, "ou") /\ k.req.ou \in OUs /\ Same
                  /\ IF k.row.name # k.req.name THEN Goes(c, "name") ELSE Goes(c, "ident")
               \/ At(c, "name") /\ NameFree(c) /\ Same /\ Goes(c, "ident")
               \/ /\ At(c, "ident") /\ Same /\ Goes(c, "write")
                  /\ k.row.ident = k.req.ident \/ IdentFree(c, k.req.server)
               \/ ServerWritten(c) /\ Ends(c, {"ok", "failed"})
               \/ /\ At(c, "write") /\ ~ServerUnique(c, k.req.server)
                  /\ db.servers[k.req.server] # None /\ Same /\ Ends(c, {"rejected"})
               \/ At(c, "write") /\ Same /\ Ends(c, {"ok", "failed"})
  <1> DEFINE k == call[c]
  <1>1. Asks(c, {"updateServer"}) /\ ~At(c, "idle") /\ Op(c) = "updateServer"
    BY DEF UpdateResourceServer, Asks, Op
  <1>2. /\ CallsTyped /\ TablesTyped /\ k.req.server \in Ids
        /\ k.pc \in {"ou", "name", "ident", "write"} => k.row \in ServerRows /\ k.row # None
    BY <1>1, CallFacts, RequestsAssumption, ValuesAssumption
       DEF ServerCourse, Asks, Op, DelimiterKept, Rows, Tables
  <1>3. \A s : At(c, s) /\ s \notin Answers /\ s # "idle" => Running(c)
    BY DEF Running, Ended, At
  <1>4. db' = db => Same
    BY DEF Same, Unstamped
  <1>5. CASE GetServer(c)
    <2>1. CASE db.servers[k.req.server] = None
      BY <1>1, <1>2, <1>3, <1>4, <1>5, <2>1, Ending
         DEF GetServer, NotFound, Deletes, Asks, Answers, Stops, Ends
    <2>2. CASE db.servers[k.req.server] # None
      <3>1. db.servers[k.req.server] \in ServerRows
        BY <1>2, <2>2, RowFacts
      <3>2. AfterServer(c) = "ou"
        BY <1>1 DEF AfterServer, Asks, ActionOps, Op
      <3>3. call' = [call EXCEPT ![c].row = db.servers[k.req.server], ![c].pc = "ou"]
        BY <1>1, <1>5, <2>2, <3>2 DEF GetServer, Asks
      <3>4. Reads(c, "ou", db.servers[k.req.server])
        BY <1>2, <3>1, <3>3, Going DEF Steps
      <3> QED
        BY <1>4, <1>5, <2>2, <3>4 DEF GetServer
    <2> QED
      BY <2>1, <2>2
  <1>6. CASE OrganizationUnit(c)
    <2>1. At(c, "ou") /\ k.row # None
      BY <1>2, <1>6 DEF OrganizationUnit, At
    <2>2. CASE k.req.ou \in OUs
      BY <1>2, <1>4, <1>6, <2>1, <2>2, Going DEF OrganizationUnit, Check, Steps
    <2>3. CASE k.req.ou \notin OUs
      BY <1>2, <1>3, <1>4, <1>6, <2>3, Ending DEF OrganizationUnit, Check, Answers, Stops, Ends
    <2> QED
      BY <2>2, <2>3
  <1>7. CASE ServerName(c)
    <2>1. CASE NameFree(c)
      BY <1>2, <1>4, <1>7, <2>1, Going DEF ServerName, Check, Steps, NameFree
    <2>2. CASE ~NameFree(c)
      BY <1>2, <1>3, <1>4, <1>7, <2>2, Ending
         DEF ServerName, Check, Answers, Stops, Ends, NameFree
    <2> QED
      BY <2>1, <2>2
  <1>8. CASE ServerIdentifier(c)
    <2> DEFINE free == \/ k.req.ident = None
                       \/ k.row # None /\ k.row.ident = k.req.ident
                       \/ \A s \in Present("servers") : db.servers[s].ident # k.req.ident
    <2>1. At(c, "ident") /\ Check(c, free, "conflict", "write")
      BY <1>8 DEF ServerIdentifier
    <2>2. free => k.row.ident = k.req.ident \/ IdentFree(c, k.req.server)
      BY DEF IdentFree
    <2> HIDE DEF free
    <2>3. CASE free
      BY <1>2, <1>4, <2>1, <2>2, <2>3, Going DEF Check, Steps
    <2>4. CASE ~free
      BY <1>2, <1>3, <1>4, <2>1, <2>4, Ending DEF Check, Answers, Stops, Ends
    <2> QED
      BY <2>3, <2>4
  <1>9. CASE StoreServer(c)
    <2> DEFINE i == k.req.server
    <2>1. Named(c) = i /\ "servers" \in Tables /\ At(c, "write")
      BY <1>1, <1>9 DEF Named, Target, Asks, RenameOps, Op, Ids, Tables, StoreServer
    <2>2. CASE db.servers[i] = None \/ ServerUnique(c, i)
      <3>1. db' = Replaced("servers", i, ServerRow(c, i)) /\ \E a \in {"ok", "failed"} : Answer(c, a)
        BY <1>9, <2>2, ForeignKeysAssumption DEF StoreServer, Write
      <3>2. Ends(c, {"ok", "failed"})
        BY <1>2, <3>1, Ending DEF Answers, Ends
      <3>3. CASE db.servers[i] = None
        BY <1>4, <2>1, <3>1, <3>2, <3>3 DEF Replaced
      <3>4. CASE db.servers[i] # None
        <4>1. Same \/ Updates("servers", i, ServerRow(c, i))
          BY <1>2, <2>1, <3>1, Statements
        <4>2. Updates("servers", i, ServerRow(c, i)) => ServerWritten(c)
          BY <1>1, <2>1, <2>2, <3>4 DEF ServerWritten, Asks
        <4> QED
          BY <2>1, <3>2, <4>1, <4>2
      <3> QED
        BY <3>3, <3>4
    <2>3. CASE ~(db.servers[i] = None \/ ServerUnique(c, i))
      BY <1>2, <1>4, <1>9, <2>3, Ending, ForeignKeysAssumption DEF StoreServer, Write
    <2> QED
      BY <2>2, <2>3
  <1> QED
    BY <1>5, <1>6, <1>7, <1>8, <1>9 DEF UpdateResourceServer

\* The resource above the new one is read if it is in the server.
LEMMA AboveRead ==
    ASSUME Bounds, NEW c \in Calls, Asks(c, {"createResource", "createAction"}), GetAbove(c)
    PROVE  LET above == db.resources[call[c].req.above]
           IN  \/ Stops(c)
               \/ /\ At(c, "above") /\ Same /\ above \in ResourceRows /\ above # None
                  /\ above.server = call[c].req.server
                  /\ ReadsAbove(c, "handle", above)
  <1> DEFINE above == db.resources[call[c].req.above]
  <1>1. At(c, "above") /\ Running(c) /\ db' = db
    BY DEF GetAbove, At, Running, Ended, Answers
  <1>2. /\ CallsTyped /\ TablesTyped /\ call[c].req.above \in Ids
        /\ Op(c) \in {"createResource", "createAction"}
    BY <1>1, CallFacts, RequestsAssumption DEF Asks, Op, AboveCourse, ActionOps
  <1>3. Same
    BY <1>1 DEF Same, Unstamped
  <1>4. CASE ResourceOf(c, call[c].req.above) = None
    BY <1>1, <1>2, <1>3, <1>4, Ending DEF GetAbove, NotFound, Deletes, Asks, Op, Answers, Stops, Ends
  <1>5. CASE ResourceOf(c, call[c].req.above) # None
    <2>1. above # None /\ above.server = call[c].req.server /\ ResourceOf(c, call[c].req.above) = above
      BY <1>5 DEF ResourceOf
    <2>2. above \in ResourceRows
      BY <1>2, <2>1, RowFacts
    <2>3. AfterAbove(c) = "handle"
      BY <1>2 DEF AfterAbove, Asks, Op
    <2>4. ReadsAbove(c, "handle", above)
      BY <1>2, <1>5, <2>1, <2>2, <2>3, Going DEF GetAbove, Steps
    <2> QED
      BY <1>1, <1>3, <2>1, <2>2, <2>4
  <1> QED
    BY <1>4, <1>5

\* The server of something new is read.
LEMMA ServerRead ==
    ASSUME Bounds, NEW c \in Calls, Asks(c, {"createResource", "createAction"}), GetServer(c)
    PROVE  LET row == db.servers[call[c].req.server]
           IN  \/ Stops(c)
               \/ /\ At(c, "server") /\ Same /\ row \in ServerRows /\ row # None
                  /\ Op(c) = "createResource" => ValidHandle(call[c].req.handle, row.delim)
                  /\ Reads(c, IF call[c].req.above = None THEN "handle" ELSE "above", row)
  <1> DEFINE row == db.servers[call[c].req.server]
  <1>1. At(c, "server") /\ Running(c) /\ db' = db
    BY DEF GetServer, At, Running, Ended, Answers
  <1>2. /\ CallsTyped /\ TablesTyped /\ call[c].req.server \in Ids
        /\ Op(c) \in {"createResource", "createAction"} /\ ~At(c, "idle")
    BY <1>1, CallFacts, RequestsAssumption DEF Asks, Op, ActionOps
  <1>3. Same
    BY <1>1 DEF Same, Unstamped
  <1>4. CASE row = None
    BY <1>1, <1>2, <1>3, <1>4, Ending DEF GetServer, NotFound, Deletes, Asks, Op, Answers, Stops, Ends
  <1>5. CASE row # None /\ Op(c) = "createResource" /\ ~ValidHandle(call[c].req.handle, row.delim)
    BY <1>1, <1>2, <1>3, <1>5, Ending DEF GetServer, Asks, Op, Answers, Stops, Ends
  <1>6. CASE row # None /\ (Op(c) = "createResource" => ValidHandle(call[c].req.handle, row.delim))
    <2>1. row \in ServerRows
      BY <1>2, <1>6, RowFacts
    <2>2. AfterServer(c) = IF call[c].req.above = None THEN "handle" ELSE "above"
      <3>1. AfterAbove(c) = "handle"
        BY <1>2 DEF AfterAbove, Asks, Op
      <3> QED
        BY <1>2, <3>1 DEF AfterServer, Asks, Op, ActionOps
    <2>3. call' = [call EXCEPT ![c].row = row, ![c].pc = AfterServer(c)]
      BY <1>2, <1>6 DEF GetServer, Asks, Op
    <2>4. Reads(c, IF call[c].req.above = None THEN "handle" ELSE "above", row)
      BY <1>2, <2>1, <2>2, <2>3, Going DEF Steps
    <2> QED
      BY <1>1, <1>3, <1>6, <2>1, <2>4
  <1> QED
    BY <1>4, <1>5, <1>6

\* createResource
LEMMA CreateResourceSteps ==
    ASSUME Bounds, NEW c \in Calls, CreateResource(c)
    PROVE  LET req == call[c].req
               row == db.servers[req.server]
               above == db.resources[req.above]
           IN  \/ Stops(c)
               \/ /\ At(c, "server") /\ Same /\ row \in ServerRows /\ row # None
                  /\ ValidHandle(req.handle, row.delim)
                  /\ Reads(c, IF req.above = None THEN "handle" ELSE "above", row)
               \/ /\ At(c, "above") /\ Same /\ above \in ResourceRows /\ above # None
                  /\ above.server = req.server
                  /\ ReadsAbove(c, "handle", above)
               \/ At(c, "handle") /\ ResourceHandleFree(c) /\ Same /\ Goes(c, "write")
               \/ ResourceMade(c) /\ Ends(c, {"ok", "failed"})
               \/ /\ At(c, "write") /\ ~(ResourceHandleFree(c) /\ PlaceThere(c))
                  /\ Same /\ Ends(c, {"rejected"})
  <1>1. /\ Asks(c, {"createResource"}) /\ ~At(c, "idle") /\ Op(c) = "createResource"
        /\ Asks(c, {"createResource", "createAction"})
    BY DEF CreateResource, Asks, Op
  <1>2. CallsTyped /\ TablesTyped
    BY <1>1, CallFacts
  <1>3. db' = db => Same
    BY DEF Same, Unstamped
  <1>4. CASE GetServer(c)
    BY <1>1, <1>4, ServerRead
  <1>5. CASE GetAbove(c)
    BY <1>1, <1>5, AboveRead
  <1>6. CASE CheckHandle(c)
    <2>1. At(c, "handle") /\ Check(c, ResourceHandleFree(c), "conflict", "write") /\ Running(c)
      BY <1>1, <1>6 DEF CheckHandle, Asks, Op, Running, At, Ended, Answers
    <2>2. CASE ResourceHandleFree(c)
      BY <1>2, <1>3, <2>1, <2>2, Going DEF Check, Steps
    <2>3. CASE ~ResourceHandleFree(c)
      BY <1>2, <1>3, <2>1, <2>3, Ending DEF Check, Answers, Stops, Ends
    <2> QED
      BY <2>2, <2>3
  <1>7. CASE InsertResource(c)
    <2> DEFINE row == [server |-> call[c].req.server, parent |-> call[c].req.above,
                       handle |-> call[c].req.handle,
                       permission |-> DerivePermission(call[c].row, call[c].above, call[c].req.handle)]
    <2>1. At(c, "write") /\ Write(c, ResourceHandleFree(c), PlaceThere(c), With("resources", c, row))
      BY <1>7 DEF InsertResource, PlaceThere
    <2>2. c \in Ids /\ "resources" \in Tables
      BY DEF Ids, Tables
    <2>3. db' = With("resources", c, row) => Inserts("resources", c, row)
      BY <1>2, <2>2, Statements
    <2>4. ResourceHandleFree(c) /\ (ForeignKeys = {TRUE} => PlaceThere(c)) /\ Inserts("resources", c, row)
          => ResourceMade(c)
      BY <1>1, <2>1 DEF ResourceMade
    <2> HIDE DEF row
    <2>5. \/ /\ ResourceHandleFree(c) /\ (ForeignKeys = {TRUE} => PlaceThere(c))
             /\ db' = With("resources", c, row) /\ Ends(c, {"ok", "failed"})
          \/ ~(ResourceHandleFree(c) /\ PlaceThere(c)) /\ db' = db /\ Ends(c, {"rejected"})
      BY <1>2, <2>1, ForeignKeysAssumption, Ending DEF Write, Answers, Ends
    <2> QED
      BY <1>3, <2>1, <2>3, <2>4, <2>5
  <1> QED
    BY <1>4, <1>5, <1>6, <1>7 DEF CreateResource

\* createAction
LEMMA CreateActionSteps ==
    ASSUME Bounds, NEW c \in Calls, CreateAction(c)
    PROVE  LET req == call[c].req
               row == db.servers[req.server]
               above == db.resources[req.above]
           IN  \/ Stops(c)
               \/ /\ At(c, "server") /\ Same /\ row \in ServerRows /\ row # None
                  /\ Reads(c, IF req.above = None THEN "handle" ELSE "above", row)
               \/ /\ At(c, "above") /\ Same /\ above \in ResourceRows /\ above # None
                  /\ above.server = req.server
                  /\ ReadsAbove(c, "handle", above)
               \/ /\ At(c, "handle") /\ ActionHandleFree(c) /\ Same /\ Goes(c, "write")
                  /\ ValidHandle(req.handle, call[c].row.delim)
               \/ ActionMade(c) /\ Ends(c, {"ok", "failed"})
               \/ /\ At(c, "write") /\ ~(ActionHandleFree(c) /\ PlaceThere(c))
                  /\ Same /\ Ends(c, {"rejected"})
  <1>1. /\ Asks(c, {"createAction"}) /\ ~At(c, "idle") /\ Op(c) = "createAction"
        /\ Asks(c, {"createResource", "createAction"})
    BY DEF CreateAction, Asks, Op
  <1>2. CallsTyped /\ TablesTyped
    BY <1>1, CallFacts
  <1>3. db' = db => Same
    BY DEF Same, Unstamped
  <1>4. CASE GetServer(c)
    BY <1>1, <1>4, ServerRead
  <1>5. CASE GetAbove(c)
    BY <1>1, <1>5, AboveRead
  <1>6. CASE CheckHandle(c)
    <2> DEFINE valid == ValidHandle(call[c].req.handle, call[c].row.delim)
    <2>1. /\ At(c, "handle") /\ Running(c)
          /\ ~valid => Answer(c, "refused") /\ db' = db
          /\ valid => Check(c, ActionHandleFree(c), "conflict", "write")
      BY <1>1, <1>6 DEF CheckHandle, Asks, Op, Running, At, Ended, Answers
    <2> HIDE DEF valid
    <2>2. CASE valid /\ ActionHandleFree(c)
      BY <1>2, <1>3, <2>1, <2>2, Going DEF Check, Steps, valid
    <2>3. CASE valid /\ ~ActionHandleFree(c)
      BY <1>2, <1>3, <2>1, <2>3, Ending DEF Check, Answers, Stops, Ends
    <2>4. CASE ~valid
      BY <1>2, <1>3, <2>1, <2>4, Ending DEF Answers, Stops, Ends
    <2> QED
      BY <2>2, <2>3, <2>4
  <1>7. CASE InsertAction(c)
    <2> DEFINE row == [server |-> call[c].req.server, resource |-> call[c].req.above,
                       handle |-> call[c].req.handle,
                       permission |-> DerivePermission(call[c].row, call[c].above, call[c].req.handle)]
    <2>1. At(c, "write") /\ Write(c, ActionHandleFree(c), PlaceThere(c), With("actions", c, row))
      BY <1>7 DEF InsertAction, PlaceThere
    <2>2. c \in Ids /\ "actions" \in Tables
      BY DEF Ids, Tables
    <2>3. db' = With("actions", c, row) => Inserts("actions", c, row)
      BY <1>2, <2>2, Statements
    <2>4. ActionHandleFree(c) /\ (ForeignKeys = {TRUE} => PlaceThere(c)) /\ Inserts("actions", c, row)
          => ActionMade(c)
      BY <1>1, <2>1 DEF ActionMade
    <2> HIDE DEF row
    <2>5. \/ /\ ActionHandleFree(c) /\ (ForeignKeys = {TRUE} => PlaceThere(c))
             /\ db' = With("actions", c, row) /\ Ends(c, {"ok", "failed"})
          \/ ~(ActionHandleFree(c) /\ PlaceThere(c)) /\ db' = db /\ Ends(c, {"rejected"})
      BY <1>2, <2>1, ForeignKeysAssumption, Ending DEF Write, Answers, Ends
    <2> QED
      BY <1>3, <2>1, <2>3, <2>4, <2>5
  <1> QED
    BY <1>4, <1>5, <1>6, <1>7 DEF CreateAction

\* A call goes on with nothing done.
GoesOn(c) == Running(c) /\ Same /\ Rest(c) /\ call'[c].pc \in Steps \ {"idle"}

\* Looking up a server, for what is not created.
LEMMA ServerLooked ==
    ASSUME Bounds, NEW c \in Calls, GetServer(c),
           Op(c) \in {"deleteServer", "getServer", "updateResource", "deleteResource", "getResource",
                      "updateAction", "deleteAction", "getAction", "list"}
    PROVE  \/ Stops(c)
           \/ /\ GoesOn(c)
              /\ call'[c].pc \in {"children", "resource", "above", "action", "count"}
              /\ Op(c) = "list" => call'[c].pc \in {"above", "count"}
              /\ Op(c) \in {"deleteServer", "deleteResource"} => call'[c].pc \in {"children", "resource"}
              /\ call'[c].pc = "above" => call[c].req.above # None
  <1> DEFINE row == db.servers[call[c].req.server]
  <1>1. At(c, "server") /\ Running(c) /\ db' = db /\ ~At(c, "idle")
    BY DEF GetServer, At, Running, Ended, Answers
  <1>2. CallsTyped /\ TablesTyped /\ call[c].req.server \in Ids
    BY <1>1, CallFacts, RequestsAssumption DEF ListCourse, Asks, Op, At, ActionOps
  <1>3. Same
    BY <1>1 DEF Same, Unstamped
  <1>4. CASE row = None
    <2>1. \E a \in {"ok", "notFound"} : Answer(c, a)
      BY <1>4 DEF GetServer, NotFound
    <2> QED
      BY <1>1, <1>2, <1>3, <2>1, Ending DEF Answers, Stops, Ends
  <1>5. CASE row # None /\ Op(c) = "getServer"
    BY <1>1, <1>2, <1>3, <1>5, Ending DEF GetServer, Asks, Op, Answers, Stops, Ends
  <1>6. CASE row # None /\ Op(c) # "getServer"
    <2>1. row \in ServerRows
      BY <1>2, <1>6, RowFacts
    <2>2. call' = [call EXCEPT ![c].row = row, ![c].pc = AfterServer(c)]
      BY <1>1, <1>6 DEF GetServer, Asks, Op
    <2>3. /\ AfterServer(c) \in {"children", "resource", "above", "action", "count"}
          /\ Op(c) = "list" => AfterServer(c) \in {"above", "count"}
          /\ Op(c) \in {"deleteServer", "deleteResource"} => AfterServer(c) \in {"children", "resource"}
          /\ AfterServer(c) = "above" => call[c].req.above # None
      <3>1. /\ Op(c) \in {"updateAction", "deleteAction", "getAction"} => AfterAbove(c) = "action"
            /\ Op(c) = "list" => AfterAbove(c) = "count"
        BY <1>1 DEF AfterAbove, Asks, Op
      <3>2. Op(c) = "deleteServer" => AfterServer(c) = "children"
        BY <1>1 DEF AfterServer, Asks, Op, ActionOps
      <3>3. Op(c) \in {"updateResource", "deleteResource", "getResource"} => AfterServer(c) = "resource"
        BY <1>1 DEF AfterServer, Asks, Op, ActionOps
      <3>4. Op(c) \in {"updateAction", "deleteAction", "getAction", "list"}
            => AfterServer(c) = IF call[c].req.above = None THEN AfterAbove(c) ELSE "above"
        BY <1>1 DEF AfterServer, Asks, Op, ActionOps
      <3> QED
        BY <1>6, <3>1, <3>2, <3>3, <3>4
    <2>4. AfterServer(c) \in Steps \ {"idle"}
      BY <2>3 DEF Steps
    <2>5. Reads(c, AfterServer(c), row)
      BY <1>2, <2>1, <2>2, <2>4, Going
    <2> QED
      BY <1>1, <1>3, <2>3, <2>4, <2>5 DEF GoesOn, Reads
  <1> QED
    BY <1>4, <1>5, <1>6

\* Looking up the resource above, for what is not created.
LEMMA AboveLooked ==
    ASSUME Bounds, NEW c \in Calls, GetAbove(c),
           Op(c) \in {"updateAction", "deleteAction", "getAction", "list"}
    PROVE  \/ Stops(c)
           \/ GoesOn(c) /\ call'[c].pc \in {"action", "count"} /\ (Op(c) = "list" => call'[c].pc = "count")
  <1> DEFINE row == ResourceOf(c, call[c].req.above)
  <1>1. At(c, "above") /\ Running(c) /\ db' = db /\ ~At(c, "idle")
    BY DEF GetAbove, At, Running, Ended, Answers
  <1>2. CallsTyped /\ TablesTyped /\ call[c].req.above \in Ids
    BY <1>1, CallFacts, RequestsAssumption DEF AboveCourse, ListCourse, Asks, Op, At, ActionOps
  <1>3. Same
    BY <1>1 DEF Same, Unstamped
  <1>4. CASE row = None
    <2>1. \E a \in {"ok", "notFound"} : Answer(c, a)
      BY <1>4 DEF GetAbove, NotFound
    <2> QED
      BY <1>1, <1>2, <1>3, <2>1, Ending DEF Answers, Stops, Ends
  <1>5. CASE row # None
    <2>1. row \in ResourceRows
      BY <1>2, <1>5, RowFacts DEF ResourceOf
    <2>2. call' = [call EXCEPT ![c].above = row, ![c].pc = AfterAbove(c)]
      BY <1>5 DEF GetAbove
    <2>3. /\ AfterAbove(c) \in {"action", "count"} /\ AfterAbove(c) \in Steps \ {"idle"}
          /\ Op(c) = "list" => AfterAbove(c) = "count"
      BY <1>1 DEF AfterAbove, Asks, Op, Steps
    <2>4. ReadsAbove(c, AfterAbove(c), row)
      BY <1>2, <2>1, <2>2, <2>3, Going
    <2> QED
      BY <1>1, <1>3, <2>3, <2>4 DEF GoesOn, ReadsAbove
  <1> QED
    BY <1>4, <1>5

\* Queries that decide whether a call goes on.
LEMMA Checking ==
    ASSUME CallsTyped, NEW c \in Calls, NEW step \in Steps \ {"idle"},
           NEW refusal \in Answers \ {"rejected", "dangling"}
    PROVE  /\ Running(c) /\ db' = db /\ Goto(c, step) => GoesOn(c) /\ Goes(c, step)
           /\ Running(c) /\ db' = db /\ Answer(c, refusal) => Stops(c)
  BY Going, Ending DEF GoesOn, Goes, Stops, Same, Unstamped, Ends

\* deleteServer
LEMMA DeleteServerSteps ==
    ASSUME Bounds, NEW c \in Calls, DeleteResourceServer(c)
    PROVE  LET i == call[c].req.server
           IN  \/ Stops(c)
               \/ GoesOn(c) /\ call'[c].pc \notin {"write", "above"}
               \/ At(c, "children") /\ ~HasDependencies("servers", i) /\ GoesOn(c) /\ Goes(c, "write")
               \/ Removes(c, "servers", i) /\ Ends(c, {"ok", "failed"})
               \/ At(c, "write") /\ ReferringTo("servers", i) /\ Same /\ Ends(c, {"rejected"})
  <1> DEFINE i == call[c].req.server
  <1>1. Asks(c, {"deleteServer"}) /\ ~At(c, "idle") /\ Op(c) = "deleteServer"
    BY DEF DeleteResourceServer, Asks, Op
  <1>2. CallsTyped /\ TablesTyped /\ i \in Ids
    BY <1>1, CallFacts, RequestsAssumption DEF Op
  <1>3. db' = db => Same
    BY DEF Same, Unstamped
  <1>4. CASE GetServer(c)
    BY <1>1, <1>4, ServerLooked
  <1>5. CASE CheckDependencies(c)
    <2>1. At(c, "children") /\ Check(c, ~HasDependencies("servers", i), "refused", "write") /\ Running(c)
      BY <1>1, <1>5 DEF CheckDependencies, At, Running, Ended, Answers
    <2>2. "write" \in Steps \ {"idle"} /\ "refused" \in Answers \ {"rejected", "dangling"}
      BY DEF Steps, Answers
    <2> QED
      BY <1>2, <2>1, <2>2, Checking DEF Check
  <1>6. CASE RemoveServer(c)
    <2>1. At(c, "write") /\ Write(c, TRUE, ~ReferringTo("servers", i), Without("servers", i))
      BY <1>6 DEF RemoveServer
    <2>2. db' = Without("servers", i) => Drops("servers", i)
      BY <1>2, Statements DEF Tables
    <2>3. \/ /\ ForeignKeys = {TRUE} => ~ReferringTo("servers", i)
             /\ db' = Without("servers", i) /\ Ends(c, {"ok", "failed"})
          \/ ReferringTo("servers", i) /\ db' = db /\ Ends(c, {"rejected"})
      BY <1>2, <2>1, ForeignKeysAssumption, Ending DEF Write, Answers, Ends
    <2> QED
      BY <1>1, <1>3, <2>1, <2>2, <2>3 DEF Removes, DeleteOps, Asks
  <1> QED
    BY <1>4, <1>5, <1>6 DEF DeleteResourceServer

\* deleteResource
LEMMA DeleteResourceSteps ==
    ASSUME Bounds, NEW c \in Calls, DeleteResource(c)
    PROVE  LET i == call[c].req.id
           IN  \/ Stops(c)
               \/ GoesOn(c) /\ call'[c].pc \notin {"write", "above"}
               \/ At(c, "children") /\ ~HasDependencies("resources", i) /\ GoesOn(c) /\ Goes(c, "write")
               \/ Removes(c, "resources", i) /\ Ends(c, {"ok", "failed"})
               \/ At(c, "write") /\ ReferringTo("resources", i) /\ Same /\ Ends(c, {"rejected"})
  <1> DEFINE i == call[c].req.id
  <1>1. Asks(c, {"deleteResource"}) /\ ~At(c, "idle") /\ Op(c) = "deleteResource"
    BY DEF DeleteResource, Asks, Op
  <1>2. CallsTyped /\ TablesTyped /\ i \in Ids /\ call[c].req.server \in Ids
    BY <1>1, CallFacts, RequestsAssumption DEF Op
  <1>3. db' = db => Same
    BY DEF Same, Unstamped
  <1>4. CASE GetServer(c)
    BY <1>1, <1>4, ServerLooked
  <1>5. CASE GetResource(c)
    <2>1. At(c, "resource") /\ db' = db /\ Running(c)
      BY <1>5 DEF GetResource, At, Running, Ended, Answers
    <2>2. Answer(c, "ok") \/ Goto(c, "children")
      BY <1>1, <1>5 DEF GetResource, NotFound, Deletes, Asks
    <2>3. "children" \in Steps \ {"idle"} /\ "ok" \in Answers \ {"rejected", "dangling"}
      BY DEF Steps, Answers
    <2> QED
      BY <1>2, <2>1, <2>2, <2>3, Checking DEF Goes
  <1>6. CASE CheckDependencies(c)
    <2>1. At(c, "children") /\ Check(c, ~HasDependencies("resources", i), "refused", "write") /\ Running(c)
      BY <1>1, <1>6 DEF CheckDependencies, At, Running, Ended, Answers, Asks
    <2>2. "write" \in Steps \ {"idle"} /\ "refused" \in Answers \ {"rejected", "dangling"}
      BY DEF Steps, Answers
    <2> QED
      BY <1>2, <2>1, <2>2, Checking DEF Check
  <1>7. CASE RemoveResource(c)
    <2>1. At(c, "write") /\ Write(c, TRUE, ~ReferringTo("resources", i), Without("resources", i))
      BY <1>7 DEF RemoveResource
    <2>2. db' = Without("resources", i) => Drops("resources", i)
      BY <1>2, Statements DEF Tables
    <2>3. \/ /\ ForeignKeys = {TRUE} => ~ReferringTo("resources", i)
             /\ db' = Without("resources", i) /\ Ends(c, {"ok", "failed"})
          \/ ReferringTo("resources", i) /\ db' = db /\ Ends(c, {"rejected"})
      BY <1>2, <2>1, ForeignKeysAssumption, Ending DEF Write, Answers, Ends
    <2> QED
      BY <1>1, <1>3, <2>1, <2>2, <2>3 DEF Removes, DeleteOps, Asks
  <1> QED
    BY <1>4, <1>5, <1>6, <1>7 DEF DeleteResource

\* deleteAction: nothing refers to actions.
LEMMA DeleteActionSteps ==
    ASSUME Bounds, NEW c \in Calls, DeleteAction(c)
    PROVE  \/ Stops(c)
           \/ GoesOn(c) /\ (call'[c].pc = "above" => call[c].req.above # None)
           \/ Removes(c, "actions", call[c].req.id) /\ Ends(c, {"ok", "failed"})
  <1>1. Asks(c, {"deleteAction"}) /\ ~At(c, "idle") /\ Op(c) = "deleteAction"
    BY DEF DeleteAction, Asks, Op
  <1>2. CallsTyped /\ TablesTyped /\ call[c].req.id \in Ids
    BY <1>1, CallFacts, RequestsAssumption DEF Op, ActionOps
  <1>3. CASE GetServer(c)
    BY <1>1, <1>3, ServerLooked
  <1>4. CASE GetAbove(c)
    BY <1>1, <1>4, AboveLooked
  <1>5. CASE GetAction(c)
    <2>1. At(c, "action") /\ db' = db /\ Running(c)
      BY <1>5 DEF GetAction, At, Running, Ended, Answers
    <2>2. Answer(c, "ok") \/ Goto(c, "write")
      BY <1>1, <1>5 DEF GetAction, NotFound, Deletes, Asks
    <2>3. "write" \in Steps \ {"idle"} /\ "ok" \in Answers \ {"rejected", "dangling"}
      BY DEF Steps, Answers
    <2> QED
      BY <1>2, <2>1, <2>2, <2>3, Checking DEF Goes
  <1>6. CASE RemoveAction(c)
    <2>1. At(c, "write") /\ Write(c, TRUE, TRUE, Without("actions", call[c].req.id))
      BY <1>6 DEF RemoveAction
    <2>2. db' = Without("actions", call[c].req.id) /\ Ends(c, {"ok", "failed"})
      BY <1>2, <2>1, ForeignKeysAssumption, Ending DEF Write, Answers, Ends
    <2>3. Drops("actions", call[c].req.id) /\ ~ReferringTo("actions", call[c].req.id)
      BY <1>2, <2>2, Statements DEF Tables, ReferringTo
    <2> QED
      BY <1>1, <2>1, <2>2, <2>3 DEF Removes, DeleteOps, Asks
  <1> QED
    BY <1>3, <1>4, <1>5, <1>6 DEF DeleteAction

\* Calls that change nothing that the properties are about: queries of one row, updates
\* of names and descriptions, users and their type.
LEMMA QuietSteps ==
    ASSUME Bounds, NEW c \in Calls,
           \/ GetResourceServer(c) \/ UpdateResource(c) \/ ReadResource(c)
           \/ UpdateAction(c) \/ ReadAction(c) \/ GetIdentityProvider(c) \/ ProfileService(c)
    PROVE  /\ ~Asks(c, {"createServer", "updateServer", "deleteServer", "createResource",
                        "deleteResource", "createAction", "deleteAction", "list"}
                       \cup (RegistryOps \ {"getIdp"}) \cup BrandingOps \cup {"brandApp", "resolve"})
           /\ \/ Stops(c)
              \/ GoesOn(c) /\ (call'[c].pc = "above" => call[c].req.above # None)
  <1>1. /\ ~At(c, "idle")
        /\ Op(c) \in {"getServer", "updateResource", "getResource", "updateAction", "getAction",
                      "getIdp", "createUser", "updateUser", "deleteUser", "defineType"}
    BY DEF GetResourceServer, UpdateResource, ReadResource, UpdateAction, ReadAction,
           GetIdentityProvider, ProfileService, CreateUser, UpdateUser, DeleteUser,
           UpdateUserSchema, Asks, Op
  <1>2. ~Asks(c, {"createServer", "updateServer", "deleteServer", "createResource",
                        "deleteResource", "createAction", "deleteAction", "list"}
                       \cup (RegistryOps \ {"getIdp"}) \cup BrandingOps \cup {"brandApp", "resolve"})
    BY <1>1 DEF Asks, Op, RegistryOps, BrandingOps
  <1>3. CallsTyped /\ TablesTyped
    BY <1>1, CallFacts
  <1>4. \A s : At(c, s) /\ s \notin Answers /\ s # "idle" => Running(c)
    BY DEF Running, Ended, At
  <1>5. /\ \A a \in Answers \ {"rejected", "dangling"} : Running(c) /\ Same /\ Answer(c, a) => Stops(c)
        /\ db' = db => Same
    BY <1>3, Ending DEF Stops, Same, Unstamped, Ends
  <1>6. \A s \in Steps \ {"idle"} : Running(c) /\ db' = db /\ Goto(c, s) => GoesOn(c) /\ call'[c].pc = s
    BY <1>3, Going DEF GoesOn, Goes, Same, Unstamped
  <1>7. CASE GetServer(c) /\ Op(c) \in {"getServer", "updateResource", "getResource", "updateAction", "getAction"}
    BY <1>2, <1>7, ServerLooked
  <1>8. CASE GetAbove(c) /\ Op(c) \in {"updateAction", "getAction"}
    BY <1>2, <1>8, AboveLooked
  <1>9. CASE GetResource(c) \/ GetAction(c)
    <2>1. Running(c) /\ db' = db
      BY <1>4, <1>9 DEF GetResource, GetAction, Answers
    <2>2. (\E a \in {"ok", "notFound"} : Answer(c, a)) \/ Goto(c, "write") \/ Goto(c, "children")
      BY <1>9 DEF GetResource, GetAction, NotFound
    <2> QED
      BY <1>2, <1>5, <1>6, <2>1, <2>2 DEF Answers, Steps
  <1>10. CASE StoreResource(c) \/ StoreAction(c)
    <2>1. At(c, "write") /\ Write(c, TRUE, TRUE, db)
      BY <1>10 DEF StoreResource, StoreAction
    <2>2. Running(c) /\ db' = db /\ \E a \in {"ok", "failed"} : Answer(c, a)
      BY <1>4, <2>1, ForeignKeysAssumption DEF Write, Answers
    <2> QED
      BY <1>2, <1>5, <2>2 DEF Answers
  <1>11. CASE IdpByID(c) /\ Op(c) = "getIdp"
    <2>1. Running(c) /\ db' = db
      BY <1>4, <1>11 DEF IdpByID, Answers
    <2>2. \E a \in {"ok", "notFound"} : Answer(c, a)
      BY <1>1, <1>11 DEF IdpByID, Asks, Op
    <2> QED
      BY <1>2, <1>5, <2>1, <2>2 DEF Answers
  <1>12. CASE ValidateUser(c) \/ ValidateUserUniqueness(c)
    <2>1. Running(c) /\ db' = db
      BY <1>4, <1>12 DEF ValidateUser, ValidateUserUniqueness, Check, Answers
    <2>2. \A a \in Refusals(db.type.definition, call[c].req.attrs) : a \in {"conflict", "failed"}
      BY DEF Refusals, LeafUnique
    <2>3. (\E a \in {"refused", "conflict", "failed"} : Answer(c, a)) \/ Goto(c, "unique") \/ Goto(c, "write")
      BY <1>12, <2>2 DEF ValidateUser, ValidateUserUniqueness, Check
    <2> QED
      BY <1>2, <1>5, <1>6, <2>1, <2>3 DEF Answers, Steps
  <1>13. CASE /\ At(c, "write")
              /\ \/ \E u, row, entries : Write(c, TRUE, TRUE, WithUser(u, row, entries))
                 \/ \E row : Write(c, TRUE, TRUE, [db EXCEPT !.type = row])
                 \/ Answer(c, "notFound") /\ UNCHANGED db
    <2>1. Running(c)
      BY <1>4, <1>13 DEF Answers
    <2>2. CASE Answer(c, "notFound") /\ UNCHANGED db
      BY <1>2, <1>5, <2>1, <2>2 DEF Answers
    <2>3. CASE \E u, row, entries : Write(c, TRUE, TRUE, WithUser(u, row, entries))
      <3>1. PICK u, row, entries : Write(c, TRUE, TRUE, WithUser(u, row, entries))
        BY <2>3
      <3>2. db' = WithUser(u, row, entries) /\ \E a \in {"ok", "failed"} : Answer(c, a)
        BY <3>1, ForeignKeysAssumption DEF Write
      <3> QED
        BY <1>2, <1>3, <1>5, <2>1, <3>2, ProfileStatements DEF Answers
    <2>4. CASE \E row : Write(c, TRUE, TRUE, [db EXCEPT !.type = row])
      <3>1. PICK row : Write(c, TRUE, TRUE, [db EXCEPT !.type = row])
        BY <2>4
      <3>2. db' = [db EXCEPT !.type = row] /\ \E a \in {"ok", "failed"} : Answer(c, a)
        BY <3>1, ForeignKeysAssumption DEF Write
      <3> QED
        BY <1>2, <1>3, <1>5, <2>1, <3>2, ProfileStatements DEF Answers
    <2> QED
      BY <1>13, <2>2, <2>3, <2>4
  <1>14. CASE ProfileService(c)
    <2>1. \/ ValidateUser(c) \/ ValidateUserUniqueness(c)
          \/ /\ At(c, "write")
             /\ \/ \E u, row, entries : Write(c, TRUE, TRUE, WithUser(u, row, entries))
                \/ \E row : Write(c, TRUE, TRUE, [db EXCEPT !.type = row])
                \/ Answer(c, "notFound") /\ UNCHANGED db
      BY <1>14 DEF ProfileService, CreateUser, UpdateUser, DeleteUser, UpdateUserSchema, StoreUser
    <2> QED
      BY <1>12, <1>13, <2>1
  <1>15. CASE \/ GetResourceServer(c) \/ UpdateResource(c) \/ ReadResource(c)
              \/ UpdateAction(c) \/ ReadAction(c) \/ GetIdentityProvider(c)
    BY <1>7, <1>8, <1>9, <1>10, <1>11, <1>15
       DEF GetResourceServer, UpdateResource, ReadResource, UpdateAction, ReadAction,
           GetIdentityProvider, Asks, Op
  <1> QED
    BY <1>14, <1>15

\* Nobody but the row that c names has the name.
Unnamed(c, table) ==
    \A i \in Present(table) \ {Named(c)} : db[table][i].name # call[c].req.name

\* The outcomes of a statement that no key or reference refuses.
LEMMA Unrefused ==
    ASSUME CallsTyped, NEW c \in Calls, At(c, "write"), NEW new, Write(c, TRUE, TRUE, new)
    PROVE  /\ db' = new /\ Ends(c, {"ok", "failed"}) /\ Running(c)
           /\ Same => Stops(c)
  <1>1. db' = new /\ (\E a \in {"ok", "failed"} : Answer(c, a)) /\ Running(c)
    BY ForeignKeysAssumption DEF Write, At, Running, Ended, Answers
  <1> QED
    BY <1>1, Ending DEF Answers, Ends, Stops

\* createIdp
LEMMA CreateIdpSteps ==
    ASSUME Bounds, NEW c \in Calls, CreateIdentityProvider(c)
    PROVE  \/ Stops(c)
           \/ At(c, "byName") /\ Unnamed(c, "idps") /\ Same /\ Goes(c, "write")
           \/ IdpWritten(c) /\ Ends(c, {"ok", "failed"})
  <1>1. Asks(c, {"createIdp"}) /\ ~At(c, "idle") /\ Op(c) = "createIdp"
    BY DEF CreateIdentityProvider, Asks, Op
  <1>2. CallsTyped /\ TablesTyped /\ c \in Ids
    BY <1>1, CallFacts
  <1>3. CASE IdpByName(c)
    <2>1. At(c, "byName") /\ Running(c) /\ db' = db /\ Same
      BY <1>3 DEF IdpByName, At, Running, Ended, Answers, Same, Unstamped
    <2>2. \/ WithName("idps", call[c].req.name) = {} /\ Goto(c, "write")
          \/ \E a \in {"failed", "conflict"} : Answer(c, a)
      BY <1>1, <1>3 DEF IdpByName, IdpKeepsName, Asks
    <2>3. WithName("idps", call[c].req.name) = {} => Unnamed(c, "idps")
      BY DEF WithName, Unnamed
    <2> QED
      BY <1>2, <2>1, <2>2, <2>3, Going, Ending DEF Steps, Answers, Stops, Ends
  <1>4. CASE InsertIdp(c)
    <2>1. At(c, "write") /\ db' = With("idps", c, IdpRow(c, c)) /\ Ends(c, {"ok", "failed"})
      BY <1>2, <1>4, Unrefused DEF InsertIdp
    <2>2. Inserts("idps", c, IdpRow(c, c))
      BY <1>2, <2>1, Statements DEF Tables
    <2> QED
      BY <1>1, <2>1, <2>2 DEF IdpWritten, Asks
  <1> QED
    BY <1>3, <1>4 DEF CreateIdentityProvider

\* updateIdp
LEMMA UpdateIdpSteps ==
    ASSUME Bounds, NEW c \in Calls, UpdateIdentityProvider(c)
    PROVE  LET k == call[c]
           IN  \/ Stops(c)
               \/ /\ At(c, "byID") /\ db.idps[k.req.id] # None /\ db.idps[k.req.id] \in IdpRows
                  /\ Same /\ Reads(c, "byName", db.idps[k.req.id])
               \/ /\ At(c, "byName") /\ Same /\ Goes(c, "write")
                  /\ k.row.name = k.req.name \/ Unnamed(c, "idps")
               \/ IdpWritten(c) /\ Ends(c, {"ok", "failed"})
  <1> DEFINE k == call[c]
  <1>1. Asks(c, {"updateIdp"}) /\ ~At(c, "idle") /\ Op(c) = "updateIdp"
    BY DEF UpdateIdentityProvider, Asks, Op
  <1>2. CallsTyped /\ TablesTyped /\ k.req.id \in Ids
    BY <1>1, CallFacts, RequestsAssumption DEF Op, RegistryOps
  <1>3. Named(c) = k.req.id
    BY <1>1 DEF Named, Target, Asks, RenameOps, Op
  <1>4. CASE IdpByID(c)
    <2>1. At(c, "byID") /\ Running(c) /\ db' = db /\ Same
      BY <1>4 DEF IdpByID, At, Running, Ended, Answers, Same, Unstamped
    <2>2. CASE db.idps[k.req.id] = None
      BY <1>1, <1>2, <1>4, <2>1, <2>2, Ending DEF IdpByID, Asks, Answers, Stops, Ends
    <2>3. CASE db.idps[k.req.id] # None
      <3>1. call' = [call EXCEPT ![c].row = db.idps[k.req.id], ![c].pc = "byName"]
        BY <1>1, <1>4, <2>3 DEF IdpByID, Asks
      <3>2. db.idps[k.req.id] \in IdpRows
        BY <1>2, <2>3, RowFacts
      <3> QED
        BY <1>2, <2>1, <2>3, <3>1, <3>2, Going DEF Steps
    <2> QED
      BY <2>2, <2>3
  <1>5. CASE IdpByName(c)
    <2>1. At(c, "byName") /\ Running(c) /\ db' = db /\ Same
      BY <1>5 DEF IdpByName, At, Running, Ended, Answers, Same, Unstamped
    <2>2. \/ /\ k.row.name = k.req.name \/ WithName("idps", k.req.name) = {}
             /\ Goto(c, "write")
          \/ \E a \in {"failed", "conflict"} : Answer(c, a)
      BY <1>1, <1>5 DEF IdpByName, IdpKeepsName, Asks
    <2>3. WithName("idps", k.req.name) = {} => Unnamed(c, "idps")
      BY DEF WithName, Unnamed
    <2> QED
      BY <1>2, <2>1, <2>2, <2>3, Going, Ending DEF Steps, Answers, Stops, Ends
  <1>6. CASE StoreIdp(c)
    <2>1. /\ At(c, "write") /\ db' = Replaced("idps", k.req.id, IdpRow(c, k.req.id))
          /\ Ends(c, {"ok", "failed"}) /\ (Same => Stops(c))
      BY <1>2, <1>6, Unrefused DEF StoreIdp
    <2>2. Same \/ Updates("idps", k.req.id, IdpRow(c, k.req.id))
      BY <1>2, <2>1, Statements DEF Tables
    <2> QED
      BY <1>1, <1>3, <2>1, <2>2 DEF IdpWritten, Asks
  <1> QED
    BY <1>4, <1>5, <1>6 DEF UpdateIdentityProvider

\* deleteIdp
LEMMA DeleteIdpSteps ==
    ASSUME Bounds, NEW c \in Calls, DeleteIdentityProvider(c)
    PROVE  \/ Stops(c)
           \/ GoesOn(c) /\ call'[c].pc # "above"
           \/ Removes(c, "idps", call[c].req.id) /\ Ends(c, {"ok", "failed"})
  <1> DEFINE k == call[c]
  <1>1. Asks(c, {"deleteIdp"}) /\ ~At(c, "idle") /\ Op(c) = "deleteIdp"
    BY DEF DeleteIdentityProvider, Asks, Op
  <1>2. CallsTyped /\ TablesTyped /\ k.req.id \in Ids
    BY <1>1, CallFacts, RequestsAssumption DEF Op, RegistryOps
  <1>3. CASE IdpByID(c)
    <2>1. At(c, "byID") /\ Running(c) /\ db' = db /\ Same
      BY <1>3 DEF IdpByID, At, Running, Ended, Answers, Same, Unstamped
    <2>2. CASE db.idps[k.req.id] = None
      BY <1>1, <1>2, <1>3, <2>1, <2>2, Ending DEF IdpByID, Asks, Answers, Stops, Ends
    <2>3. CASE db.idps[k.req.id] # None
      <3>1. call' = [call EXCEPT ![c].row = db.idps[k.req.id], ![c].pc = "write"]
        BY <1>1, <1>3, <2>3 DEF IdpByID, Asks, Op
      <3>2. db.idps[k.req.id] \in IdpRows
        BY <1>2, <2>3, RowFacts
      <3> QED
        BY <1>2, <2>1, <2>3, <3>1, <3>2, Going DEF Steps, GoesOn, Reads
    <2> QED
      BY <2>2, <2>3
  <1>4. CASE RemoveIdp(c)
    <2>1. At(c, "write") /\ db' = Without("idps", k.req.id) /\ Ends(c, {"ok", "failed"})
      BY <1>2, <1>4, Unrefused DEF RemoveIdp
    <2>2. Drops("idps", k.req.id) /\ ~ReferringTo("idps", k.req.id)
      BY <1>2, <2>1, Statements DEF Tables, ReferringTo
    <2> QED
      BY <2>1, <2>2 DEF Removes
  <1> QED
    BY <1>3, <1>4 DEF DeleteIdentityProvider

\* createSender
LEMMA CreateSenderSteps ==
    ASSUME Bounds, NEW c \in Calls, CreateSender(c)
    PROVE  \/ Stops(c)
           \/ At(c, "byName") /\ Unnamed(c, "senders") /\ Same /\ Goes(c, "write")
           \/ SenderWritten(c) /\ Ends(c, {"ok", "failed"})
  <1>1. Asks(c, {"createSender"}) /\ ~At(c, "idle") /\ Op(c) = "createSender"
    BY DEF CreateSender, Asks, Op
  <1>2. CallsTyped /\ TablesTyped /\ c \in Ids
    BY <1>1, CallFacts
  <1>3. CASE SenderByName(c)
    <2>1. At(c, "byName") /\ Running(c) /\ db' = db /\ Same
      BY <1>3 DEF SenderByName, At, Running, Ended, Answers, Same, Unstamped
    <2>2. \/ WithName("senders", call[c].req.name) \subseteq {} /\ Goto(c, "write")
          \/ \E a \in {"failed", "conflict"} : Answer(c, a)
      BY <1>1, <1>3 DEF SenderByName, Op
    <2>3. WithName("senders", call[c].req.name) \subseteq {} => Unnamed(c, "senders")
      BY DEF WithName, Unnamed
    <2> QED
      BY <1>2, <2>1, <2>2, <2>3, Going, Ending DEF Steps, Answers, Stops, Ends
  <1>4. CASE InsertSender(c)
    <2>1. At(c, "write") /\ db' = With("senders", c, SenderRow(c, c)) /\ Ends(c, {"ok", "failed"})
      BY <1>2, <1>4, Unrefused DEF InsertSender
    <2>2. Inserts("senders", c, SenderRow(c, c))
      BY <1>2, <2>1, Statements DEF Tables
    <2> QED
      BY <1>1, <2>1, <2>2 DEF SenderWritten, Asks
  <1> QED
    BY <1>3, <1>4 DEF CreateSender

\* updateSender
LEMMA UpdateSenderSteps ==
    ASSUME Bounds, NEW c \in Calls, UpdateSender(c)
    PROVE  LET k == call[c]
           IN  \/ Stops(c)
               \/ /\ At(c, "byID") /\ db.senders[k.req.id] # None
                  /\ db.senders[k.req.id] \in SenderRows
                  /\ Same /\ Reads(c, "byName", db.senders[k.req.id])
               \/ /\ At(c, "byName") /\ Same /\ Goes(c, "write")
                  /\ k.row.name = k.req.name \/ Unnamed(c, "senders")
               \/ SenderWritten(c) /\ Ends(c, {"ok", "failed"})
  <1> DEFINE k == call[c]
  <1>1. Asks(c, {"updateSender"}) /\ ~At(c, "idle") /\ Op(c) = "updateSender"
    BY DEF UpdateSender, Asks, Op
  <1>2. CallsTyped /\ TablesTyped /\ k.req.id \in Ids
    BY <1>1, CallFacts, RequestsAssumption DEF Op, RegistryOps
  <1>3. Named(c) = k.req.id
    BY <1>1 DEF Named, Target, Asks, RenameOps, Op
  <1>4. CASE SenderByID(c)
    <2>1. At(c, "byID") /\ Running(c) /\ db' = db /\ Same
      BY <1>4 DEF SenderByID, At, Running, Ended, Answers, Same, Unstamped
    <2>2. CASE db.senders[k.req.id] = None
      BY <1>1, <1>2, <1>4, <2>1, <2>2, Ending DEF SenderByID, Asks, Answers, Stops, Ends
    <2>3. CASE db.senders[k.req.id] # None
      <3>1. call' = [call EXCEPT ![c].row = db.senders[k.req.id], ![c].pc = "byName"]
        BY <1>1, <1>4, <2>3 DEF SenderByID, Asks
      <3>2. db.senders[k.req.id] \in SenderRows
        BY <1>2, <2>3, RowFacts
      <3> QED
        BY <1>2, <2>1, <2>3, <3>1, <3>2, Going DEF Steps
    <2> QED
      BY <2>2, <2>3
  <1>5. CASE SenderByName(c)
    <2>1. At(c, "byName") /\ Running(c) /\ db' = db /\ Same
      BY <1>5 DEF SenderByName, At, Running, Ended, Answers, Same, Unstamped
    <2>2. \/ /\ k.row.name = k.req.name \/ WithName("senders", k.req.name) \subseteq {k.req.id}
             /\ Goto(c, "write")
          \/ \E a \in {"failed", "conflict", "refused"} : Answer(c, a)
      BY <1>1, <1>5 DEF SenderByName, Op
    <2>3. WithName("senders", k.req.name) \subseteq {k.req.id} => Unnamed(c, "senders")
      BY <1>3 DEF WithName, Unnamed
    <2> QED
      BY <1>2, <2>1, <2>2, <2>3, Going, Ending DEF Steps, Answers, Stops, Ends
  <1>6. CASE StoreSender(c)
    <2>1. /\ At(c, "write") /\ Ends(c, {"ok", "failed"}) /\ (Same => Stops(c))
          /\ db' = db \/ db' = Replaced("senders", k.req.id, SenderRow(c, k.req.id))
      BY <1>2, <1>6, Unrefused DEF StoreSender
    <2>2. Same \/ Updates("senders", k.req.id, SenderRow(c, k.req.id))
      BY <1>2, <2>1, Statements DEF Tables
    <2> QED
      BY <1>1, <1>3, <2>1, <2>2 DEF SenderWritten, Asks
  <1> QED
    BY <1>4, <1>5, <1>6 DEF UpdateSender

\* deleteSender
LEMMA DeleteSenderSteps ==
    ASSUME Bounds, NEW c \in Calls, DeleteSender(c)
    PROVE  Removes(c, "senders", call[c].req.id) /\ Ends(c, {"ok", "failed"})
  <1> DEFINE k == call[c]
  <1>1. Asks(c, {"deleteSender"}) /\ ~At(c, "idle") /\ Op(c) = "deleteSender" /\ RemoveSender(c)
    BY DEF DeleteSender, Asks, Op
  <1>2. CallsTyped /\ TablesTyped /\ k.req.id \in Ids
    BY <1>1, CallFacts, RequestsAssumption DEF Op, RegistryOps
  <1>3. At(c, "write") /\ db' = Without("senders", k.req.id) /\ Ends(c, {"ok", "failed"})
    BY <1>1, <1>2, Unrefused DEF RemoveSender
  <1>4. Drops("senders", k.req.id) /\ ~ReferringTo("senders", k.req.id)
    BY <1>2, <1>3, Statements DEF Tables, ReferringTo
  <1> QED
    BY <1>3, <1>4 DEF Removes

\* createBranding
LEMMA CreateBrandingSteps ==
    ASSUME Bounds, NEW c \in Calls, CreateBranding(c)
    PROVE  BrandingWritten(c) /\ Ends(c, {"ok", "failed"})
  <1>1. Asks(c, {"createBranding"}) /\ ~At(c, "idle") /\ Op(c) = "createBranding" /\ InsertBranding(c)
    BY DEF CreateBranding, Asks, Op
  <1>2. CallsTyped /\ TablesTyped /\ c \in Ids
    BY <1>1, CallFacts
  <1>3. At(c, "write") /\ db' = With("brandings", c, [content |-> c]) /\ Ends(c, {"ok", "failed"})
    BY <1>1, <1>2, Unrefused DEF InsertBranding
  <1>4. Inserts("brandings", c, [content |-> c])
    BY <1>2, <1>3, Statements DEF Tables
  <1> QED
    BY <1>1, <1>3, <1>4 DEF BrandingWritten, Asks

\* updateBranding
LEMMA UpdateBrandingSteps ==
    ASSUME Bounds, NEW c \in Calls, UpdateBranding(c)
    PROVE  Stops(c) \/ (BrandingWritten(c) /\ Ends(c, {"ok", "failed"}))
  <1> DEFINE i == call[c].req.branding
  <1>1. Asks(c, {"updateBranding"}) /\ ~At(c, "idle") /\ Op(c) = "updateBranding" /\ StoreBranding(c)
    BY DEF UpdateBranding, Asks, Op
  <1>2. CallsTyped /\ TablesTyped /\ i \in Ids /\ At(c, "write") /\ Running(c)
    BY <1>1, CallFacts, RequestsAssumption DEF Op, StoreBranding, At, Running, Ended, Answers
  <1>3. CASE db.brandings[i] = None
    BY <1>1, <1>2, <1>3, Ending DEF StoreBranding, Answers, Stops, Ends, Same, Unstamped
  <1>4. CASE db.brandings[i] # None
    <2>1. /\ db' = Replaced("brandings", i, [content |-> c]) /\ Ends(c, {"ok", "failed"})
          /\ Same => Stops(c)
      BY <1>1, <1>2, <1>4, Unrefused DEF StoreBranding
    <2>2. Same \/ Updates("brandings", i, [content |-> c])
      BY <1>2, <2>1, Statements DEF Tables
    <2> QED
      BY <1>1, <1>2, <2>1, <2>2 DEF BrandingWritten, Asks
  <1> QED
    BY <1>3, <1>4

\* deleteBranding
LEMMA DeleteBrandingSteps ==
    ASSUME Bounds, NEW c \in Calls, DeleteBranding(c)
    PROVE  LET i == call[c].req.branding
           IN  \/ Stops(c)
               \/ GoesOn(c) /\ call'[c].pc = "inUse"
               \/ At(c, "inUse") /\ ApplicationsOf(i) = {} /\ GoesOn(c) /\ Goes(c, "write")
               \/ Removes(c, "brandings", i) /\ Ends(c, {"ok", "failed"})
               \/ At(c, "write") /\ ReferringTo("brandings", i) /\ Same /\ Ends(c, {"rejected"})
  <1> DEFINE i == call[c].req.branding
  <1>1. Asks(c, {"deleteBranding"}) /\ ~At(c, "idle") /\ Op(c) = "deleteBranding"
    BY DEF DeleteBranding, Asks, Op
  <1>2. CallsTyped /\ TablesTyped /\ i \in Ids
    BY <1>1, CallFacts, RequestsAssumption DEF Op
  <1>3. /\ "write" \in Steps \ {"idle"} /\ "inUse" \in Steps \ {"idle"}
        /\ {"ok", "refused"} \subseteq Answers \ {"rejected", "dangling"}
    BY DEF Steps, Answers
  <1>4. CASE BrandingExists(c)
    <2>1. At(c, "exists") /\ Check(c, db.brandings[i] # None, "ok", "inUse") /\ Running(c)
      BY <1>1, <1>4 DEF BrandingExists, At, Running, Ended, Answers
    <2>2. (db' = db /\ Goto(c, "inUse")) \/ (db' = db /\ Answer(c, "ok"))
      BY <2>1 DEF Check
    <2> QED
      BY <1>2, <1>3, <2>1, <2>2, Checking DEF Goes
  <1>5. CASE BrandingInUse(c)
    <2>1. At(c, "inUse") /\ Check(c, ApplicationsOf(i) = {}, "refused", "write") /\ Running(c)
      BY <1>5 DEF BrandingInUse, At, Running, Ended, Answers
    <2> QED
      BY <1>2, <1>3, <2>1, Checking DEF Check
  <1>6. CASE RemoveBranding(c)
    <2>1. At(c, "write") /\ Write(c, TRUE, ~ReferringTo("brandings", i), Without("brandings", i))
      BY <1>6 DEF RemoveBranding
    <2>2. db' = Without("brandings", i) => Drops("brandings", i)
      BY <1>2, Statements DEF Tables
    <2>3. \/ /\ ForeignKeys = {TRUE} => ~ReferringTo("brandings", i)
             /\ db' = Without("brandings", i) /\ Ends(c, {"ok", "failed"})
          \/ ReferringTo("brandings", i) /\ db' = db /\ Ends(c, {"rejected"})
      BY <1>2, <2>1, ForeignKeysAssumption, Ending DEF Write, Answers, Ends
    <2> QED
      BY <1>1, <2>1, <2>2, <2>3 DEF Removes, DeleteOps, Asks, Same, Unstamped
  <1> QED
    BY <1>4, <1>5, <1>6 DEF DeleteBranding

\* brandApp
LEMMA BrandApplicationSteps ==
    ASSUME Bounds, NEW c \in Calls, BrandApplication(c)
    PROVE  LET req == call[c].req
               there == req.branding = None \/ db.brandings[req.branding] # None
           IN  \/ Stops(c)
               \/ At(c, "exists") /\ there /\ GoesOn(c) /\ Goes(c, "write")
               \/ AppWritten(c) /\ Ends(c, {"ok", "failed"})
               \/ At(c, "write") /\ ~there /\ Same /\ Ends(c, {"rejected"})
  <1> DEFINE req == call[c].req
             there == req.branding = None \/ db.brandings[req.branding] # None
  <1>1. Asks(c, {"brandApp"}) /\ ~At(c, "idle") /\ Op(c) = "brandApp"
    BY DEF BrandApplication, Asks, Op
  <1>2. CallsTyped /\ TablesTyped /\ req.app \in Ids
    BY <1>1, CallFacts, RequestsAssumption DEF Op
  <1>3. CASE BrandingExists(c)
    <2>1. At(c, "exists") /\ Check(c, db.brandings[req.branding] # None, "notFound", "write") /\ Running(c)
      BY <1>1, <1>3 DEF BrandingExists, At, Running, Ended, Answers, Asks
    <2>2. "write" \in Steps \ {"idle"} /\ "notFound" \in Answers \ {"rejected", "dangling"}
      BY DEF Steps, Answers
    <2> QED
      BY <1>2, <2>1, <2>2, Checking DEF Check
  <1>4. CASE StoreApplication(c)
    <2> DEFINE row == [branding |-> req.branding]
    <2>1. At(c, "write") /\ Write(c, TRUE, there, Replaced("apps", req.app, row)) /\ Running(c)
      BY <1>4 DEF StoreApplication, At, Running, Ended, Answers
    <2>2. db' = Replaced("apps", req.app, row) => Same \/ Updates("apps", req.app, row)
      BY <1>2, Statements DEF Tables
    <2>3. (ForeignKeys = {TRUE} => there) /\ Updates("apps", req.app, row) => AppWritten(c)
      BY <1>1, <2>1 DEF AppWritten
    <2> HIDE DEF row, there
    <2>4. \/ /\ ForeignKeys = {TRUE} => there
             /\ db' = Replaced("apps", req.app, row) /\ Ends(c, {"ok", "failed"})
          \/ ~there /\ db' = db /\ Ends(c, {"rejected"})
      BY <1>2, <2>1, ForeignKeysAssumption, Ending DEF Write, Answers, Ends
    <2>5. Same /\ Ends(c, {"ok", "failed"}) => Stops(c)
      BY <2>1 DEF Stops, Ends, Answers
    <2>6. db' = db => Same
      BY DEF Same, Unstamped
    <2> QED
      BY <2>1, <2>2, <2>3, <2>4, <2>5, <2>6 DEF there
  <1> QED
    BY <1>3, <1>4 DEF BrandApplication

\* resolve
LEMMA ResolveBrandingSteps ==
    ASSUME Bounds, NEW c \in Calls, ResolveBranding(c)
    PROVE  LET row == db.apps[call[c].req.app]
           IN  \/ Stops(c)
               \/ /\ At(c, "app") /\ row # None /\ row \in AppRows /\ row.branding # None
                  /\ Same /\ Reads(c, "branding", row)
               \/ /\ At(c, "branding") /\ db.brandings[call[c].row.branding] = None
                  /\ Same /\ Ends(c, {"dangling"})
  <1> DEFINE row == db.apps[call[c].req.app]
  <1>1. Asks(c, {"resolve"}) /\ ~At(c, "idle") /\ Op(c) = "resolve"
    BY DEF ResolveBranding, Asks, Op
  <1>2. CallsTyped /\ TablesTyped /\ call[c].req.app \in Ids
    BY <1>1, CallFacts, RequestsAssumption DEF Op
  <1>3. CASE GetApplication(c)
    <2>1. At(c, "app") /\ Running(c) /\ Same
      BY <1>3 DEF GetApplication, At, Running, Ended, Answers, Same, Unstamped
    <2>2. CASE row = None \/ row.branding = None
      BY <1>2, <1>3, <2>1, <2>2, Ending DEF GetApplication, Answers, Stops, Ends
    <2>3. CASE row # None /\ row.branding # None
      <3>1. call' = [call EXCEPT ![c].row = row, ![c].pc = "branding"]
        BY <1>3, <2>3 DEF GetApplication
      <3>2. row \in AppRows
        BY <1>2, <2>3, RowFacts
      <3> QED
        BY <1>2, <2>1, <2>3, <3>1, <3>2, Going DEF Steps
    <2> QED
      BY <2>2, <2>3
  <1>4. CASE GetBranding(c)
    <2>1. At(c, "branding") /\ Running(c) /\ Same
      BY <1>4 DEF GetBranding, At, Running, Ended, Answers, Same, Unstamped
    <2>2. CASE db.brandings[call[c].row.branding] = None
      BY <1>2, <1>4, <2>1, <2>2, Ending DEF GetBranding
    <2>3. CASE db.brandings[call[c].row.branding] # None
      BY <1>2, <1>4, <2>1, <2>3, Ending DEF GetBranding, Answers, Stops, Ends
    <2> QED
      BY <2>2, <2>3
  <1> QED
    BY <1>3, <1>4 DEF ResolveBranding

\* The last page begins at a multiple of the limit and has the last of the rows.
LEMMA LastPage ==
    ASSUME NEW total \in Nat, NEW limit \in Nat, limit # 0
    PROVE  LET page == ((total - 1) \div limit) * limit
           IN  page \in Int /\ page + limit >= total
  <1> DEFINE q == (total - 1) \div limit
  <1>1. q \in Int
    OBVIOUS
  <1>2. total - 1 < (q + 1) * limit
    OBVIOUS
  <1>3. (q + 1) * limit = q * limit + limit
    BY <1>1
  <1>4. q * limit \in Int
    BY <1>1
  <1> HIDE DEF q
  <1>5. q * limit + limit >= total
    BY <1>2, <1>3, <1>4
  <1> QED
    BY <1>4, <1>5 DEF q

\* The rows of a list are rows of its table, and finitely many.
LEMMA ListRows ==
    ASSUME Bounds, NEW c \in Calls, Asks(c, {"list"})
    PROVE  /\ call[c].req.table \in {"servers", "resources", "actions", "brandings"}
           /\ call[c].req.forward \in BOOLEAN
           /\ List(c) \subseteq Present(call[c].req.table)
           /\ List(c) \subseteq Ids
           /\ IsFiniteSet(List(c))
           /\ Cardinality(List(c)) \in Nat
           /\ \A i \in List(c) : Place(c, i) \in Nat /\ Place(c, i) < Cardinality(List(c))
  <1> DEFINE table == call[c].req.table
  <1>1. ~At(c, "idle") /\ Op(c) = "list"
    BY DEF Asks, Op
  <1>2. table \in {"servers", "resources", "actions", "brandings"} /\ call[c].req.forward \in BOOLEAN
    BY <1>1, CallFacts, RequestsAssumption DEF Op
  <1>3. table \in Tables /\ IsFiniteSet(Present(table))
    BY <1>2 DEF Tables, Bounds, RowsFinite
  <1>4. List(c) \subseteq Present(table)
    BY <1>2 DEF List, ServerList, BrandingList, ResourceList, ActionList
  <1>5. IsFiniteSet(List(c)) /\ Cardinality(List(c)) \in Nat
    BY <1>3, <1>4, FS_Subset, FS_CardinalityType
  <1>6. List(c) \subseteq Ids
    BY <1>4 DEF Present, PresentIn
  <1>7. ASSUME NEW i \in List(c) PROVE Place(c, i) \in Nat /\ Place(c, i) < Cardinality(List(c))
    <2> DEFINE newer == {j \in List(c) : db.created[<<table, j>>] > db.created[<<table, i>>]}
               other == List(c) \ {i}
    <2>1. IsFiniteSet(other) /\ Cardinality(other) = Cardinality(List(c)) - 1 /\ Cardinality(other) \in Nat
      BY <1>5, <1>7, FS_RemoveElement, FS_CardinalityType
    <2>2. newer \subseteq other
      <3>1. db.created[<<table, i>>] \in Nat
        BY <1>3, <1>6, <1>7 DEF Bounds, TablesTyped
      <3> QED
        BY <3>1
    <2>3. IsFiniteSet(newer) /\ Cardinality(newer) <= Cardinality(other) /\ Cardinality(newer) \in Nat
      BY <2>1, <2>2, FS_Subset, FS_CardinalityType
    <2>4. Place(c, i) = Cardinality(newer)
      BY DEF Place
    <2> HIDE DEF newer, other
    <2> QED
      BY <1>5, <2>1, <2>3, <2>4
  <1> QED
    BY <1>2, <1>4, <1>5, <1>6, <1>7

\* A page: the rows that the client collects, and where it goes from there.
PageRead(c) ==
    LET k == call[c]
        n == call'[c]
        limit == k.req.limit
        last == ((k.total - 1) \div limit) * limit
        first == FirstStep(k.req)
        seen == k.listed \cup {i \in List(c) : Place(c, i) \in k.offset .. k.offset + limit - 1}
    IN  /\ n.slipped = (k.slipped \/ Cardinality(List(c)) # k.total)
        /\ \/ k.req.forward /\ n.listed = seen /\ n.back = k.back
              /\ \/ k.offset + limit < k.total /\ n.offset = k.offset + limit /\ n.pc = first
                 \/ k.offset + limit >= k.total /\ n.pc = "ok"
           \/ ~k.req.forward /\ ~k.back /\ k.offset < last
              /\ n.listed = {} /\ n.back /\ n.offset = last /\ n.pc = first
           \/ ~k.req.forward /\ ~k.back /\ k.offset >= last
              /\ n.listed = seen /\ ~n.back /\ n.pc = "ok"
           \/ ~k.req.forward /\ k.back /\ n.listed = seen /\ n.back
              /\ \/ k.offset = 0 /\ n.pc = "ok"
                 \/ k.offset > 0 /\ k.offset < limit /\ n.offset = 0 /\ n.pc = first
                 \/ k.offset >= limit /\ n.offset = k.offset - limit /\ n.pc = first

\* A call that is assigned a new state has it, and no other call changes.
LEMMA Assigned ==
    ASSUME CallsTyped, NEW c \in Calls, NEW new \in CallStates, call' = [call EXCEPT ![c] = new],
           new.req = call[c].req, new.start = call[c].start, new.before = call[c].before
    PROVE  Keeps(c) /\ call'[c] = new
  BY DEF CallsTyped, Keeps

Turned(c, step, listed, offset, back, slipped) ==
    call' = [call EXCEPT ![c].pc = step, ![c].row = None, ![c].above = None,
                         ![c].listed = listed, ![c].offset = offset, ![c].back = back,
                         ![c].slipped = slipped]

\* The state of a call that has read a page.
LEMMA Turning ==
    ASSUME CallsTyped, NEW c \in Calls, NEW step \in Steps \cup Answers, NEW listed \in SUBSET Ids,
           NEW offset \in Nat, NEW back \in BOOLEAN, NEW slipped \in BOOLEAN,
           Turned(c, step, listed, offset, back, slipped)
    PROVE  /\ Keeps(c)
           /\ call'[c].pc = step /\ call'[c].row = None /\ call'[c].above = None
           /\ call'[c].listed = listed /\ call'[c].offset = offset
           /\ call'[c].back = back /\ call'[c].slipped = slipped
  <1> DEFINE k == call[c]
             one == [k EXCEPT !.pc = step, !.row = None, !.above = None, !.listed = listed]
             two == [one EXCEPT !.offset = offset, !.back = back, !.slipped = slipped]
  <1>1. k \in CallStates
    BY DEF CallsTyped
  <1>2. call' = [call EXCEPT ![c] = two]
    BY DEF CallsTyped, Turned
  <1>3. /\ one \in CallStates
        /\ one.pc = step /\ one.row = None /\ one.above = None /\ one.listed = listed
        /\ one.req = k.req /\ one.start = k.start /\ one.before = k.before
    BY <1>1 DEF CallStates
  <1> HIDE DEF one
  <1>4. /\ two \in CallStates
        /\ two.offset = offset /\ two.back = back /\ two.slipped = slipped
        /\ two.pc = step /\ two.row = None /\ two.above = None /\ two.listed = listed
        /\ two.req = k.req /\ two.start = k.start /\ two.before = k.before
    BY <1>3 DEF CallStates
  <1> HIDE DEF two
  <1>5. Keeps(c) /\ call'[c] = two
    BY <1>2, <1>4, Assigned
  <1> QED
    BY <1>4, <1>5

\* A list whose server, or whose resource above, is not there is not found.
LEMMA ListNotFound ==
    ASSUME Bounds, NEW c \in Calls, Asks(c, {"list"}), GetServer(c) \/ GetAbove(c)
    PROVE  call'[c].pc # "ok"
  <1>1. CallsTyped /\ ~Deletes(c) /\ ~Asks(c, {"getServer"}) /\ ~Asks(c, {"createResource"})
    BY DEF Bounds, Asks, Deletes
  <1>2. CASE NotFound(c)
    <2>1. Answer(c, "notFound")
      BY <1>1, <1>2 DEF NotFound
    <2> QED
      BY <1>1, <2>1, Ending DEF Answers, Ends
  <1>3. AfterAbove(c) = "count"
    BY DEF AfterAbove, Asks
  <1>4. AfterServer(c) \in {"count", "above"}
    BY <1>3 DEF AfterServer, Asks, ActionOps
  <1>5. CASE ~NotFound(c) /\ GetServer(c)
    <2>1. call' = [call EXCEPT ![c].row = db.servers[call[c].req.server], ![c].pc = AfterServer(c)]
      BY <1>1, <1>5 DEF GetServer
    <2> QED
      BY <1>1, <1>4, <2>1 DEF CallsTyped, CallStates
  <1>6. CASE ~NotFound(c) /\ GetAbove(c)
    <2>1. call' = [call EXCEPT ![c].above = ResourceOf(c, call[c].req.above), ![c].pc = AfterAbove(c)]
      BY <1>1, <1>6 DEF GetAbove
    <2> QED
      BY <1>1, <1>3, <2>1 DEF CallsTyped, CallStates
  <1> QED
    BY <1>2, <1>5, <1>6

\* list
LEMMA ListSteps ==
    ASSUME Bounds, NEW c \in Calls, ReadList(c)
    PROVE  \/ Stops(c) /\ call'[c].pc # "ok"
           \/ /\ GoesOn(c) /\ call'[c].pc \in {"above", "count"}
              /\ At(c, "server") \/ At(c, "above")
              /\ call'[c].pc = "above" => call[c].req.above # None
           \/ /\ At(c, "count") /\ Same /\ Keeps(c) /\ call'[c].pc = "page"
              /\ call'[c].total = Cardinality(List(c))
              /\ call'[c].offset = call[c].offset /\ call'[c].back = call[c].back
              /\ call'[c].listed = call[c].listed /\ call'[c].slipped = call[c].slipped
           \/ /\ At(c, "page") /\ Same /\ Keeps(c) /\ PageRead(c)
              /\ call'[c].row = None /\ call'[c].above = None
  <1> DEFINE k == call[c]
             limit == k.req.limit
             last == ((k.total - 1) \div limit) * limit
  <1>1. Asks(c, {"list"}) /\ ~At(c, "idle") /\ Op(c) = "list"
    BY DEF ReadList, Asks, Op
  <1>2. /\ CallsTyped /\ TablesTyped /\ k \in CallStates
        /\ k.req \in Requests /\ k.req.forward \in BOOLEAN
        /\ List(c) \subseteq Ids /\ Cardinality(List(c)) \in Nat
    BY <1>1, CallFacts, ListRows DEF CallsTyped
  <1>3. CASE GetServer(c)
    BY <1>1, <1>3, ServerLooked, ListNotFound DEF GetServer
  <1>4. CASE GetAbove(c)
    BY <1>1, <1>4, AboveLooked, ListNotFound DEF GetAbove
  <1>5. CASE Count(c)
    <2> DEFINE new == [k EXCEPT !.pc = "page", !.total = Cardinality(List(c))]
    <2>1. At(c, "count") /\ Same /\ call' = [call EXCEPT ![c] = new]
      BY <1>2, <1>5 DEF Count, CallsTyped, Same, Unstamped
    <2>2. /\ new \in CallStates
          /\ new.req = k.req /\ new.start = k.start /\ new.before = k.before
          /\ new.pc = "page" /\ new.total = Cardinality(List(c)) /\ new.offset = k.offset
          /\ new.back = k.back /\ new.listed = k.listed /\ new.slipped = k.slipped
      BY <1>2 DEF CallStates, Steps
    <2> HIDE DEF new
    <2>3. Keeps(c) /\ call'[c] = new
      BY <1>2, <2>1, <2>2, Assigned
    <2> QED
      BY <2>1, <2>2, <2>3
  <1>6. CASE Page(c, FirstStep(k.req))
    <2> DEFINE links == Links(limit, k.offset, k.total)
               turns == ~k.req.forward /\ ~k.back /\ links.last # None
               to == IF k.req.forward THEN links.next ELSE IF turns THEN links.last ELSE links.prev
               first == FirstStep(k.req)
               seen == k.listed \cup {i \in List(c) : Place(c, i) \in k.offset .. k.offset + limit - 1}
               back == k.back \/ turns
               step == IF to = None THEN "ok" ELSE first
               rows == IF turns THEN {} ELSE seen
               offset == IF to = None THEN k.offset ELSE to
               slipped == k.slipped \/ Cardinality(List(c)) # k.total
    <2>1. At(c, "page") /\ Same
      BY <1>6 DEF Page, Same, Unstamped
    <2>2. Running(c)
      BY <2>1 DEF At, Running, Ended, Answers
    <2>3. /\ limit \in Nat /\ limit # 0 /\ k.offset \in Nat /\ k.total \in Nat
          /\ k.back \in BOOLEAN /\ k.slipped \in BOOLEAN
          /\ k.back => ~k.req.forward
          /\ ~k.back /\ ~k.req.forward => k.offset = 0
      BY <1>1, <1>2, <2>2, CallFacts, ValuesAssumption DEF ListCourse, CallStates
    <2>4. last \in Int
      BY <2>3, LastPage
    <2>5. first \in Steps
      BY <1>1 DEF FirstStep, Steps
    <2>6. Turned(c, step, rows, offset, back, slipped)
      BY <1>6 DEF Page, Turned
    <2>7. links = [prev |-> IF k.offset = 0 THEN None ELSE IF k.offset < limit THEN 0 ELSE k.offset - limit,
                   next |-> IF k.offset + limit < k.total THEN k.offset + limit ELSE None,
                   last |-> IF k.offset < last THEN last ELSE None]
      BY DEF Links
    <2>8. seen \in SUBSET Ids
      BY <1>2 DEF CallStates
    <2> HIDE DEF last, first, seen, links
    <2>9. /\ links.next = IF k.offset + limit < k.total THEN k.offset + limit ELSE None
          /\ links.last = IF k.offset < last THEN last ELSE None
          /\ links.prev = IF k.offset = 0 THEN None ELSE IF k.offset < limit THEN 0 ELSE k.offset - limit
      BY <2>7
    <2>10. turns <=> ~k.req.forward /\ ~k.back /\ k.offset < last
      BY <2>3, <2>4, <2>9, ValuesAssumption
    <2>11. /\ k.req.forward => to = links.next
           /\ turns => to = links.last
           /\ ~k.req.forward /\ ~turns => to = links.prev
      OBVIOUS
    <2> HIDE DEF turns, to
    <2>12. to \in Nat \cup {None}
      BY <2>3, <2>4, <2>9, <2>10, <2>11
    <2>13. /\ offset \in Nat /\ rows \in SUBSET Ids /\ step \in Steps \cup Answers
           /\ back \in BOOLEAN /\ slipped \in BOOLEAN
      BY <2>3, <2>5, <2>8, <2>12 DEF Answers
    <2> HIDE DEF back, slipped, step, rows, offset
    <2>14. /\ Keeps(c) /\ call'[c].row = None /\ call'[c].above = None
           /\ call'[c].slipped = slipped /\ call'[c].back = back
           /\ call'[c].pc = step /\ call'[c].listed = rows /\ call'[c].offset = offset
      BY <1>2, <2>6, <2>13, Turning
    <2>15. \/ /\ k.req.forward /\ ~turns
              /\ \/ k.offset + limit < k.total /\ to = k.offset + limit /\ to # None
                 \/ k.offset + limit >= k.total /\ to = None
           \/ /\ ~k.req.forward /\ ~k.back /\ k.offset < last /\ turns /\ to = last /\ to # None
           \/ /\ ~k.req.forward /\ ~k.back /\ k.offset >= last /\ ~turns /\ to = None
           \/ /\ ~k.req.forward /\ k.back /\ ~turns
              /\ \/ k.offset = 0 /\ to = None
                 \/ k.offset > 0 /\ k.offset < limit /\ to = 0 /\ to # None
                 \/ k.offset >= limit /\ to = k.offset - limit /\ to # None
      <3>1. CASE k.req.forward
        BY <2>3, <2>9, <2>10, <2>11, <3>1, ValuesAssumption
      <3>2. CASE ~k.req.forward /\ ~k.back
        BY <2>3, <2>4, <2>9, <2>10, <2>11, <3>2, ValuesAssumption
      <3>3. CASE ~k.req.forward /\ k.back
        BY <2>3, <2>9, <2>10, <2>11, <3>3, ValuesAssumption
      <3> QED
        BY <2>3, <3>1, <3>2, <3>3
    <2>16. PageRead(c)
      <3> DEFINE n == call'[c]
      <3>1. /\ n.slipped = (k.slipped \/ Cardinality(List(c)) # k.total)
            /\ n.pc = IF to = None THEN "ok" ELSE first
            /\ n.listed = IF turns THEN {} ELSE seen
            /\ n.offset = IF to = None THEN k.offset ELSE to
            /\ n.back = (k.back \/ turns)
        BY <2>14 DEF back, slipped, step, rows, offset
      <3> HIDE DEF n
      <3> DEFINE Read ==
              \/ k.req.forward /\ n.listed = seen /\ n.back = k.back
                 /\ \/ k.offset + limit < k.total /\ n.offset = k.offset + limit /\ n.pc = first
                    \/ k.offset + limit >= k.total /\ n.pc = "ok"
              \/ ~k.req.forward /\ ~k.back /\ k.offset < last
                 /\ n.listed = {} /\ n.back /\ n.offset = last /\ n.pc = first
              \/ ~k.req.forward /\ ~k.back /\ k.offset >= last
                 /\ n.listed = seen /\ ~n.back /\ n.pc = "ok"
              \/ ~k.req.forward /\ k.back /\ n.listed = seen /\ n.back
                 /\ \/ k.offset = 0 /\ n.pc = "ok"
                    \/ k.offset > 0 /\ k.offset < limit /\ n.offset = 0 /\ n.pc = first
                    \/ k.offset >= limit /\ n.offset = k.offset - limit /\ n.pc = first
      <3>2. Read
        BY <2>3, <2>15, <3>1
      <3> QED
        BY <3>1, <3>2 DEF PageRead, n, seen, first, last
    <2> QED
      BY <2>1, <2>14, <2>16
  <1> QED
    BY <1>3, <1>4, <1>5, <1>6 DEF ReadList

-----------------------------------------------------------------------------
(* What all steps have in common.                                          *)

\* Why a key turns a call away, or a branding is not found.
Barred(c) ==
    LET req == call[c].req
    IN  \/ At(c, "write") /\ Asks(c, {"createServer"}) /\ ~ServerUnique(c, c)
        \/ /\ At(c, "write") /\ Asks(c, {"updateServer"})
           /\ db.servers[req.server] # None /\ ~ServerUnique(c, req.server)
        \/ At(c, "write") /\ Asks(c, {"createResource"}) /\ ~(ResourceHandleFree(c) /\ PlaceThere(c))
        \/ At(c, "write") /\ Asks(c, {"createAction"}) /\ ~(ActionHandleFree(c) /\ PlaceThere(c))
        \/ At(c, "write") /\ Asks(c, {"deleteServer"}) /\ ReferringTo("servers", req.server)
        \/ At(c, "write") /\ Asks(c, {"deleteResource"}) /\ ReferringTo("resources", req.id)
        \/ At(c, "write") /\ Asks(c, {"deleteBranding"}) /\ ReferringTo("brandings", req.branding)
        \/ /\ At(c, "write") /\ Asks(c, {"brandApp"})
           /\ ~(req.branding = None \/ db.brandings[req.branding] # None)
        \/ /\ At(c, "branding") /\ Asks(c, {"resolve"})
           /\ db.brandings[call[c].row.branding] = None

\* Whatever a call that has begun does: if it changes the tables it ends.
Shape(c) ==
    /\ Running(c) /\ Keeps(c) /\ Changed(c)
    /\ call'[c].pc # "idle"
    /\ call'[c].pc \in Answers => call'[c].row = None /\ call'[c].above = None
    /\ call'[c].pc = "above" => call[c].req.above # None
    /\ Same \/ call'[c].pc \in Answers
    /\ call'[c].pc \in {"rejected", "dangling"} => Barred(c)

\* The outcomes of the operations have that shape.
LEMMA Shaped ==
    ASSUME NEW c \in Calls
    PROVE  /\ Stops(c) => Shape(c)
           /\ Running(c) /\ Same /\ Rest(c) /\ call'[c].pc \in Steps \ {"idle", "above"} => Shape(c)
           /\ GoesOn(c) /\ (call'[c].pc = "above" => call[c].req.above # None) => Shape(c)
           /\ Running(c) /\ Changed(c) /\ Ends(c, {"ok", "failed"}) => Shape(c)
           /\ Running(c) /\ Same /\ Ends(c, {"rejected", "dangling"}) /\ Barred(c) => Shape(c)
  <1>1. \A s \in Steps : s \notin Answers
    BY DEF Steps, Answers
  <1>2. Same => Changed(c)
    BY DEF Changed
  <1>3. Stops(c) => Shape(c)
    BY <1>2 DEF Stops, Shape, Ends, Rest, Answers
  <1>4. Running(c) /\ Same /\ Rest(c) /\ call'[c].pc \in Steps \ {"idle", "above"} => Shape(c)
    BY <1>1, <1>2 DEF Shape, Rest, Answers
  <1>5. GoesOn(c) /\ (call'[c].pc = "above" => call[c].req.above # None) => Shape(c)
    BY <1>1, <1>2 DEF GoesOn, Shape, Rest, Answers
  <1>6. Running(c) /\ Changed(c) /\ Ends(c, {"ok", "failed"}) => Shape(c)
    BY DEF Shape, Rest, Ends, Answers
  <1>7. Running(c) /\ Same /\ Ends(c, {"rejected", "dangling"}) /\ Barred(c) => Shape(c)
    BY <1>2 DEF Shape, Rest, Ends
  <1> QED
    BY <1>3, <1>4, <1>5, <1>6, <1>7

\* A call that is somewhere on its way is running.
LEMMA OnTheWay ==
    ASSUME NEW c
    PROVE  \A s \in Steps \ {"idle"} : At(c, s) => Running(c)
  BY DEF At, Running, Ended, Steps, Answers

\* The operations on resources.
LEMMA ResourceShapes ==
    ASSUME Bounds, NEW c \in Calls
    PROVE  /\ CreateResourceServer(c) => Shape(c)
           /\ UpdateResourceServer(c) => Shape(c)
           /\ DeleteResourceServer(c) => Shape(c)
           /\ CreateResource(c) => Shape(c)
           /\ DeleteResource(c) => Shape(c)
           /\ CreateAction(c) => Shape(c)
           /\ DeleteAction(c) => Shape(c)
           /\ ReadList(c) => Shape(c)
  <1>1. \A s \in {"ou", "name", "ident", "write", "handle", "children", "page", "count", "branding", "byName"} :
           s \in Steps \ {"idle", "above"}
    BY DEF Steps
  <1>2. \A s \in {"server", "ou", "name", "ident", "above", "handle", "write", "count", "page", "children"} :
           At(c, s) => Running(c)
    BY OnTheWay DEF Steps
  <1>3. /\ ServerWritten(c) \/ ResourceMade(c) \/ ActionMade(c) => Changed(c) /\ At(c, "write")
        /\ \A table \in {"servers", "resources", "actions"}, i \in Ids :
              Removes(c, table, i) => Changed(c) /\ At(c, "write")
    BY DEF Changed, ServerWritten, ResourceMade, ActionMade, Removes, Tables
  <1>4. Ends(c, {"rejected"}) => Ends(c, {"rejected", "dangling"})
    BY DEF Ends
  <1>5. \A s : Goes(c, s) => Rest(c) /\ call'[c].pc = s
    BY DEF Goes
  <1>6. \A s, row : Reads(c, s, row) \/ ReadsAbove(c, s, row) => Rest(c) /\ call'[c].pc = s
    BY DEF Reads, ReadsAbove
  <1>7. CreateResourceServer(c) => Shape(c)
    <2> SUFFICES ASSUME CreateResourceServer(c) PROVE Shape(c)
      OBVIOUS
    <2>1. Asks(c, {"createServer"})
      BY DEF CreateResourceServer
    <2> QED
      BY <1>1, <1>2, <1>3, <1>4, <1>5, <2>1, CreateServerSteps, Shaped DEF Barred
  <1>8. UpdateResourceServer(c) => Shape(c)
    <2> SUFFICES ASSUME UpdateResourceServer(c) PROVE Shape(c)
      OBVIOUS
    <2>1. Asks(c, {"updateServer"})
      BY DEF UpdateResourceServer
    <2>2. At(c, "write") /\ Same /\ Ends(c, {"ok", "failed"}) => Stops(c)
      BY <1>2 DEF Stops, Ends, Answers
    <2> QED
      BY <1>1, <1>2, <1>3, <1>4, <1>5, <1>6, <2>1, <2>2, UpdateServerSteps, Shaped DEF Barred
  <1>9. DeleteResourceServer(c) => Shape(c)
    <2> SUFFICES ASSUME DeleteResourceServer(c) PROVE Shape(c)
      OBVIOUS
    <2>1. Asks(c, {"deleteServer"}) /\ call[c].req.server \in Ids
      BY CallFacts, RequestsAssumption DEF DeleteResourceServer, Asks
    <2> QED
      BY <1>1, <1>2, <1>3, <1>4, <1>5, <2>1, DeleteServerSteps, Shaped DEF Barred
  <1>10. CreateResource(c) => Shape(c)
    <2> SUFFICES ASSUME CreateResource(c) PROVE Shape(c)
      OBVIOUS
    <2>1. Asks(c, {"createResource"})
      BY DEF CreateResource
    <2>2. GoesOn(c) /\ call'[c].pc = "above" /\ call[c].req.above # None => Shape(c)
      BY Shaped
    <2>3. ASSUME NEW row, At(c, "server"), Same,
                 Reads(c, IF call[c].req.above = None THEN "handle" ELSE "above", row)
          PROVE  Shape(c)
      <3>1. Rest(c) /\ call'[c].pc = IF call[c].req.above = None THEN "handle" ELSE "above"
        BY <1>6, <2>3
      <3>2. CASE call[c].req.above = None
        BY <1>1, <1>2, <2>3, <3>1, <3>2, Shaped
      <3>3. CASE call[c].req.above # None
        BY <1>2, <2>2, <2>3, <3>1, <3>3 DEF GoesOn, Steps
      <3> QED
        BY <3>2, <3>3
    <2> QED
      BY <1>1, <1>2, <1>3, <1>4, <1>5, <1>6, <2>1, <2>3, CreateResourceSteps, Shaped DEF Barred
  <1>11. DeleteResource(c) => Shape(c)
    <2> SUFFICES ASSUME DeleteResource(c) PROVE Shape(c)
      OBVIOUS
    <2>1. Asks(c, {"deleteResource"}) /\ call[c].req.id \in Ids
      BY CallFacts, RequestsAssumption DEF DeleteResource, Asks
    <2> QED
      BY <1>1, <1>2, <1>3, <1>4, <1>5, <2>1, DeleteResourceSteps, Shaped DEF Barred
  <1>12. CreateAction(c) => Shape(c)
    <2> SUFFICES ASSUME CreateAction(c) PROVE Shape(c)
      OBVIOUS
    <2>1. Asks(c, {"createAction"})
      BY DEF CreateAction
    <2>2. GoesOn(c) /\ call'[c].pc = "above" /\ call[c].req.above # None => Shape(c)
      BY Shaped
    <2>3. ASSUME NEW row, At(c, "server"), Same,
                 Reads(c, IF call[c].req.above = None THEN "handle" ELSE "above", row)
          PROVE  Shape(c)
      <3>1. Rest(c) /\ call'[c].pc = IF call[c].req.above = None THEN "handle" ELSE "above"
        BY <1>6, <2>3
      <3>2. CASE call[c].req.above = None
        BY <1>1, <1>2, <2>3, <3>1, <3>2, Shaped
      <3>3. CASE call[c].req.above # None
        BY <1>2, <2>2, <2>3, <3>1, <3>3 DEF GoesOn, Steps
      <3> QED
        BY <3>2, <3>3
    <2> QED
      BY <1>1, <1>2, <1>3, <1>4, <1>5, <1>6, <2>1, <2>3, CreateActionSteps, Shaped DEF Barred
  <1>13. DeleteAction(c) => Shape(c)
    <2> SUFFICES ASSUME DeleteAction(c) PROVE Shape(c)
      OBVIOUS
    <2>1. call[c].req.id \in Ids
      BY CallFacts, RequestsAssumption DEF DeleteAction, Asks, ActionOps
    <2> QED
      BY <1>2, <1>3, <2>1, DeleteActionSteps, Shaped
  <1>14. ReadList(c) => Shape(c)
    <2> SUFFICES ASSUME ReadList(c) PROVE Shape(c)
      OBVIOUS
    <2>1. CASE Stops(c)
      BY <2>1, Shaped
    <2>2. CASE GoesOn(c) /\ (call'[c].pc = "above" => call[c].req.above # None)
      BY <2>2, Shaped
    <2>3. CASE At(c, "count") /\ Same /\ Keeps(c) /\ call'[c].pc = "page"
      BY <1>2, <2>3 DEF Shape, Changed, Answers
    <2>4. CASE /\ At(c, "page") /\ Same /\ Keeps(c) /\ PageRead(c)
               /\ call'[c].row = None /\ call'[c].above = None
      <3>1. call'[c].pc \in {"ok", FirstStep(call[c].req)}
        BY <2>4 DEF PageRead
      <3>2. FirstStep(call[c].req) \in {"server", "count", "ou"}
        BY DEF FirstStep
      <3> QED
        BY <1>2, <2>4, <3>1, <3>2 DEF Shape, Changed
    <2> QED
      BY <2>1, <2>2, <2>3, <2>4, ListSteps
  <1> QED
    BY <1>7, <1>8, <1>9, <1>10, <1>11, <1>12, <1>13, <1>14

\* The operations on the registries.
LEMMA RegistryShapes ==
    ASSUME Bounds, NEW c \in Calls
    PROVE  /\ CreateIdentityProvider(c) \/ UpdateIdentityProvider(c) \/ DeleteIdentityProvider(c) => Shape(c)
           /\ CreateSender(c) \/ UpdateSender(c) \/ DeleteSender(c) => Shape(c)
           /\ CreateBranding(c) \/ UpdateBranding(c) \/ DeleteBranding(c) => Shape(c)
           /\ BrandApplication(c) \/ ResolveBranding(c) => Shape(c)
  <1>1. \A s \in {"write", "branding", "byName"} : s \in Steps \ {"idle", "above"}
    BY DEF Steps
  <1>2. \A s \in {"byName", "byID", "write", "app", "branding"} : At(c, s) => Running(c)
    BY OnTheWay DEF Steps
  <1>3. /\ IdpWritten(c) \/ SenderWritten(c) \/ BrandingWritten(c) \/ AppWritten(c)
           => Changed(c) /\ At(c, "write")
        /\ \A table \in {"idps", "senders", "brandings"}, i \in Ids :
              Removes(c, table, i) => Changed(c) /\ At(c, "write")
    BY DEF Changed, IdpWritten, SenderWritten, BrandingWritten, AppWritten, Removes, Tables
  <1>4. /\ Ends(c, {"rejected"}) => Ends(c, {"rejected", "dangling"})
        /\ Ends(c, {"dangling"}) => Ends(c, {"rejected", "dangling"})
    BY DEF Ends
  <1>5. \A s : Goes(c, s) => Rest(c) /\ call'[c].pc = s
    BY DEF Goes
  <1>6. \A s, row : Reads(c, s, row) => Rest(c) /\ call'[c].pc = s
    BY DEF Reads
  <1>7. CreateIdentityProvider(c) => Shape(c)
    BY <1>1, <1>2, <1>3, <1>5, CreateIdpSteps, Shaped
  <1>8. UpdateIdentityProvider(c) => Shape(c)
    BY <1>1, <1>2, <1>3, <1>5, <1>6, UpdateIdpSteps, Shaped
  <1>9. DeleteIdentityProvider(c) => Shape(c)
    <2> SUFFICES ASSUME DeleteIdentityProvider(c) PROVE Shape(c)
      OBVIOUS
    <2>1. call[c].req.id \in Ids
      BY CallFacts, RequestsAssumption DEF DeleteIdentityProvider, Asks, RegistryOps
    <2> QED
      BY <1>2, <1>3, <2>1, DeleteIdpSteps, Shaped
  <1>10. CreateSender(c) => Shape(c)
    BY <1>1, <1>2, <1>3, <1>5, CreateSenderSteps, Shaped
  <1>11. UpdateSender(c) => Shape(c)
    BY <1>1, <1>2, <1>3, <1>5, <1>6, UpdateSenderSteps, Shaped
  <1>12. DeleteSender(c) => Shape(c)
    <2> SUFFICES ASSUME DeleteSender(c) PROVE Shape(c)
      OBVIOUS
    <2>1. call[c].req.id \in Ids
      BY CallFacts, RequestsAssumption DEF DeleteSender, Asks, RegistryOps
    <2> QED
      BY <1>2, <1>3, <2>1, DeleteSenderSteps, Shaped
  <1>13. CreateBranding(c) => Shape(c)
    BY <1>2, <1>3, CreateBrandingSteps, Shaped
  <1>14. UpdateBranding(c) => Shape(c)
    BY <1>2, <1>3, UpdateBrandingSteps, Shaped
  <1>15. DeleteBranding(c) => Shape(c)
    <2> SUFFICES ASSUME DeleteBranding(c) PROVE Shape(c)
      OBVIOUS
    <2>1. Asks(c, {"deleteBranding"}) /\ call[c].req.branding \in Ids
      BY CallFacts, RequestsAssumption DEF DeleteBranding, Asks
    <2>2. GoesOn(c) /\ Goes(c, "write") => Shape(c)
      BY <1>5, Shaped
    <2> QED
      BY <1>2, <1>3, <1>4, <2>1, <2>2, DeleteBrandingSteps, Shaped DEF Barred
  <1>16. BrandApplication(c) => Shape(c)
    <2> SUFFICES ASSUME BrandApplication(c) PROVE Shape(c)
      OBVIOUS
    <2>1. Asks(c, {"brandApp"})
      BY DEF BrandApplication
    <2>2. GoesOn(c) /\ Goes(c, "write") => Shape(c)
      BY <1>5, Shaped
    <2> QED
      BY <1>2, <1>3, <1>4, <2>1, <2>2, BrandApplicationSteps, Shaped DEF Barred
  <1>17. ResolveBranding(c) => Shape(c)
    <2> SUFFICES ASSUME ResolveBranding(c) PROVE Shape(c)
      OBVIOUS
    <2>1. Asks(c, {"resolve"})
      BY DEF ResolveBranding
    <2> QED
      BY <1>1, <1>2, <1>4, <1>6, <2>1, ResolveBrandingSteps, Shaped DEF Barred
  <1> QED
    BY <1>7, <1>8, <1>9, <1>10, <1>11, <1>12, <1>13, <1>14, <1>15, <1>16, <1>17

\* Every step of a call that has begun.
LEMMA Shapes ==
    ASSUME Bounds, NEW c \in Calls, Serves(c)
    PROVE  Shape(c)
  <1>1. CASE Fails(c)
    BY <1>1, Failing, Shaped DEF Bounds
  <1>2. CASE ResourceService(c)
    BY <1>2, ResourceShapes, QuietSteps, Shaped DEF ResourceService
  <1>3. CASE RegistryService(c)
    BY <1>3, RegistryShapes, QuietSteps, Shaped DEF RegistryService
  <1>4. CASE ProfileService(c)
    BY <1>4, QuietSteps, Shaped
  <1> QED
    BY <1>1, <1>2, <1>3, <1>4 DEF Serves

-----------------------------------------------------------------------------
(* What a step means for other calls, and for the rows.                    *)

\* A step of d: what has ended stays so, calls that have met have met, and a call that
\* is running meets d.
LEMMA Lasting ==
    ASSUME Bounds, NEW d \in Calls, Shape(d)
    PROVE  /\ \A c \in Calls : /\ call'[c].req = call[c].req
                               /\ call'[c].start = call[c].start
                               /\ call'[c].before = call[c].before
                               /\ c # d => call'[c] = call[c]
                               /\ At(c, "idle") <=> At(c, "idle")'
                               /\ Ended(c) => Ended(c)'
                               /\ Running(c)' => Running(c)
           /\ \A i : Made(i) => Made(i)'
           /\ ~Made(d) /\ (~Same => Made(d)')
           /\ \A c, e \in Calls : Overlap(c, e) <=> Overlap(c, e)'
           /\ \A c \in Calls \ {d} : Running(c) => Overlap(c, d)
           /\ \A c \in Calls : \A ops : Asks(c, ops) <=> Asks(c, ops)'
  <1>1. Running(d) /\ Keeps(d) /\ call'[d].pc # "idle"
    BY DEF Shape
  <1>2. \A c \in Calls : /\ call'[c].req = call[c].req
                         /\ call'[c].start = call[c].start
                         /\ call'[c].before = call[c].before
                         /\ c # d => call'[c] = call[c]
    BY <1>1 DEF Keeps
  <1>3. \A c \in Calls : At(c, "idle") <=> At(c, "idle")'
    BY <1>1, <1>2 DEF At, Running
  <1>4. \A c \in Calls : Ended(c) => Ended(c)'
    BY <1>1, <1>2 DEF Running, Ended
  <1>5. \A c \in Calls : Running(c)' => Running(c)
    BY <1>1, <1>2 DEF Running, Ended, At
  <1>6. \A i : Made(i) => Made(i)'
    BY <1>4 DEF Made
  <1>7. ~Made(d) /\ (~Same => Made(d)')
    BY <1>1 DEF Made, Running, Shape, Ended
  <1>8. \A c, e \in Calls : Overlap(c, e) <=> Overlap(c, e)'
    BY <1>2, <1>3 DEF Overlap
  <1>9. ASSUME NEW c \in Calls \ {d}, Running(c) PROVE Overlap(c, d)
    BY <1>1, <1>9 DEF Overlap, Running, Bounds, HistoryKept
  <1>10. \A c \in Calls : \A ops : Asks(c, ops) <=> Asks(c, ops)'
    BY <1>2, <1>3 DEF Asks
  <1> QED
    BY <1>2, <1>3, <1>4, <1>5, <1>6, <1>7, <1>8, <1>9, <1>10

\* Permissions are sequences of characters.
LEMMA PermissionsDerived ==
    ASSUME NEW row \in ServerRows, NEW above \in ResourceRows \cup {None}, NEW handle \in Handles
    PROVE  DerivePermission(row, above, handle) \in Permissions
  <1> DEFINE S == Delimiters \cup UNION {ToSet(h) : h \in Handles}
  <1>1. Permissions = Seq(S) /\ handle \in Seq(S) /\ row.delim \in S
    BY ValuesAssumption DEF Permissions, ServerRows
  <1>2. CASE above = None
    BY <1>1, <1>2 DEF DerivePermission
  <1>3. CASE above # None
    <2>1. above.permission \in Seq(S)
      BY <1>1, <1>3 DEF ResourceRows
    <2> HIDE DEF S
    <2> QED
      BY <1>1, <1>3, <2>1, HasDelimiter DEF DerivePermission
  <1> QED
    BY <1>2, <1>3

\* The rows that are written have the types of their tables, and an update of a server
\* keeps its delimiter.
LEMMA RowsWritten ==
    ASSUME Bounds, NEW c \in Calls, At(c, "write")
    PROVE  LET req == call[c].req
               permission == DerivePermission(call[c].row, call[c].above, req.handle)
           IN  /\ Asks(c, {"createServer", "updateServer"}) =>
                     Named(c) \in Ids /\ ServerRow(c, Named(c)) \in ServerRows
               /\ Asks(c, {"createServer"}) => Named(c) = c
               /\ Asks(c, {"updateServer"}) /\ db.servers[Named(c)] # None =>
                        ServerRow(c, Named(c)).delim = db.servers[Named(c)].delim
               /\ Asks(c, {"createResource"}) =>
                     [server |-> req.server, parent |-> req.above, handle |-> req.handle,
                      permission |-> permission] \in ResourceRows
               /\ Asks(c, {"createAction"}) =>
                     [server |-> req.server, resource |-> req.above, handle |-> req.handle,
                      permission |-> permission] \in ActionRows
               /\ Asks(c, {"createIdp", "updateIdp"}) =>
                     Named(c) \in Ids /\ IdpRow(c, Named(c)) \in IdpRows
               /\ Asks(c, {"createSender", "updateSender"}) =>
                     Named(c) \in Ids /\ SenderRow(c, Named(c)) \in SenderRows
               /\ Asks(c, {"createIdp", "createSender"}) => Named(c) = c
               /\ [content |-> c] \in BrandingRows
               /\ Asks(c, {"updateBranding"}) => req.branding \in Ids
               /\ Asks(c, {"brandApp"}) =>
                     req.app \in Ids /\ [branding |-> req.branding] \in AppRows
  <1> DEFINE req == call[c].req
  <1>1. /\ ~At(c, "idle") /\ c \in Ids /\ req \in Requests /\ TablesTyped
        /\ ServerCourse(c) /\ PlaceCourse(c)
        /\ call[c] \in CallStates
    BY CallFacts DEF At, CallsTyped
  <1>2. \A i \in Ids : db.servers[i] # None => db.servers[i] \in ServerRows
    BY <1>1, RowFacts
  <1>3. ASSUME Asks(c, {"createServer"})
        PROVE  Named(c) = c /\ ServerRow(c, c) \in ServerRows
    <2>1. Op(c) = "createServer"
      BY <1>3 DEF Asks, Op
    <2>2. req.ou \in OUs /\ req.name \in Names /\ req.ident \in Identifiers \cup {None}
          /\ req.delim \in Delimiters
      BY <1>1, <1>3, <2>1, RequestsAssumption DEF ServerCourse, Asks, Op, At
    <2>3. Delimiter(c) \in Delimiters
      BY <1>1, <2>1, <2>2 DEF Delimiter, Creates, Asks, Op
    <2> QED
      BY <1>1, <1>2, <2>1, <2>2, <2>3 DEF Named, Asks, RenameOps, Op, ServerRow, ServerRows
  <1>4. ASSUME Asks(c, {"updateServer"})
        PROVE  /\ Named(c) \in Ids /\ ServerRow(c, Named(c)) \in ServerRows
               /\ db.servers[Named(c)] # None =>
                     ServerRow(c, Named(c)).delim = db.servers[Named(c)].delim
    <2>1. Op(c) = "updateServer"
      BY <1>4 DEF Asks, Op
    <2>2. /\ req.ou \in OUs /\ req.name \in Names /\ req.ident \in Identifiers \cup {None}
          /\ DelimiterKept(c, req.server) /\ req.server \in Ids
      BY <1>1, <1>4, <2>1, RequestsAssumption DEF ServerCourse, Asks, Op, At
    <2>3. Delimiter(c) = call[c].row.delim /\ Delimiter(c) \in Delimiters
      BY <1>1, <2>1, <2>2 DEF Delimiter, Creates, Asks, Op, DelimiterKept, ServerRows
    <2>4. Named(c) = req.server
      BY <1>4, <2>1 DEF Named, Target, Asks, RenameOps, Op
    <2>5. ServerRow(c, req.server) \in ServerRows
      BY <1>1, <1>2, <2>2, <2>3 DEF ServerRow, ServerRows
    <2> QED
      BY <2>2, <2>3, <2>4, <2>5 DEF ServerRow, DelimiterKept
  <1>5. ASSUME Asks(c, {"createResource", "createAction"})
        PROVE  /\ req.server \in Ids /\ req.above \in Ids \cup {None} /\ req.handle \in Handles
               /\ DerivePermission(call[c].row, call[c].above, req.handle) \in Permissions
    <2>1. Op(c) \in {"createResource", "createAction"}
      BY <1>5 DEF Asks, Op
    <2>2. req.server \in Ids /\ req.above \in Ids \cup {None} /\ req.handle \in Handles
      BY <1>1, <2>1, RequestsAssumption DEF Op, ActionOps
    <2>3. call[c].row \in ServerRows /\ call[c].above \in ResourceRows \cup {None}
      BY <1>1, <1>5 DEF PlaceCourse, At, DelimiterKept, CallStates
    <2> QED
      BY <2>2, <2>3, PermissionsDerived
  <1>6. ASSUME Asks(c, {"createIdp", "updateIdp"})
        PROVE  /\ Named(c) \in Ids /\ IdpRow(c, Named(c)) \in IdpRows
               /\ Asks(c, {"createIdp"}) => Named(c) = c
    <2>1. Op(c) \in {"createIdp", "updateIdp"}
      BY <1>6 DEF Asks, Op
    <2>2. req.name \in Names /\ (Op(c) = "updateIdp" => req.id \in Ids)
      BY <1>1, <2>1, RequestsAssumption DEF Op, RegistryOps
    <2>3. Named(c) = IF Op(c) = "updateIdp" THEN req.id ELSE c
      BY <1>6, <2>1 DEF Named, Target, Asks, RenameOps, Op
    <2>4. \A i \in Ids : db.idps[i] # None => db.idps[i].named \in Ids
      BY <1>1, RowFacts DEF IdpRows
    <2> QED
      BY <1>1, <2>2, <2>3, <2>4 DEF IdpRow, IdpRows, NamedBy, Asks, Op
  <1>7. ASSUME Asks(c, {"createSender", "updateSender"})
        PROVE  /\ Named(c) \in Ids /\ SenderRow(c, Named(c)) \in SenderRows
               /\ Asks(c, {"createSender"}) => Named(c) = c
    <2>1. Op(c) \in {"createSender", "updateSender"}
      BY <1>7 DEF Asks, Op
    <2>2. req.name \in Names /\ req.type \in SenderTypes /\ (Op(c) = "updateSender" => req.id \in Ids)
      BY <1>1, <2>1, RequestsAssumption DEF Op, RegistryOps
    <2>3. Named(c) = IF Op(c) = "updateSender" THEN req.id ELSE c
      BY <1>7, <2>1 DEF Named, Target, Asks, RenameOps, Op
    <2>4. \A i \in Ids : db.senders[i] # None => db.senders[i].named \in Ids
      BY <1>1, RowFacts DEF SenderRows
    <2> QED
      BY <1>1, <2>2, <2>3, <2>4 DEF SenderRow, SenderRows, NamedBy, Asks, Op
  <1>8. [content |-> c] \in BrandingRows
    BY <1>1 DEF BrandingRows
  <1>9. /\ Asks(c, {"updateBranding"}) => req.branding \in Ids
        /\ Asks(c, {"brandApp"}) => req.app \in Ids /\ [branding |-> req.branding] \in AppRows
    BY <1>1, RequestsAssumption DEF Asks, AppRows
  <1>10. Asks(c, {"createServer", "updateServer"})
         <=> Asks(c, {"createServer"}) \/ Asks(c, {"updateServer"})
    BY DEF Asks
  <1>11. Asks(c, {"createResource"}) =>
            [server |-> req.server, parent |-> req.above, handle |-> req.handle,
             permission |-> DerivePermission(call[c].row, call[c].above, req.handle)] \in ResourceRows
    BY <1>5 DEF Asks, ResourceRows
  <1>12. Asks(c, {"createAction"}) =>
            [server |-> req.server, resource |-> req.above, handle |-> req.handle,
             permission |-> DerivePermission(call[c].row, call[c].above, req.handle)] \in ActionRows
    BY <1>5 DEF Asks, ActionRows
  <1>13. /\ Asks(c, {"createIdp"}) => Asks(c, {"createIdp", "updateIdp"})
         /\ Asks(c, {"createSender"}) => Asks(c, {"createSender", "updateSender"})
         /\ Asks(c, {"createIdp", "createSender"}) => Asks(c, {"createIdp"}) \/ Asks(c, {"createSender"})
    BY DEF Asks
  <1>14. Asks(c, {"createServer", "updateServer"}) =>
            Named(c) \in Ids /\ ServerRow(c, Named(c)) \in ServerRows
    BY <1>1, <1>3, <1>4, <1>10
  <1>15. Asks(c, {"createIdp", "createSender"}) => Named(c) = c
    BY <1>6, <1>7, <1>13
  <1> HIDE DEF req
  <1> QED
    BY <1>3, <1>4, <1>6, <1>7, <1>8, <1>9, <1>11, <1>12, <1>14, <1>15 DEF req

\* A row of a table is added, changed or removed.
Adds(d, table) ==
    \E row \in Rows(table) : ~Made(d) /\ db[table][d] = None /\ Inserts(table, d, row)

Alters(table) == \E i \in Ids, row \in Rows(table) : Made(i) /\ Updates(table, i, row)

\* Whatever a step writes is one row, whole and typed.
LEMMA Alteration ==
    ASSUME Bounds, NEW d \in Calls, Shape(d)
    PROVE  \/ Same
           \/ \E table \in Tables \ {"apps"} : Adds(d, table)
           \/ \E table \in Tables \ {"resources", "actions"} : Alters(table)
           \/ \E table \in Tables \ {"apps"}, i \in Ids : Drops(table, i)
  <1>1. ~Made(d) /\ d \in Ids /\ ~At(d, "idle")
    BY Lasting DEF Ids, Shape, Running
  <1>2. \A table \in Tables : db[table][d] = None
    BY <1>1 DEF Bounds, RowsMade, Present, PresentIn
  <1>3. \A table \in Tables, i \in Ids : db[table][i] # None => Made(i)
    BY DEF Bounds, RowsMade, Present, PresentIn
  <1>4. \A s : Asks(d, {s}) <=> Op(d) = s
    BY <1>1 DEF Asks, Op
  <1>5. Changed(d)
    BY DEF Shape
  <1>6. CASE ServerWritten(d)
    <2>1. /\ At(d, "write")
          /\ Op(d) \in {"createServer", "updateServer"}
          /\ IF Op(d) = "createServer" THEN Inserts("servers", d, ServerRow(d, d))
             ELSE Updates("servers", Named(d), ServerRow(d, Named(d)))
      BY <1>6 DEF ServerWritten, Asks, Op
    <2>2. Named(d) \in Ids /\ ServerRow(d, Named(d)) \in ServerRows
          /\ (Op(d) = "createServer" => Named(d) = d)
      BY <1>1, <2>1, <1>4, RowsWritten DEF Asks, Op
    <2>3. "servers" \in Tables /\ Rows("servers") = ServerRows
      BY DEF Tables, Rows
    <2>4. Updates("servers", Named(d), ServerRow(d, Named(d))) => Made(Named(d))
      BY <1>3, <2>2, <2>3 DEF Updates
    <2> QED
      BY <1>1, <1>2, <2>1, <2>2, <2>3, <2>4 DEF Adds, Alters
  <1>7. CASE ResourceMade(d)
    <2>1. At(d, "write") /\ Op(d) = "createResource"
      BY <1>7 DEF ResourceMade, Asks, Op
    <2>2. \E row \in ResourceRows : Inserts("resources", d, row)
      BY <1>4, <1>7, <2>1, RowsWritten DEF ResourceMade
    <2>3. "resources" \in Tables \ {"apps"} /\ Rows("resources") = ResourceRows
      BY DEF Tables, Rows
    <2> QED
      BY <1>1, <1>2, <2>2, <2>3 DEF Adds
  <1>8. CASE ActionMade(d)
    <2>1. At(d, "write") /\ Op(d) = "createAction"
      BY <1>8 DEF ActionMade, Asks, Op
    <2>2. \E row \in ActionRows : Inserts("actions", d, row)
      BY <1>4, <1>8, <2>1, RowsWritten DEF ActionMade
    <2>3. "actions" \in Tables \ {"apps"} /\ Rows("actions") = ActionRows
      BY DEF Tables, Rows
    <2> QED
      BY <1>1, <1>2, <2>2, <2>3 DEF Adds
  <1>9. CASE IdpWritten(d)
    <2>1. /\ At(d, "write")
          /\ Op(d) \in {"createIdp", "updateIdp"}
          /\ IF Op(d) = "createIdp" THEN Inserts("idps", d, IdpRow(d, d))
             ELSE Updates("idps", Named(d), IdpRow(d, Named(d)))
      BY <1>9 DEF IdpWritten, Asks, Op
    <2>2. Named(d) \in Ids /\ IdpRow(d, Named(d)) \in IdpRows
          /\ (Op(d) = "createIdp" => Named(d) = d)
      BY <1>1, <2>1, RowsWritten DEF Asks, Op
    <2>3. "idps" \in Tables /\ Rows("idps") = IdpRows
      BY DEF Tables, Rows
    <2>4. Updates("idps", Named(d), IdpRow(d, Named(d))) => Made(Named(d))
      BY <1>3, <2>2, <2>3 DEF Updates
    <2> QED
      BY <1>1, <1>2, <2>1, <2>2, <2>3, <2>4 DEF Adds, Alters
  <1>10. CASE SenderWritten(d)
    <2>1. /\ At(d, "write")
          /\ Op(d) \in {"createSender", "updateSender"}
          /\ IF Op(d) = "createSender" THEN Inserts("senders", d, SenderRow(d, d))
             ELSE Updates("senders", Named(d), SenderRow(d, Named(d)))
      BY <1>10 DEF SenderWritten, Asks, Op
    <2>2. Named(d) \in Ids /\ SenderRow(d, Named(d)) \in SenderRows
          /\ (Op(d) = "createSender" => Named(d) = d)
      BY <1>1, <2>1, RowsWritten DEF Asks, Op
    <2>3. "senders" \in Tables /\ Rows("senders") = SenderRows
      BY DEF Tables, Rows
    <2>4. Updates("senders", Named(d), SenderRow(d, Named(d))) => Made(Named(d))
      BY <1>3, <2>2, <2>3 DEF Updates
    <2> QED
      BY <1>1, <1>2, <2>1, <2>2, <2>3, <2>4 DEF Adds, Alters
  <1>11. CASE BrandingWritten(d)
    <2> DEFINE row == [content |-> d]
    <2>1. /\ At(d, "write")
          /\ Op(d) \in {"createBranding", "updateBranding"}
          /\ IF Op(d) = "createBranding" THEN Inserts("brandings", d, row)
             ELSE Updates("brandings", call[d].req.branding, row)
      BY <1>11 DEF BrandingWritten, Asks, Op
    <2>2. row \in BrandingRows /\ (Op(d) = "updateBranding" => call[d].req.branding \in Ids)
      BY <1>4, <2>1, RowsWritten
    <2>3. "brandings" \in Tables /\ Rows("brandings") = BrandingRows
      BY DEF Tables, Rows
    <2> HIDE DEF row
    <2>4. Op(d) = "updateBranding" /\ Updates("brandings", call[d].req.branding, row)
          => Made(call[d].req.branding)
      BY <1>3, <2>2, <2>3 DEF Updates
    <2> QED
      BY <1>1, <1>2, <2>1, <2>2, <2>3, <2>4 DEF Adds, Alters
  <1>12. CASE AppWritten(d)
    <2> DEFINE row == [branding |-> call[d].req.branding]
               i == call[d].req.app
    <2>1. At(d, "write") /\ Op(d) = "brandApp" /\ Updates("apps", i, row)
      BY <1>12 DEF AppWritten, Asks, Op
    <2>2. row \in AppRows /\ i \in Ids
      BY <1>4, <2>1, RowsWritten
    <2>3. "apps" \in Tables \ {"resources", "actions"} /\ Rows("apps") = AppRows
      BY DEF Tables, Rows
    <2> HIDE DEF row, i
    <2>4. Made(i)
      BY <1>3, <2>1, <2>2, <2>3 DEF Updates
    <2> QED
      BY <2>1, <2>2, <2>3, <2>4 DEF Alters
  <1>13. CASE \E table \in Tables \ {"apps"}, i \in Ids : Removes(d, table, i)
    BY <1>13 DEF Removes
  <1> QED
    BY <1>5, <1>6, <1>7, <1>8, <1>9, <1>10, <1>11, <1>12, <1>13 DEF Changed

\* One row is put in a table.
LEMMA Putting ==
    ASSUME TablesTyped, NEW table \in Tables, NEW i \in Ids, NEW row \in Rows(table) \cup {None},
           Puts(table, i, row)
    PROVE  /\ DOMAIN db' = DOMAIN db
           /\ \A t \in Tables : db'[t] \in [Ids -> Rows(t) \cup {None}]
           /\ \A t \in Tables, j \in Ids : t # table \/ j # i => db'[t][j] = db[t][j]
           /\ db'[table][i] = row
           /\ \A t \in Tables : t # table => Present(t)' = Present(t)
           /\ row # None => Present(table)' = Present(table) \cup {i}
           /\ row = None => Present(table)' = Present(table) \ {i}
  <1>1. \A t \in Tables : db[t] \in [Ids -> Rows(t) \cup {None}]
    BY DEF TablesTyped
  <1>2. /\ DOMAIN db' = DOMAIN db
        /\ db'[table] = [db[table] EXCEPT ![i] = row]
        /\ \A t \in Tables : t # table => db'[t] = db[t]
    BY DEF Puts
  <1>3. db'[table] \in [Ids -> Rows(table) \cup {None}]
    BY <1>1, <1>2
  <1>4. \A j \in Ids : j # i => db'[table][j] = db[table][j]
    BY <1>1, <1>2
  <1>5. db'[table][i] = row
    BY <1>1, <1>2
  <1>6. \A t \in Tables : t # table => Present(t)' = Present(t)
    BY <1>2 DEF Present, PresentIn
  <1>7. row # None => Present(table)' = Present(table) \cup {i}
    BY <1>4, <1>5 DEF Present, PresentIn
  <1>8. row = None => Present(table)' = Present(table) \ {i}
    BY <1>4, <1>5 DEF Present, PresentIn
  <1> QED
    BY <1>1, <1>2, <1>3, <1>4, <1>5, <1>6, <1>7, <1>8

\* The stamps of a step that puts a row.
LEMMA Stamps ==
    ASSUME TablesTyped, RowsStamped, NEW table \in Tables, NEW i \in Ids,
           NEW row \in Rows(table) \cup {None}, Puts(table, i, row),
           \/ i \in Present(table) /\ row # None /\ Unstamped
           \/ /\ i \notin Present(table) /\ row # None
              /\ db'.clock = db.clock + 1 /\ db'.created = [db.created EXCEPT ![<<table, i>>] = db.clock + 1]
           \/ row = None /\ db'.clock = db.clock /\ db'.created = [db.created EXCEPT ![<<table, i>>] = 0]
    PROVE  RowsStamped' /\ db'.created \in [Tables \X Ids -> Nat] /\ db'.clock \in Nat
  <1>1. db.created \in [Tables \X Ids -> Nat] /\ db.clock \in Nat
    BY DEF TablesTyped
  <1>2. /\ \A t \in Tables : t # table => Present(t)' = Present(t)
        /\ row # None => Present(table)' = Present(table) \cup {i}
        /\ row = None => Present(table)' = Present(table) \ {i}
    BY Putting
  <1>3. <<table, i>> \in Tables \X Ids
    OBVIOUS
  <1>4. \A t \in Tables : \A j, k \in Present(t) :
            /\ db.created[<<t, j>>] \in 1 .. db.clock
            /\ j # k => db.created[<<t, j>>] # db.created[<<t, k>>]
    BY DEF RowsStamped
  <1>5. \A t : Present(t) \subseteq Ids /\ Present(t)' \subseteq Ids
    BY DEF Present, PresentIn
  <1>6. CASE i \in Present(table) /\ row # None /\ Unstamped
    BY <1>1, <1>2, <1>4, <1>6 DEF Unstamped, RowsStamped
  <1>7. CASE /\ i \notin Present(table) /\ row # None
             /\ db'.clock = db.clock + 1
             /\ db'.created = [db.created EXCEPT ![<<table, i>>] = db.clock + 1]
    <2>1. db'.created \in [Tables \X Ids -> Nat] /\ db'.clock \in Nat
      BY <1>1, <1>7
    <2>2. \A t \in Tables : \A j \in Present(t) : db'.created[<<t, j>>] = db.created[<<t, j>>]
      BY <1>1, <1>5, <1>7
    <2>3. db'.created[<<table, i>>] = db.clock + 1
      BY <1>1, <1>3, <1>7
    <2>4. ASSUME NEW t \in Tables, NEW j \in Present(t)', NEW k \in Present(t)'
          PROVE  /\ db'.created[<<t, j>>] \in 1 .. db'.clock
                 /\ j # k => db'.created[<<t, j>>] # db'.created[<<t, k>>]
      <3>1. CASE t # table \/ (j # i /\ k # i)
        BY <1>1, <1>2, <1>4, <1>7, <2>2, <2>4, <3>1
      <3>2. CASE t = table /\ (j = i \/ k = i)
        <4>1. \A l \in Present(table) : db'.created[<<table, l>>] \in 1 .. db.clock
          BY <1>4, <2>2
        <4>2. /\ j = i \/ j \in Present(table)
              /\ k = i \/ k \in Present(table)
          BY <1>2, <1>7, <2>4, <3>2
        <4> QED
          BY <1>1, <1>7, <2>3, <3>2, <4>1, <4>2
      <3> QED
        BY <3>1, <3>2
    <2> QED
      BY <2>1, <2>4 DEF RowsStamped
  <1>8. CASE row = None /\ db'.clock = db.clock /\ db'.created = [db.created EXCEPT ![<<table, i>>] = 0]
    <2>1. db'.created \in [Tables \X Ids -> Nat] /\ db'.clock \in Nat
      BY <1>1, <1>8
    <2>2. \A t \in Tables : \A j \in Present(t)' :
             j \in Present(t) /\ db'.created[<<t, j>>] = db.created[<<t, j>>]
      BY <1>1, <1>2, <1>5, <1>8
    <2> QED
      BY <1>4, <1>8, <2>1, <2>2 DEF RowsStamped
  <1> QED
    BY <1>6, <1>7, <1>8

\* The tables stay typed, finite and stamped, and have rows of calls that have ended.
LEMMA TablesKept ==
    ASSUME Bounds, NEW d \in Calls, Shape(d)
    PROVE  TablesTyped' /\ RowsMade' /\ RowsFinite' /\ RowsStamped'
  <1>1. TablesTyped /\ RowsMade /\ RowsFinite /\ RowsStamped
    BY DEF Bounds
  <1>2. (\A i : Made(i) => Made(i)') /\ (~Same => Made(d)') /\ d \in Ids
    BY Lasting DEF Ids
  <1>3. CASE Same
    <2>1. \A t \in Tables : Present(t)' = Present(t)
      BY <1>3 DEF Same, Present, PresentIn
    <2> QED
      BY <1>1, <1>2, <1>3, <2>1 DEF Same, Unstamped, TablesTyped, RowsMade, RowsFinite, RowsStamped
  <1>4. ASSUME NEW table \in Tables, NEW i \in Ids, NEW row \in Rows(table) \cup {None},
               Puts(table, i, row), RowsStamped', row # None => Made(i)',
               db'.created \in [Tables \X Ids -> Nat], db'.clock \in Nat
        PROVE  TablesTyped' /\ RowsMade' /\ RowsFinite' /\ RowsStamped'
    <2>1. /\ DOMAIN db' = DOMAIN db
          /\ \A t \in Tables : db'[t] \in [Ids -> Rows(t) \cup {None}]
          /\ \A t \in Tables : t # table => Present(t)' = Present(t)
          /\ row # None => Present(table)' = Present(table) \cup {i}
          /\ row = None => Present(table)' = Present(table) \ {i}
      BY <1>1, <1>4, Putting
    <2>2. TablesTyped'
      BY <1>1, <1>4, <2>1 DEF TablesTyped
    <2>3. RowsMade'
      BY <1>1, <1>2, <1>4, <2>1 DEF RowsMade
    <2>4. IsFiniteSet(Present(table)')
      <3>1. IsFiniteSet(Present(table))
        BY <1>1 DEF RowsFinite
      <3>2. IsFiniteSet(Present(table) \cup {i})
        BY <3>1, FS_AddElement
      <3>3. Present(table)' \subseteq Present(table) \cup {i}
        BY <2>1
      <3> QED
        BY <3>2, <3>3, FS_Subset
    <2>5. RowsFinite'
      BY <1>1, <2>1, <2>4 DEF RowsFinite
    <2> QED
      BY <1>4, <2>2, <2>3, <2>5
  <1>5. \A table \in Tables : \A row \in Rows(table) : row # None
    BY ValuesAssumption
  <1>6. ASSUME NEW table \in Tables, Adds(d, table)
        PROVE  TablesTyped' /\ RowsMade' /\ RowsFinite' /\ RowsStamped'
    <2>1. PICK row \in Rows(table) : ~Made(d) /\ db[table][d] = None /\ Inserts(table, d, row)
      BY <1>6 DEF Adds
    <2>2. row # None /\ d \notin Present(table)
      BY <1>5, <2>1 DEF Present, PresentIn
    <2>3. ~Same
      <3>1. db'[table][d] = row
        BY <1>1, <1>2, <2>1, Putting DEF Inserts
      <3> QED
        BY <2>1, <2>2, <3>1 DEF Same
    <2>4. RowsStamped' /\ db'.created \in [Tables \X Ids -> Nat] /\ db'.clock \in Nat
      BY <1>1, <1>2, <2>1, <2>2, Stamps DEF Inserts
    <2> QED
      BY <1>2, <1>4, <2>1, <2>3, <2>4 DEF Inserts
  <1>7. ASSUME NEW table \in Tables, Alters(table)
        PROVE  TablesTyped' /\ RowsMade' /\ RowsFinite' /\ RowsStamped'
    <2>1. PICK i \in Ids, row \in Rows(table) : Made(i) /\ Updates(table, i, row)
      BY <1>7 DEF Alters
    <2>2. row # None /\ i \in Present(table)
      BY <1>5, <2>1 DEF Present, PresentIn, Updates
    <2>3. RowsStamped' /\ db'.created \in [Tables \X Ids -> Nat] /\ db'.clock \in Nat
      BY <1>1, <2>1, <2>2, Stamps DEF Updates
    <2> QED
      BY <1>2, <1>4, <2>1, <2>3 DEF Updates
  <1>8. ASSUME NEW table \in Tables, NEW i \in Ids, Drops(table, i)
        PROVE  TablesTyped' /\ RowsMade' /\ RowsFinite' /\ RowsStamped'
    <2>1. RowsStamped' /\ db'.created \in [Tables \X Ids -> Nat] /\ db'.clock \in Nat
      BY <1>1, <1>8, Stamps DEF Drops
    <2> QED
      BY <1>4, <1>8, <2>1 DEF Drops
  <1> QED
    BY <1>3, <1>6, <1>7, <1>8, Alteration

\* What is not about to be created keeps what does not change of it: the delimiter of
\* a server, and a resource or an action altogether.
LEMMA RowsKept ==
    ASSUME Bounds, NEW d \in Calls, Shape(d), NEW i \in Ids, Made(i)
    PROVE  /\ db'.servers[i] # None =>
                 db.servers[i] # None /\ db'.servers[i].delim = db.servers[i].delim
           /\ db'.resources[i] # None => db'.resources[i] = db.resources[i]
           /\ db'.actions[i] # None => db'.actions[i] = db.actions[i]
  <1>1. TablesTyped /\ i # d /\ d \in Ids /\ Changed(d)
    BY Lasting DEF Bounds, Ids, Shape
  <1>2. \A t \in {"servers", "resources", "actions"} : t \in Tables /\ db[t] \in [Ids -> Rows(t) \cup {None}]
    BY <1>1 DEF TablesTyped, Tables
  <1>3. ASSUME NEW t \in Tables, NEW j \in Ids, NEW row, Puts(t, j, row),
               row = None \/ j # i \/ t \notin {"servers", "resources", "actions"}
        PROVE  /\ db'.servers[i] # None => db'.servers[i] = db.servers[i]
               /\ db'.resources[i] # None => db'.resources[i] = db.resources[i]
               /\ db'.actions[i] # None => db'.actions[i] = db.actions[i]
    <2>1. ASSUME NEW u \in {"servers", "resources", "actions"}
          PROVE  db'[u][i] # None => db'[u][i] = db[u][i]
      <3>1. CASE u = t
        BY <1>2, <1>3, <3>1 DEF Puts
      <3>2. CASE u # t
        BY <1>2, <1>3, <3>2 DEF Puts
      <3> QED
        BY <3>1, <3>2
    <2> QED
      BY <2>1
  <1>4. CASE Same
    BY <1>2, <1>4 DEF Same
  <1>5. CASE ResourceMade(d) \/ ActionMade(d)
    <2>1. \E t \in Tables : \E row : Puts(t, d, row)
      BY <1>2, <1>5 DEF ResourceMade, ActionMade, Inserts
    <2> QED
      BY <1>1, <1>3, <2>1
  <1>6. CASE IdpWritten(d) \/ SenderWritten(d) \/ BrandingWritten(d) \/ AppWritten(d)
    <2>1. \A u \in {"servers", "resources", "actions"} : db'[u] = db[u]
      BY <1>6 DEF IdpWritten, SenderWritten, BrandingWritten, AppWritten, Inserts, Updates, Puts, Tables
    <2> QED
      BY <2>1
  <1>7. CASE \E t \in Tables \ {"apps"}, j \in Ids : Removes(d, t, j)
    BY <1>3, <1>7 DEF Removes, Drops
  <1>8. CASE ServerWritten(d)
    <2>1. /\ At(d, "write") /\ (Asks(d, {"createServer"}) \/ Asks(d, {"updateServer"}))
          /\ Op(d) = "createServer" <=> Asks(d, {"createServer"})
          /\ IF Op(d) = "createServer" THEN Inserts("servers", d, ServerRow(d, d))
             ELSE Updates("servers", Named(d), ServerRow(d, Named(d)))
      BY <1>8 DEF ServerWritten, Asks, Op
    <2>2. CASE Asks(d, {"createServer"})
      BY <1>1, <1>2, <1>3, <2>1, <2>2 DEF Inserts
    <2>3. CASE Asks(d, {"updateServer"}) /\ ~Asks(d, {"createServer"})
      <3>1. /\ Named(d) \in Ids /\ db.servers[Named(d)] # None
            /\ ServerRow(d, Named(d)).delim = db.servers[Named(d)].delim
            /\ Puts("servers", Named(d), ServerRow(d, Named(d)))
        <4>1. Asks(d, {"createServer", "updateServer"})
          BY <2>3 DEF Asks
        <4> QED
          BY <2>1, <2>3, <4>1, RowsWritten DEF Updates
      <3>2. CASE i # Named(d)
        BY <1>2, <1>3, <3>1, <3>2
      <3>3. CASE i = Named(d)
        <4>1. db'.servers[i] = ServerRow(d, Named(d))
          BY <1>2, <3>1, <3>3 DEF Puts
        <4>2. db'.resources = db.resources /\ db'.actions = db.actions
          BY <3>1 DEF Puts, Tables
        <4> QED
          BY <3>1, <3>3, <4>1, <4>2
      <3> QED
        BY <3>2, <3>3
    <2> QED
      BY <2>1, <2>2, <2>3
  <1> QED
    BY <1>1, <1>4, <1>5, <1>6, <1>7, <1>8 DEF Changed
-----------------------------------------------------------------------------
(* The bounds are kept.                                                    *)

\* Where a request begins, or is refused at once.
Beginnings(r) ==
    {<<"createServer", "ou">>, <<"createIdp", "byName">>, <<"createSender", "byName">>,
     <<"updateIdp", "byID">>, <<"deleteIdp", "byID">>, <<"getIdp", "byID">>, <<"updateSender", "byID">>,
     <<"deleteSender", "write">>, <<"createBranding", "write">>, <<"updateBranding", "write">>,
     <<"deleteBranding", "exists">>, <<"brandApp", "exists">>, <<"resolve", "app">>,
     <<"createUser", "validate">>, <<"updateUser", "validate">>, <<"deleteUser", "write">>,
     <<"defineType", "write">>}
    \cup (IF r.op = "brandApp" /\ r.branding = None THEN {<<"brandApp", "write">>} ELSE {})
    \cup (IF r.op = "list" /\ Valid(r)
          THEN {<<"list", IF r.table \in {"resources", "actions"} THEN "server" ELSE "count">>} ELSE {})
    \cup (IF r.op \notin {"createServer", "list"} \cup RegistryOps \cup BrandingOps
                         \cup {"brandApp", "resolve"} \cup ProfileOps
          THEN {<<r.op, "server">>} ELSE {})
    \cup {<<r.op, "refused">>}

\* A call that begins.
LEMMA Beginning ==
    ASSUME CallsTyped, NEW c \in Calls, NEW r \in Requests, Begin(c, r)
    PROVE  /\ At(c, "idle") /\ db' = db /\ Same
           /\ CallsTyped'
           /\ \A d \in Calls \ {c} : call'[d] = call[d]
           /\ <<r.op, call'[c].pc>> \in Beginnings(r)
           /\ call'[c].req = r /\ call'[c].row = None /\ call'[c].above = None
           /\ call'[c].offset = 0 /\ call'[c].back = FALSE
           /\ call'[c].listed = {} /\ call'[c].slipped = FALSE
           /\ call'[c].start = (IF r.op = "list" THEN Present(r.table) ELSE {})
           /\ call'[c].before = {d \in Calls : Ended(d)}
  <1> DEFINE step == IF Refused(r) \/ (r.op = "list" /\ ~Valid(r)) THEN "refused"
                     ELSE IF r.op \in RegistryOps \cup BrandingOps \cup {"brandApp", "resolve"}
                     THEN FirstRegistryStep(r)
                     ELSE IF r.op \in ProfileOps THEN FirstProfileStep(r) ELSE FirstStep(r)
             before == {d \in Calls : Ended(d)}
             start == IF r.op = "list" THEN Present(r.table) ELSE {}
             new == [Idle EXCEPT !.req = r, !.before = before, !.start = start, !.pc = step]
  <1>1. At(c, "idle") /\ db' = db /\ Same
    BY DEF Begin, Same, Unstamped
  <1>2. <<r.op, step>> \in Beginnings(r)
    <2>1. CASE Refused(r) \/ (r.op = "list" /\ ~Valid(r))
      BY <2>1 DEF Beginnings
    <2>2. CASE /\ ~(Refused(r) \/ (r.op = "list" /\ ~Valid(r)))
               /\ r.op \in RegistryOps \cup BrandingOps \cup {"brandApp", "resolve"}
      <3>1. step = FirstRegistryStep(r)
        BY <2>2
      <3>2. CASE r.op \in {"createIdp", "createSender", "updateIdp", "deleteIdp"}
        BY <3>1, <3>2 DEF FirstRegistryStep, Beginnings
      <3>3. CASE r.op \in {"getIdp", "updateSender", "deleteSender", "createBranding", "updateBranding"}
        BY <3>1, <3>3 DEF FirstRegistryStep, Beginnings
      <3>4. CASE r.op \in {"deleteBranding", "resolve"}
        BY <3>1, <3>4 DEF FirstRegistryStep, Beginnings
      <3>5. CASE r.op = "brandApp"
        BY <3>1, <3>5 DEF FirstRegistryStep, Beginnings
      <3> QED
        BY <2>2, <3>2, <3>3, <3>4, <3>5 DEF RegistryOps, BrandingOps
    <2>3. CASE /\ ~(Refused(r) \/ (r.op = "list" /\ ~Valid(r)))
               /\ r.op \notin RegistryOps \cup BrandingOps \cup {"brandApp", "resolve"}
               /\ r.op \in ProfileOps
      <3>1. step = FirstProfileStep(r)
        BY <2>3
      <3> QED
        BY <2>3, <3>1 DEF FirstProfileStep, ProfileOps, Beginnings
    <2>4. CASE /\ ~(Refused(r) \/ (r.op = "list" /\ ~Valid(r)))
               /\ r.op \notin RegistryOps \cup BrandingOps \cup {"brandApp", "resolve"} \cup ProfileOps
      <3>1. step = FirstStep(r)
        BY <2>4
      <3>2. CASE r.op = "createServer"
        BY <3>1, <3>2 DEF FirstStep, Beginnings
      <3>3. CASE r.op = "list"
        BY <2>4, <3>1, <3>3 DEF FirstStep, Beginnings
      <3>4. CASE r.op \notin {"createServer", "list"}
        BY <2>4, <3>1, <3>4 DEF FirstStep, Beginnings
      <3> QED
        BY <3>2, <3>3, <3>4
    <2> QED
      BY <2>1, <2>2, <2>3, <2>4
  <1>3. call' = [call EXCEPT ![c] = new]
    BY DEF Begin
  <1>4. step \in Steps \cup Answers
    <2> HIDE DEF step
    <2>1. \A b \in Beginnings(r) : b[2] \in Steps \cup Answers
      BY DEF Beginnings, Steps, Answers
    <2> QED
      BY <1>2, <2>1
  <1>5. start \in SUBSET Ids /\ before \in SUBSET Calls
    BY DEF Present, PresentIn
  <1> HIDE DEF step, start, before
  <1>6. /\ Idle \in CallStates
        /\ Idle.row = None /\ Idle.above = None /\ Idle.offset = 0 /\ Idle.back = FALSE
        /\ Idle.listed = {} /\ Idle.slipped = FALSE
    BY DEF Idle, CallStates, Steps
  <1>7. /\ new \in CallStates
        /\ new.req = r /\ new.before = before /\ new.start = start /\ new.pc = step
        /\ new.row = None /\ new.above = None /\ new.offset = 0 /\ new.back = FALSE
        /\ new.listed = {} /\ new.slipped = FALSE
    BY <1>4, <1>5, <1>6 DEF CallStates
  <1> HIDE DEF new
  <1>8. CallsTyped' /\ (\A d \in Calls \ {c} : call'[d] = call[d]) /\ call'[c] = new
    BY <1>3, <1>7 DEF CallsTyped
  <1> QED
    BY <1>1, <1>2, <1>7, <1>8 DEF start, before

\* What was read of a server still says its delimiter.
LEMMA DelimiterStays ==
    ASSUME Bounds, NEW d \in Calls, Shape(d), NEW c \in Calls, NEW i \in Ids, DelimiterKept(c, i),
           call'[c].row = call[c].row
    PROVE  DelimiterKept(c, i)'
  BY Lasting, RowsKept DEF DelimiterKept

\* Other calls are on their courses still.
LEMMA OthersCourses ==
    ASSUME Bounds, NEW d \in Calls, Shape(d), NEW c \in Calls \ {d}
    PROVE  HistoryKept(c)' /\ ServerCourse(c)' /\ PlaceCourse(c)' /\ AboveCourse(c)'
           /\ RegistryCourse(c)' /\ ListCourse(c)'
  <1>1. /\ call'[c] = call[c]
        /\ \A e \in Calls : Ended(e) => Ended(e)'
        /\ \A i : Made(i) => Made(i)'
    BY Lasting
  <1>2. /\ HistoryKept(c) /\ ServerCourse(c) /\ PlaceCourse(c) /\ AboveCourse(c)
        /\ RegistryCourse(c) /\ ListCourse(c) /\ call[c] \in CallStates
    BY DEF Bounds, CallsTyped
  <1>3. HistoryKept(c)'
    BY <1>1, <1>2 DEF HistoryKept, At, Ended, CallStates
  <1>4. \A i \in Ids : DelimiterKept(c, i) => DelimiterKept(c, i)'
    BY <1>1, DelimiterStays
  <1>5. ~At(c, "idle") => call[c].req \in Requests
    BY <1>2 DEF HistoryKept
  <1>6. ServerCourse(c)'
    <2> SUFFICES ASSUME Asks(c, {"createServer", "updateServer"})
                 PROVE  ServerCourse(c)'
      BY <1>1 DEF ServerCourse, Asks, At
    <2>1. Op(c) = "updateServer" => call[c].req.server \in Ids
      BY <1>5, RequestsAssumption DEF Asks, Op
    <2> QED
      BY <1>1, <1>2, <1>4, <2>1 DEF ServerCourse, Asks, At, Op
  <1>7. PlaceCourse(c)'
    <2> SUFFICES ASSUME Asks(c, {"createResource", "createAction"})
                 PROVE  PlaceCourse(c)'
      BY <1>1 DEF PlaceCourse, Asks, At
    <2>1. call[c].req.server \in Ids /\ call[c].req.above \in Ids \cup {None}
      BY <1>5, RequestsAssumption DEF Asks, Op, ActionOps
    <2>2. \A i \in Ids : Made(i) /\ (db.resources[i] # None => db.resources[i] = call[c].above)
                         => Made(i)' /\ (db'.resources[i] # None => db'.resources[i] = call[c].above)
      BY <1>1, RowsKept
    <2> QED
      BY <1>1, <1>2, <1>4, <2>1, <2>2 DEF PlaceCourse, Asks, At, Op
  <1>8. AboveCourse(c)' /\ RegistryCourse(c)' /\ ListCourse(c)'
    BY <1>1, <1>2 DEF AboveCourse, RegistryCourse, ListCourse, Asks, At, Running, Ended
  <1> QED
    BY <1>3, <1>6, <1>7, <1>8

\* A call that has ended is at the end of its course.
LEMMA EndedCourses ==
    ASSUME NEW c \in Calls, call'[c].pc \in Answers, call'[c].row = None, call'[c].above = None
    PROVE  ServerCourse(c)' /\ PlaceCourse(c)' /\ AboveCourse(c)' /\ RegistryCourse(c)' /\ ListCourse(c)'
  <1>1. \A s \in Steps : s \notin Answers
    BY DEF Steps, Answers
  <1>2. /\ call'[c].pc \notin {"ou", "name", "ident", "write", "above", "handle", "server", "byName"}
        /\ call'[c].pc \notin {"branding", "page", "count"}
    BY <1>1 DEF Steps
  <1> QED
    BY <1>2 DEF ServerCourse, PlaceCourse, AboveCourse, RegistryCourse, ListCourse, At, Running, Ended

\* A call that writes a server goes on.
LEMMA OwnServerCourse ==
    ASSUME Bounds, NEW c \in Calls, Serves(c), Shape(c), call'[c].pc \notin Answers
    PROVE  ServerCourse(c)'
  <1>1. /\ call'[c].req = call[c].req /\ call[c].req \in Requests /\ ServerCourse(c) /\ Same
        /\ ~At(c, "idle") /\ \A ops : Asks(c, ops)' => Asks(c, ops)
    BY CallFacts, Lasting DEF Shape, Running
  <1>2. ~Stops(c) /\ \A answers : answers \subseteq Answers => ~Ends(c, answers)
    BY DEF Stops, Ends
  <1>3. {"ok", "failed"} \subseteq Answers /\ {"rejected"} \subseteq Answers
    BY DEF Answers
  <1>4. CASE Op(c) = "createServer"
    <2>1. CreateResourceServer(c)
      BY <1>2, <1>4, Operations, Failing DEF Bounds
    <2>2. \/ call[c].req.ou \in OUs /\ Goes(c, "name")
          \/ At(c, "name") /\ Goes(c, "ident")
          \/ At(c, "ident") /\ Goes(c, "write")
      BY <1>2, <1>3, <2>1, CreateServerSteps
    <2>3. Asks(c, {"createServer", "updateServer"}) /\ Op(c)' = "createServer"
      BY <1>1, <1>4 DEF Asks, Op
    <2> QED
      BY <1>1, <1>4, <2>2, <2>3 DEF ServerCourse, Asks, Op, At, Goes
  <1>5. CASE Op(c) = "updateServer"
    <2> DEFINE i == call[c].req.server
    <2>1. UpdateResourceServer(c)
      BY <1>2, <1>5, Operations, Failing DEF Bounds
    <2>2. \/ db.servers[i] # None /\ Reads(c, "ou", db.servers[i])
          \/ At(c, "ou") /\ call[c].req.ou \in OUs /\ (Goes(c, "name") \/ Goes(c, "ident"))
          \/ At(c, "name") /\ Goes(c, "ident")
          \/ At(c, "ident") /\ Goes(c, "write")
      BY <1>2, <1>3, <2>1, UpdateServerSteps
    <2>3. Asks(c, {"createServer", "updateServer"}) /\ Op(c)' = "updateServer" /\ i \in Ids
      BY <1>1, <1>5, RequestsAssumption DEF Asks, Op
    <2>4. CASE db.servers[i] # None /\ Reads(c, "ou", db.servers[i])
      <3>1. "servers" \in Tables /\ TablesTyped
        BY DEF Tables, Bounds
      <3>2. Made(i)
        BY <2>3, <2>4, <3>1 DEF Bounds, RowsMade, Present, PresentIn
      <3>3. db.servers[i] \in ServerRows
        BY <2>3, <2>4, <3>1, RowFacts
      <3>4. DelimiterKept(c, i)'
        BY <1>1, <2>4, <3>1, <3>2, <3>3, Lasting DEF DelimiterKept, Reads, Same
      <3> QED
        BY <1>1, <2>3, <2>4, <3>4 DEF ServerCourse, Asks, Op, At, Reads
    <2>5. CASE /\ At(c, "ou") \/ At(c, "name") \/ At(c, "ident")
               /\ call[c].req.ou \in OUs
               /\ Goes(c, "name") \/ Goes(c, "ident") \/ Goes(c, "write")
      <3>1. DelimiterKept(c, i)
        BY <1>1, <2>3, <2>5, <1>5 DEF ServerCourse, At
      <3>2. DelimiterKept(c, i)'
        BY <1>1, <2>3, <2>5, <3>1, DelimiterStays DEF Goes
      <3> QED
        BY <1>1, <2>3, <2>5, <3>2 DEF ServerCourse, Asks, Op, At, Goes
    <2> QED
      BY <1>1, <2>2, <2>3, <2>4, <2>5 DEF ServerCourse, At
  <1> QED
    BY <1>1, <1>4, <1>5 DEF ServerCourse, Asks, Op

\* A call that creates something in a place goes on.
LEMMA OwnPlaceCourse ==
    ASSUME Bounds, NEW c \in Calls, Serves(c), Shape(c), call'[c].pc \notin Answers
    PROVE  PlaceCourse(c)'
  <1> DEFINE req == call[c].req
             server == db.servers[req.server]
             above == db.resources[req.above]
  <1>1. /\ call'[c].req = req /\ req \in Requests /\ PlaceCourse(c) /\ Same
        /\ ~At(c, "idle") /\ \A ops : Asks(c, ops)' => Asks(c, ops)
    BY CallFacts, Lasting DEF Shape, Running
  <1>2. ~Stops(c) /\ \A answers : answers \subseteq Answers => ~Ends(c, answers)
    BY DEF Stops, Ends
  <1>3. {"ok", "failed"} \subseteq Answers /\ {"rejected"} \subseteq Answers
    BY DEF Answers
  <1>4. SUFFICES ASSUME Asks(c, {"createResource", "createAction"}) PROVE PlaceCourse(c)'
    BY <1>1 DEF PlaceCourse
  <1>5. Op(c) \in {"createResource", "createAction"} /\ req.server \in Ids /\ req.above \in Ids \cup {None}
    BY <1>1, <1>4, RequestsAssumption DEF Asks, Op, ActionOps
  <1>6. \/ /\ At(c, "server") /\ server \in ServerRows /\ server # None
           /\ Op(c) = "createResource" => ValidHandle(req.handle, server.delim)
           /\ Reads(c, IF req.above = None THEN "handle" ELSE "above", server)
        \/ /\ At(c, "above") /\ above \in ResourceRows /\ above # None
           /\ above.server = req.server /\ ReadsAbove(c, "handle", above)
        \/ /\ At(c, "handle") /\ Goes(c, "write")
           /\ Op(c) = "createAction" => ValidHandle(req.handle, call[c].row.delim)
    <2>1. CASE Op(c) = "createResource"
      <3>1. CreateResource(c)
        BY <1>2, <2>1, Operations, Failing DEF Bounds
      <3> QED
        BY <1>2, <1>3, <2>1, <3>1, CreateResourceSteps
    <2>2. CASE Op(c) = "createAction"
      <3>1. CreateAction(c)
        BY <1>2, <2>2, Operations, Failing DEF Bounds
      <3> QED
        BY <1>2, <1>3, <2>2, <3>1, CreateActionSteps
    <2> QED
      BY <1>5, <2>1, <2>2
  <1>7. "servers" \in Tables /\ "resources" \in Tables /\ TablesTyped /\ RowsMade
    BY DEF Tables, Bounds
  <1>8. CASE /\ At(c, "server") /\ server \in ServerRows /\ server # None
             /\ Op(c) = "createResource" => ValidHandle(req.handle, server.delim)
             /\ Reads(c, IF req.above = None THEN "handle" ELSE "above", server)
    <2>1. Made(req.server)
      BY <1>5, <1>7, <1>8 DEF RowsMade, Present, PresentIn
    <2>2. DelimiterKept(c, req.server)'
      BY <1>1, <1>7, <1>8, <2>1, Lasting DEF DelimiterKept, Reads, Same
    <2>3. call[c].above = None
      BY <1>1, <1>4, <1>8 DEF PlaceCourse, At
    <2>4. /\ call'[c].pc = IF req.above = None THEN "handle" ELSE "above"
          /\ call'[c].row = server /\ call'[c].above = None
      BY <1>8, <2>3 DEF Reads
    <2>5. CASE req.above = None
      BY <1>1, <1>8, <2>2, <2>4, <2>5 DEF PlaceCourse, At, Op
    <2>6. CASE req.above # None
      BY <1>1, <1>8, <2>2, <2>4, <2>6 DEF PlaceCourse, At, Op
    <2> QED
      BY <2>5, <2>6
  <1>9. CASE /\ At(c, "above") /\ above \in ResourceRows /\ above # None
             /\ above.server = req.server /\ ReadsAbove(c, "handle", above)
    <2>1. /\ DelimiterKept(c, req.server) /\ req.above # None
          /\ Op(c) = "createResource" => ValidHandle(req.handle, call[c].row.delim)
      BY <1>1, <1>4, <1>9, CallFacts DEF PlaceCourse, AboveCourse, At
    <2>2. DelimiterKept(c, req.server)'
      BY <1>1, <1>5, <1>9, <2>1, DelimiterStays DEF ReadsAbove
    <2>3. Made(req.above)'
      BY <1>5, <1>7, <1>9, <2>1, Lasting DEF RowsMade, Present, PresentIn
    <2>4. call'[c].above = above /\ db'.resources[req.above] = above
      BY <1>1, <1>7, <1>9 DEF ReadsAbove, Same
    <2> QED
      BY <1>1, <1>9, <2>1, <2>2, <2>3, <2>4 DEF PlaceCourse, At, Op, ReadsAbove
  <1>10. CASE /\ At(c, "handle") /\ Goes(c, "write")
              /\ Op(c) = "createAction" => ValidHandle(req.handle, call[c].row.delim)
    <2>1. /\ DelimiterKept(c, req.server)
          /\ Op(c) = "createResource" => ValidHandle(req.handle, call[c].row.delim)
          /\ IF req.above = None THEN call[c].above = None
             ELSE /\ call[c].above \in ResourceRows
                  /\ call[c].above.server = req.server
                  /\ Made(req.above)
                  /\ db.resources[req.above] # None => db.resources[req.above] = call[c].above
      BY <1>1, <1>4, <1>10 DEF PlaceCourse, At
    <2>2. DelimiterKept(c, req.server)'
      BY <1>1, <1>5, <1>10, <2>1, DelimiterStays DEF Goes
    <2>3. Made(req.above) => Made(req.above)'
      BY Lasting
    <2>4. db'.resources = db.resources
      BY <1>1, <1>7 DEF Same
    <2> QED
      BY <1>1, <1>5, <1>10, <2>1, <2>2, <2>3, <2>4 DEF PlaceCourse, At, Op, Goes
  <1> QED
    BY <1>6, <1>8, <1>9, <1>10

\* A call on a registry goes on.
LEMMA OwnRegistryCourse ==
    ASSUME Bounds, NEW c \in Calls, Serves(c), Shape(c), call'[c].pc \notin Answers
    PROVE  RegistryCourse(c)'
  <1>1. /\ call'[c].req = call[c].req /\ call[c].req \in Requests /\ RegistryCourse(c) /\ Same
        /\ ~At(c, "idle") /\ \A ops : Asks(c, ops)' <=> Asks(c, ops)
    BY CallFacts, Lasting DEF Shape, Running
  <1>2. ~Stops(c) /\ \A answers : answers \subseteq Answers => ~Ends(c, answers)
    BY DEF Stops, Ends
  <1>3. {"ok", "failed"} \subseteq Answers /\ {"dangling"} \subseteq Answers
    BY DEF Answers
  <1>4. /\ "idps" \in Tables /\ "senders" \in Tables /\ TablesTyped
        /\ \A table \in Tables, i \in Ids : db[table][i] # None => Made(i)
        /\ \A i : Made(i) => Made(i)'
    BY Lasting DEF Tables, Bounds, RowsMade, Present, PresentIn
  <1>5. CASE Op(c) = "updateIdp"
    <2>1. UpdateIdentityProvider(c)
      BY <1>2, <1>5, Operations, Failing DEF Bounds
    <2>2. \/ /\ db.idps[call[c].req.id] # None /\ db.idps[call[c].req.id] \in IdpRows
             /\ Reads(c, "byName", db.idps[call[c].req.id])
          \/ At(c, "byName") /\ Goes(c, "write")
      BY <1>2, <1>3, <2>1, UpdateIdpSteps
    <2>3. call[c].req.id \in Ids
      BY <1>1, <1>5, RequestsAssumption DEF Op, RegistryOps
    <2>4. call'[c].row \in IdpRows /\ Made(call[c].req.id)'
      BY <1>1, <1>4, <1>5, <2>2, <2>3 DEF RegistryCourse, Asks, Op, At, Reads, Goes
    <2> QED
      BY <1>1, <1>5, <2>4 DEF RegistryCourse, Asks, Op
  <1>6. CASE Op(c) = "updateSender"
    <2>1. UpdateSender(c)
      BY <1>2, <1>6, Operations, Failing DEF Bounds
    <2>2. \/ /\ db.senders[call[c].req.id] # None /\ db.senders[call[c].req.id] \in SenderRows
             /\ Reads(c, "byName", db.senders[call[c].req.id])
          \/ At(c, "byName") /\ Goes(c, "write")
      BY <1>2, <1>3, <2>1, UpdateSenderSteps
    <2>3. call[c].req.id \in Ids
      BY <1>1, <1>6, RequestsAssumption DEF Op, RegistryOps
    <2>4. call'[c].row \in SenderRows /\ Made(call[c].req.id)'
      BY <1>1, <1>4, <1>6, <2>2, <2>3 DEF RegistryCourse, Asks, Op, At, Reads, Goes
    <2> QED
      BY <1>1, <1>6, <2>4 DEF RegistryCourse, Asks, Op
  <1>7. CASE Op(c) = "resolve"
    <2>1. ResolveBranding(c)
      BY <1>2, <1>7, Operations, Failing DEF Bounds
    <2>2. call'[c].row \in AppRows /\ call'[c].row.branding # None
      BY <1>2, <1>3, <2>1, ResolveBrandingSteps DEF Reads
    <2> QED
      BY <1>1, <1>7, <2>2 DEF RegistryCourse, Asks, Op
  <1> QED
    BY <1>1, <1>5, <1>6, <1>7 DEF RegistryCourse, Asks, Op

\* A client that walks through a list goes on.
LEMMA OwnListCourse ==
    ASSUME Bounds, NEW c \in Calls, Serves(c), Shape(c), call'[c].pc \notin Answers
    PROVE  ListCourse(c)'
  <1> DEFINE k == call[c]
             n == call'[c]
  <1>1. SUFFICES ASSUME Asks(c, {"list"}) PROVE ListCourse(c)'
    BY Lasting DEF ListCourse
  <1>2. /\ n.req = k.req /\ k.req \in Requests /\ ListCourse(c) /\ Running(c)
        /\ ~At(c, "idle") /\ Op(c) = "list" /\ k.offset \in Nat /\ k \in CallStates
    BY <1>1, CallFacts, Lasting DEF Shape, Running, Asks, Op, CallsTyped, CallStates
  <1>3. ReadList(c) /\ ~Stops(c)
    BY <1>2, Operations, Failing DEF Bounds, Stops, Ends
  <1>4. /\ k.req.limit \in 1 .. MaxPageSize
        /\ k.pc \in {"server", "above"} => k.req.table \in {"resources", "actions"}
        /\ k.back => ~k.req.forward
        /\ ~k.back /\ ~k.req.forward => k.offset = 0
    BY <1>1, <1>2 DEF ListCourse
  <1>5. /\ FirstStep(k.req) \in {"server", "count"}
        /\ FirstStep(k.req) = "server" => k.req.table \in {"resources", "actions"}
    BY <1>2 DEF FirstStep, Op
  <1>6. \/ /\ n.pc \in {"above", "count"} /\ k.pc \in {"server", "above"}
           /\ n.offset = k.offset /\ n.back = k.back
        \/ n.pc = "page" /\ n.offset = k.offset /\ n.back = k.back
        \/ PageRead(c)
    <2>1. CASE GoesOn(c) /\ n.pc \in {"above", "count"} /\ (At(c, "server") \/ At(c, "above"))
      BY <2>1 DEF GoesOn, Rest, At
    <2> QED
      BY <1>3, <2>1, ListSteps
  <1>7. CASE PageRead(c)
    <2>1. n.pc = FirstStep(k.req)
      BY <1>7 DEF PageRead, Answers
    <2>2. /\ n.back => ~k.req.forward
          /\ ~n.back /\ ~k.req.forward => n.offset = 0
      BY <1>4, <1>7, <2>1 DEF PageRead, Answers
    <2> QED
      BY <1>1, <1>2, <1>4, <1>5, <2>1, <2>2 DEF ListCourse
  <1>8. CASE \/ /\ n.pc \in {"above", "count"} /\ k.pc \in {"server", "above"}
                /\ n.offset = k.offset /\ n.back = k.back
             \/ n.pc = "page" /\ n.offset = k.offset /\ n.back = k.back
    BY <1>2, <1>4, <1>8 DEF ListCourse
  <1> QED
    BY <1>6, <1>7, <1>8

\* The courses of a call that begins.
LEMMA BeginningCourses ==
    ASSUME Bounds, NEW c \in Calls, NEW r \in Requests, Begin(c, r)
    PROVE  HistoryKept(c)' /\ ServerCourse(c)' /\ PlaceCourse(c)' /\ AboveCourse(c)'
           /\ RegistryCourse(c)' /\ ListCourse(c)'
  <1> DEFINE n == call'[c]
  <1>1. /\ At(c, "idle") /\ db' = db
        /\ \A d \in Calls \ {c} : call'[d] = call[d]
        /\ <<r.op, n.pc>> \in Beginnings(r)
        /\ n.req = r /\ n.row = None /\ n.above = None
        /\ n.offset = 0 /\ n.back = FALSE
        /\ n.start = (IF r.op = "list" THEN Present(r.table) ELSE {})
        /\ n.before = {d \in Calls : Ended(d)}
    BY Beginning DEF Bounds
  <1> HIDE DEF n
  <1>2. c \notin n.before /\ \A d \in Calls : Ended(d) => d # c /\ Ended(d)'
    BY <1>1 DEF Ended, At, Answers
  <1>3. n.pc # "idle"
    BY <1>1 DEF Beginnings
  <1>4. ASSUME r.op = "list" PROVE \A i \in Present(r.table) : Made(i) /\ Made(i)'
    <2>1. r.table \in Tables
      BY <1>4, RequestsAssumption DEF Tables
    <2> QED
      BY <1>2, <2>1 DEF Bounds, RowsMade, Made
  <1>5. HistoryKept(c)'
    BY <1>1, <1>2, <1>3, <1>4 DEF HistoryKept, n, At, Ended
  <1>6. CASE n.pc = "refused"
    BY <1>1, <1>5, <1>6, EndedCourses DEF n, Answers
  <1>7. CASE n.pc # "refused"
    <2>1. r.op \in {"createServer", "updateServer"} => n.pc \in {"ou", "server"} /\ (n.pc = "ou" => r.op = "createServer")
      BY <1>1, <1>7 DEF Beginnings, RegistryOps, BrandingOps, ProfileOps
    <2>2. r.op \in {"createResource", "createAction"} => n.pc = "server"
      BY <1>1, <1>7 DEF Beginnings, RegistryOps, BrandingOps, ProfileOps
    <2>3. n.pc # "above"
      BY <1>1, <1>7 DEF Beginnings
    <2>4. r.op \in {"updateIdp", "updateSender"} => n.pc = "byID"
      BY <1>1, <1>7 DEF Beginnings, RegistryOps
    <2>5. r.op = "resolve" => n.pc = "app"
      BY <1>1, <1>7 DEF Beginnings
    <2>6. r.op = "list" => /\ Valid(r)
                           /\ n.pc = IF r.table \in {"resources", "actions"} THEN "server" ELSE "count"
      BY <1>1, <1>7 DEF Beginnings
    <2>7. ServerCourse(c)'
      BY <1>1, <2>1 DEF ServerCourse, Asks, Op, n
    <2>8. PlaceCourse(c)'
      BY <1>1, <2>2 DEF PlaceCourse, Asks, Op, n, At
    <2>9. AboveCourse(c)'
      BY <2>3 DEF AboveCourse, At, n
    <2>10. RegistryCourse(c)'
      BY <1>1, <2>4, <2>5 DEF RegistryCourse, Asks, At, n
    <2>11. ListCourse(c)'
      BY <1>1, <2>6 DEF ListCourse, Asks, Valid, n
    <2> QED
      BY <1>5, <2>7, <2>8, <2>9, <2>10, <2>11
  <1> QED
    BY <1>6, <1>7

\* When a call begins, the others stay on their courses.
LEMMA OthersAtBeginning ==
    ASSUME Bounds, NEW c \in Calls, NEW r \in Requests, Begin(c, r), NEW d \in Calls \ {c}
    PROVE  HistoryKept(d)' /\ ServerCourse(d)' /\ PlaceCourse(d)' /\ AboveCourse(d)'
           /\ RegistryCourse(d)' /\ ListCourse(d)'
  <1>1. At(c, "idle") /\ db' = db /\ call'[d] = call[d] /\ \A e \in Calls \ {c} : call'[e] = call[e]
    BY Beginning DEF Bounds
  <1>2. \A e \in Calls : Ended(e) => Ended(e)'
    BY <1>1 DEF Ended, At, Answers
  <1>3. \A i : Made(i) => Made(i)'
    BY <1>2 DEF Made
  <1>4. /\ HistoryKept(d) /\ ServerCourse(d) /\ PlaceCourse(d) /\ AboveCourse(d)
        /\ RegistryCourse(d) /\ ListCourse(d) /\ call[d] \in CallStates
    BY DEF Bounds, CallsTyped
  <1>5. \A i : DelimiterKept(d, i) => DelimiterKept(d, i)'
    BY <1>1, <1>3 DEF DelimiterKept
  <1>6. HistoryKept(d)'
    BY <1>1, <1>2, <1>3, <1>4 DEF HistoryKept, At, Ended, CallStates
  <1>7. ServerCourse(d)'
    BY <1>1, <1>4, <1>5 DEF ServerCourse, Asks, At, Op
  <1>8. PlaceCourse(d)'
    BY <1>1, <1>3, <1>4, <1>5 DEF PlaceCourse, Asks, At, Op
  <1>9. AboveCourse(d)' /\ RegistryCourse(d)' /\ ListCourse(d)'
    BY <1>1, <1>3, <1>4 DEF AboveCourse, RegistryCourse, ListCourse, Asks, At, Running, Ended
  <1> QED
    BY <1>6, <1>7, <1>8, <1>9

\* A stutter keeps the bounds.
LEMMA StutterBounds ==
    ASSUME Bounds, UNCHANGED vars
    PROVE  Bounds'
  <1>1. db' = db /\ call' = call
    BY DEF vars
  <1>2. TablesTyped' /\ RowsMade' /\ RowsFinite' /\ RowsStamped' /\ CallsTyped'
    BY <1>1 DEF Bounds, TablesTyped, RowsMade, RowsFinite, RowsStamped, CallsTyped, Present, PresentIn,
                Made, Ended
  <1>3. \A c \in Calls : HistoryKept(c)' /\ ServerCourse(c)' /\ PlaceCourse(c)' /\ AboveCourse(c)'
    BY <1>1 DEF Bounds, HistoryKept, ServerCourse, PlaceCourse, AboveCourse, At, Asks, Ended, Made,
                DelimiterKept, Op
  <1>4. \A c \in Calls : RegistryCourse(c)' /\ ListCourse(c)'
    BY <1>1 DEF Bounds, RegistryCourse, ListCourse, At, Asks, Running, Ended, Made
  <1> QED
    BY <1>2, <1>3, <1>4 DEF Bounds

\* Every step keeps the bounds.
LEMMA BoundsStep ==
    ASSUME Bounds, [Next]_vars
    PROVE  Bounds'
  <1>1. ASSUME NEW c \in Calls, Serves(c) PROVE Bounds'
    <2>1. Shape(c)
      BY <1>1, Shapes
    <2>2. CallsTyped' /\ TablesTyped' /\ RowsMade' /\ RowsFinite' /\ RowsStamped'
      BY <2>1, TablesKept DEF Shape, Keeps
    <2>3. \A d \in Calls \ {c} :
             /\ HistoryKept(d)' /\ ServerCourse(d)' /\ PlaceCourse(d)' /\ AboveCourse(d)'
             /\ RegistryCourse(d)' /\ ListCourse(d)'
      BY <2>1, OthersCourses
    <2>4. HistoryKept(c)'
      <3>1. /\ call[c].req \in Requests /\ HistoryKept(c) /\ ~At(c, "idle")
            /\ call[c].before \subseteq Calls
        BY <2>1, CallFacts DEF Shape, Running, CallsTyped, CallStates
      <3>2. /\ \A d \in call'[c].before : Ended(d)'
            /\ \A i \in call'[c].start : Made(i)'
        BY <2>1, <3>1, Lasting DEF HistoryKept
      <3> QED
        BY <2>1, <3>1, <3>2, Lasting DEF HistoryKept, Shape, Keeps, At, Ended
    <2>5. ServerCourse(c)' /\ PlaceCourse(c)' /\ AboveCourse(c)' /\ RegistryCourse(c)' /\ ListCourse(c)'
      <3>1. CASE call'[c].pc \in Answers
        BY <2>1, <3>1, EndedCourses DEF Shape
      <3>2. CASE call'[c].pc \notin Answers
        <4>1. AboveCourse(c)'
          BY <2>1 DEF Shape, Keeps, AboveCourse, At
        <4> QED
          BY <1>1, <2>1, <3>2, <4>1, OwnServerCourse, OwnPlaceCourse, OwnRegistryCourse, OwnListCourse
      <3> QED
        BY <3>1, <3>2
    <2> QED
      BY <2>2, <2>3, <2>4, <2>5 DEF Bounds
  <1>2. ASSUME NEW c \in Calls, NEW r \in Requests, Begin(c, r) PROVE Bounds'
    <2>1. db' = db /\ CallsTyped' /\ (\A d \in Calls \ {c} : call'[d] = call[d]) /\ At(c, "idle")
      BY <1>2, Beginning DEF Bounds
    <2>2. \A i : Made(i) => Made(i)'
      BY <2>1 DEF Made, Ended, At, Answers
    <2>3. TablesTyped' /\ RowsMade' /\ RowsFinite' /\ RowsStamped'
      BY <2>1, <2>2 DEF Bounds, TablesTyped, RowsMade, RowsFinite, RowsStamped, Present, PresentIn
    <2>4. \A d \in Calls :
             /\ HistoryKept(d)' /\ ServerCourse(d)' /\ PlaceCourse(d)' /\ AboveCourse(d)'
             /\ RegistryCourse(d)' /\ ListCourse(d)'
      BY <1>2, BeginningCourses, OthersAtBeginning
    <2> QED
      BY <2>1, <2>3, <2>4 DEF Bounds
  <1>3. CASE UNCHANGED vars
    BY <1>3, StutterBounds
  <1> QED
    BY <1>1, <1>2, <1>3 DEF Next, Serves

\* The initial tables are in their bounds, and no call has begun.
LEMMA BoundsAtFirst ==
    ASSUME Init
    PROVE  Bounds
  <1>1. /\ db \in InitialTables
        /\ \A c \in Calls : call[c] = Idle
        /\ call = [c \in Calls |-> Idle]
    BY DEF Init
  <1>2. Idle \in CallStates /\ Idle.pc = "idle" /\ Idle.before = {} /\ Idle.start = {}
    BY DEF Idle, CallStates, Steps
  <1>3. CallsTyped
    BY <1>1, <1>2 DEF CallsTyped
  <1>4. /\ DOMAIN db = Tables \cup {"users", "index", "type", "created", "clock", "immutable"}
        /\ db.created \in [Tables \X Ids -> Nat] /\ db.clock \in Nat
        /\ RowsTyped(db)
        /\ \A table \in Tables : PresentIn(db, table) \subseteq Seeds
    BY <1>1, TablesAssumption
  <1>5. TablesTyped /\ RowsStamped
    BY <1>4 DEF TablesTyped, RowsStamped, RowsTyped, Present
  <1>6. RowsMade
    BY <1>4, IdsAssumption DEF RowsMade, Made, Present
  <1>7. RowsFinite
    BY <1>4, IdsAssumption, FS_Subset DEF RowsFinite, Present
  <1>8. \A c \in Calls : /\ HistoryKept(c) /\ ServerCourse(c) /\ PlaceCourse(c) /\ AboveCourse(c)
                         /\ RegistryCourse(c) /\ ListCourse(c)
    BY <1>1, <1>2 DEF HistoryKept, ServerCourse, PlaceCourse, AboveCourse, RegistryCourse, ListCourse,
                      At, Asks, Running, Ended, Answers
  <1> QED
    BY <1>3, <1>5, <1>6, <1>7, <1>8 DEF Bounds

\* The types: the tables have rows of their types, stamped in the order of their creation,
\* and a call that has ended has forgotten what it read.
THEOREM BoundsHold == Spec => []Bounds
  BY BoundsAtFirst, BoundsStep, PTL DEF Spec

\* The types follow from the bounds.
LEMMA TypesFollow ==
    ASSUME Bounds
    PROVE  TypeOK
  <1>1. RowsTyped(db)
    BY DEF Bounds, TablesTyped, RowsStamped, RowsTyped, Present
  <1>2. \A c \in Calls : /\ call[c].pc \in Steps \cup Answers
                         /\ call[c].req \in Requests \cup {None}
                         /\ Ended(c) => call[c].row = None /\ call[c].above = None
    BY DEF Bounds, CallsTyped, CallStates, HistoryKept
  <1> QED
    BY <1>1, <1>2 DEF TypeOK

\* Types, the order of the rows and the steps of calls are kept, whatever the foreign keys.
THEOREM TypesAlwaysHold == Spec => []TypeOK
  <1>1. Bounds => TypeOK
    BY TypesFollow
  <1> QED
    BY <1>1, BoundsHold, PTL

-----------------------------------------------------------------------------
(* Permissions tell places, where foreign keys are enforced.               *)

\* A permission tells the handle that is its last, and the permission above.
LEMMA PermissionsTell ==
    ASSUME NEW s \in ServerRows, NEW t \in ServerRows, s.delim = t.delim,
           NEW a \in ResourceRows \cup {None}, NEW b \in ResourceRows \cup {None},
           NEW h \in Handles, NEW k \in Handles,
           ValidHandle(h, s.delim), ValidHandle(k, s.delim),
           DerivePermission(s, a, h) = DerivePermission(t, b, k)
    PROVE  /\ h = k
           /\ a = None <=> b = None
           /\ a # None => a.permission = b.permission
  <1> DEFINE S == Delimiters \cup UNION {ToSet(x) : x \in Handles}
             d == s.delim
  <1>1. /\ h \in Seq(S) /\ k \in Seq(S) /\ d \in S
        /\ a # None => a.permission \in Seq(S)
        /\ b # None => b.permission \in Seq(S)
    BY ValuesAssumption DEF Permissions, ServerRows, ResourceRows
  <1>2. d \notin ToSet(h) /\ d \notin ToSet(k)
    BY DEF ValidHandle
  <1>3. DerivePermission(s, a, h) = IF a = None THEN h ELSE a.permission \o <<d>> \o h
    BY DEF DerivePermission
  <1>4. DerivePermission(t, b, k) = IF b = None THEN k ELSE b.permission \o <<d>> \o k
    BY DEF DerivePermission
  <1> HIDE DEF S, d
  <1>5. CASE a = None /\ b = None
    BY <1>3, <1>4, <1>5
  <1>6. CASE a # None /\ b = None
    BY <1>1, <1>2, <1>3, <1>4, <1>6, HasDelimiter
  <1>7. CASE a = None /\ b # None
    BY <1>1, <1>2, <1>3, <1>4, <1>7, HasDelimiter
  <1>8. CASE a # None /\ b # None
    <2> DEFINE p == a.permission
               q == b.permission
    <2>1. Joined(p, d, h) = Joined(q, d, k)
      BY <1>3, <1>4, <1>8 DEF Joined
    <2>2. p \in Seq(S) /\ q \in Seq(S) /\ h \in Seq(S) /\ k \in Seq(S) /\ d \in S
      BY <1>1, <1>8
    <2> HIDE DEF p, q
    <2>3. p = q /\ h = k
      BY <1>2, <2>1, <2>2, LastDelimiter
    <2> QED
      BY <1>8, <2>3 DEF p, q
  <1> QED
    BY <1>5, <1>6, <1>7, <1>8

\* The part of the tables that is below servers.
AboveOf(table, row) == IF table = "resources" THEN row.parent ELSE row.resource

\* Row i of resources or actions is where its row says.
Placed(table, i) ==
    LET row == db[table][i]
        above == AboveOf(table, row)
    IN  /\ db.servers[row.server] # None
        /\ above # None => db.resources[above] # None /\ db.resources[above].server = row.server
        /\ ValidHandle(row.handle, db.servers[row.server].delim)
        /\ row.permission = DerivePermission(db.servers[row.server],
              IF above = None THEN None ELSE db.resources[above], row.handle)

Apart(table, i, j) ==
    db[table][i].server = db[table][j].server => db[table][i].permission # db[table][j].permission

PlacesPart ==
    \A table \in {"resources", "actions"} :
        /\ \A i \in Present(table) : Placed(table, i)
        /\ \A i, j \in Present(table) : i # j => Apart(table, i, j)

AppsPart ==
    \A i \in Present("apps") :
        db.apps[i].branding # None => db.brandings[db.apps[i].branding] # None

\* The invariant, table by table.
LEMMA PlacesParts == PlacesInv <=> PlacesPart /\ AppsPart
  <1>1. PlacesInv => PlacesPart /\ AppsPart
    <2> SUFFICES ASSUME PlacesInv PROVE PlacesPart /\ AppsPart
      OBVIOUS
    <2>1. AppsPart
      BY DEF PlacesInv, Referenced, AppsPart, Present
    <2>2. ASSUME NEW i \in Present("resources") PROVE Placed("resources", i)
      BY <2>2 DEF PlacesInv, Referenced, HandlesValid, TellPlaces, Placed, AboveOf, Present
    <2>3. ASSUME NEW i \in Present("actions") PROVE Placed("actions", i)
      BY <2>3 DEF PlacesInv, Referenced, HandlesValid, TellPlaces, Placed, AboveOf, Present
    <2>4. ASSUME NEW table \in {"resources", "actions"}, NEW i \in Present(table), NEW j \in Present(table), i # j
          PROVE  Apart(table, i, j)
      BY <2>4 DEF PlacesInv, TellPlaces, Apart, Present
    <2> QED
      BY <2>1, <2>2, <2>3, <2>4 DEF PlacesPart
  <1>2. PlacesPart /\ AppsPart => PlacesInv
    <2> SUFFICES ASSUME PlacesPart, AppsPart PROVE PlacesInv
      OBVIOUS
    <2>1. \A i \in PresentIn(db, "resources") : Placed("resources", i)
      BY DEF PlacesPart, Present
    <2>2. \A i \in PresentIn(db, "actions") : Placed("actions", i)
      BY DEF PlacesPart, Present
    <2>3. Referenced(db)
      BY <2>1, <2>2 DEF Referenced, Placed, AboveOf, AppsPart, Present
    <2>4. HandlesValid
      BY <2>1, <2>2 DEF HandlesValid, Placed, Present
    <2>5. TellPlaces(db)
      <3>1. \A table \in {"resources", "actions"} : \A i \in PresentIn(db, table) :
               Placed(table, i) /\ \A j \in PresentIn(db, table) \ {i} : Apart(table, j, i)
        BY DEF PlacesPart, Present
      <3> QED
        BY <3>1 DEF TellPlaces, Placed, AboveOf, Apart
    <2> QED
      BY <2>3, <2>4, <2>5 DEF PlacesInv
  <1> QED
    BY <1>1, <1>2

\* A step that adds nothing to a place, and of whose rows, and of those they refer to,
\* nothing changes that their places depend on.
LEMMA NothingPlaced ==
    ASSUME PlacesPart,
           \A table \in {"resources", "actions"}, i \in Ids :
              db'[table][i] # None =>
                 /\ db'[table][i] = db[table][i]
                 /\ db'.servers[db[table][i].server] # None
                 /\ db'.servers[db[table][i].server].delim = db.servers[db[table][i].server].delim
                 /\ AboveOf(table, db[table][i]) # None =>
                       db'.resources[AboveOf(table, db[table][i])] = db.resources[AboveOf(table, db[table][i])]
    PROVE  PlacesPart'
  <1>1. ASSUME NEW table \in {"resources", "actions"}, NEW i \in Present(table)'
        PROVE  i \in Present(table) /\ db'[table][i] = db[table][i] /\ Placed(table, i)'
    <2>1. i \in Ids /\ db'[table][i] # None
      BY <1>1 DEF Present, PresentIn
    <2>2. i \in Present(table) /\ db'[table][i] = db[table][i]
      BY <2>1 DEF Present, PresentIn
    <2>3. Placed(table, i)
      BY <2>2 DEF PlacesPart
    <2> DEFINE row == db[table][i]
               above == AboveOf(table, row)
    <2>4. /\ db'.servers[row.server] # None
          /\ db'.servers[row.server].delim = db.servers[row.server].delim
          /\ above # None => db'.resources[above] = db.resources[above]
      BY <2>1
    <2>5. Placed(table, i)'
      <3>1. /\ above # None => db'.resources[above] # None /\ db'.resources[above].server = row.server
            /\ ValidHandle(row.handle, db'.servers[row.server].delim)
        BY <2>3, <2>4 DEF Placed
      <3>2. row.permission = DerivePermission(db'.servers[row.server],
               IF above = None THEN None ELSE db'.resources[above], row.handle)
        BY <2>3, <2>4 DEF Placed, DerivePermission
      <3>3. db'[table][i] = row /\ above = AboveOf(table, row)
        BY <2>2
      <3> HIDE DEF row, above
      <3> QED
        BY <2>4, <3>1, <3>2, <3>3 DEF Placed, AboveOf, ValidHandle
    <2> QED
      BY <2>2, <2>5
  <1>2. ASSUME NEW table \in {"resources", "actions"}, NEW i \in Present(table)', NEW j \in Present(table)',
               i # j
        PROVE  Apart(table, i, j)'
    <2>1. Apart(table, i, j)
      BY <1>1, <1>2 DEF PlacesPart
    <2> QED
      BY <1>1, <1>2, <2>1 DEF Apart
  <1> QED
    BY <1>1, <1>2 DEF PlacesPart

\* A resource, or an action, is put in its place.
LEMMA PlacedThere ==
    ASSUME Bounds, PlacesPart, NEW d \in Calls, Shape(d), NEW table \in {"resources", "actions"},
           NEW row \in Rows(table), Inserts(table, d, row),
           db.servers[row.server] # None,
           AboveOf(table, row) # None =>
              db.resources[AboveOf(table, row)] # None
              /\ db.resources[AboveOf(table, row)].server = row.server,
           ValidHandle(row.handle, db.servers[row.server].delim),
           row.permission = DerivePermission(db.servers[row.server],
              IF AboveOf(table, row) = None THEN None ELSE db.resources[AboveOf(table, row)], row.handle),
           \A i \in Present(table) :
              ~ /\ db[table][i].server = row.server
                /\ AboveOf(table, db[table][i]) = AboveOf(table, row)
                /\ db[table][i].handle = row.handle
    PROVE  PlacesPart'
  <1>1. /\ TablesTyped /\ d \in Ids /\ "servers" \in Tables /\ "resources" \in Tables /\ "actions" \in Tables
        /\ Rows("resources") = ResourceRows /\ Rows("actions") = ActionRows /\ Rows("servers") = ServerRows
    BY DEF Bounds, Ids, Tables, Rows
  <1>2. \A t \in Tables : db[t][d] = None
    BY Lasting DEF Bounds, RowsMade, Present, PresentIn, Ids
  <1>3. /\ \A t \in Tables, i \in Ids : t # table \/ i # d => db'[t][i] = db[t][i]
        /\ db'[table][d] = row
        /\ \A t \in Tables : t # table => Present(t)' = Present(t)
        /\ Present(table)' = Present(table) \cup {d}
    BY <1>1, Putting, ValuesAssumption DEF Inserts
  <1>4. \A t \in {"resources", "actions"} : \A i \in Present(t) :
           /\ i \in Ids /\ db[t][i] \in Rows(t) /\ db[t][i].server \in Ids /\ i # d
           /\ AboveOf(t, db[t][i]) \in Ids \cup {None}
           /\ db[t][i].handle \in Handles
    BY <1>1, <1>2, RowFacts DEF Present, PresentIn, ResourceRows, ActionRows, AboveOf
  <1>5. /\ row.server \in Ids /\ AboveOf(table, row) \in Ids \cup {None} /\ row.handle \in Handles
        /\ AboveOf(table, row) # d /\ None # d
    <2>1. row \in IF table = "resources" THEN ResourceRows ELSE ActionRows
      BY <1>1
    <2>2. row.server \in Ids /\ AboveOf(table, row) \in Ids \cup {None} /\ row.handle \in Handles
      BY <2>1 DEF ResourceRows, ActionRows, AboveOf
    <2>3. None # d
      BY <1>1, IdsAssumption
    <2>4. AboveOf(table, row) # d
      BY <1>1, <1>2, <2>3
    <2> QED
      BY <2>2, <2>3, <2>4
  <1>6. db'.servers = db.servers
    BY <1>1 DEF Inserts, Puts
  <1>7. ASSUME NEW t \in {"resources", "actions"}, NEW i \in Present(t)
        PROVE  db'[t][i] = db[t][i] /\ Placed(t, i)'
    <2>1. Placed(t, i) /\ i \in Ids /\ i # d /\ AboveOf(t, db[t][i]) \in Ids \cup {None}
      BY <1>4, <1>7 DEF PlacesPart
    <2>2. db'[t][i] = db[t][i]
      BY <1>1, <1>3, <2>1
    <2>3. AboveOf(t, db[t][i]) # None => db'.resources[AboveOf(t, db[t][i])] = db.resources[AboveOf(t, db[t][i])]
      BY <1>1, <1>2, <1>3, <2>1 DEF Placed
    <2> QED
      BY <1>6, <2>1, <2>2, <2>3 DEF Placed, AboveOf
  <1>8. Placed(table, d)'
    <2>1. AboveOf(table, row) # None =>
             db'.resources[AboveOf(table, row)] = db.resources[AboveOf(table, row)]
      BY <1>1, <1>3, <1>5
    <2> QED
      BY <1>3, <1>6, <2>1 DEF Placed, AboveOf
  <1>9. ASSUME NEW i \in Present(table), db[table][i].server = row.server,
               db[table][i].permission = row.permission
        PROVE  FALSE
    <2> DEFINE a == AboveOf(table, db[table][i])
               b == AboveOf(table, row)
               s == db.servers[row.server]
    <2>1. /\ Placed(table, i) /\ a \in Ids \cup {None} /\ b \in Ids \cup {None}
          /\ s \in ServerRows
          /\ db[table][i].handle \in Handles
      BY <1>1, <1>4, <1>5, <1>9, RowFacts DEF PlacesPart
    <2>2. /\ a # None => db.resources[a] \in ResourceRows /\ db.resources[a] # None
                         /\ db.resources[a].server = row.server
          /\ b # None => db.resources[b] \in ResourceRows /\ db.resources[b] # None
                         /\ db.resources[b].server = row.server
      BY <1>1, <1>5, <1>9, <2>1, RowFacts DEF Placed
    <2> DEFINE above(x) == IF x = None THEN None ELSE db.resources[x]
    <2>3. /\ ValidHandle(db[table][i].handle, s.delim) /\ ValidHandle(row.handle, s.delim)
          /\ DerivePermission(s, above(a), db[table][i].handle) = DerivePermission(s, above(b), row.handle)
      BY <1>9, <2>1 DEF Placed
    <2>4. /\ above(a) \in ResourceRows \cup {None} /\ above(b) \in ResourceRows \cup {None}
          /\ above(a) = None <=> a = None
          /\ above(b) = None <=> b = None
      BY <2>2
    <2> HIDE DEF a, b, s, above
    <2>5. /\ db[table][i].handle = row.handle
          /\ above(a) = None <=> above(b) = None
          /\ above(a) # None => above(a).permission = above(b).permission
      BY <1>5, <2>1, <2>3, <2>4, PermissionsTell
    <2>6. a = b
      <3>1. CASE a = None
        BY <2>4, <2>5, <3>1
      <3>2. CASE a # None
        <4>1. b # None /\ db.resources[a].permission = db.resources[b].permission
          BY <2>4, <2>5, <3>2 DEF above
        <4>2. a \in Present("resources") /\ b \in Present("resources")
          BY <2>1, <2>2, <3>2, <4>1 DEF Present, PresentIn
        <4>3. a # b => Apart("resources", a, b)
          BY <4>2 DEF PlacesPart
        <4> QED
          BY <2>2, <3>2, <4>1, <4>3 DEF Apart
      <3> QED
        BY <3>1, <3>2
    <2> QED
      BY <1>9, <2>5, <2>6 DEF a, b
  <1>10. ASSUME NEW t \in {"resources", "actions"}, NEW i \in Present(t)', NEW j \in Present(t)', i # j
         PROVE  Apart(t, i, j)'
    <2>1. CASE i \in Present(t) /\ j \in Present(t)
      <3>1. Apart(t, i, j)
        BY <1>10, <2>1 DEF PlacesPart
      <3> QED
        BY <1>7, <2>1, <3>1 DEF Apart
    <2>2. CASE t = table /\ i \in Present(t) /\ j = d
      BY <1>3, <1>7, <1>9, <2>2 DEF Apart
    <2>3. CASE t = table /\ i = d /\ j \in Present(t)
      BY <1>3, <1>7, <1>9, <2>3 DEF Apart
    <2> QED
      BY <1>1, <1>3, <1>10, <2>1, <2>2, <2>3
  <1>11. ASSUME NEW t \in {"resources", "actions"}, NEW i \in Present(t)' PROVE Placed(t, i)'
    <2>1. i \in Present(t) \/ (t = table /\ i = d)
      BY <1>1, <1>3, <1>11
    <2> QED
      BY <1>7, <1>8, <2>1
  <1> QED
    BY <1>10, <1>11 DEF PlacesPart


\* A step that adds no resource and no action, and removes nothing that one refers to.
LEMMA PlacesLeft ==
    ASSUME Bounds, PlacesPart, NEW d \in Calls, Shape(d),
           \A table \in {"resources", "actions"}, i \in Ids :
              db'[table][i] # None =>
                 /\ db[table][i] # None
                 /\ db.servers[db[table][i].server] # None => db'.servers[db[table][i].server] # None
                 /\ LET above == AboveOf(table, db[table][i])
                    IN  above # None /\ db.resources[above] # None => db'.resources[above] # None
    PROVE  PlacesPart'
  <1>1. /\ TablesTyped /\ RowsMade
        /\ \A table \in {"servers", "resources", "actions"} : table \in Tables
    BY DEF Bounds, Tables
  <1>2. ASSUME NEW table \in {"resources", "actions"}, NEW i \in Ids, db'[table][i] # None
        PROVE  /\ db'[table][i] = db[table][i]
               /\ db'.servers[db[table][i].server] # None
               /\ db'.servers[db[table][i].server].delim = db.servers[db[table][i].server].delim
               /\ AboveOf(table, db[table][i]) # None =>
                     db'.resources[AboveOf(table, db[table][i])] = db.resources[AboveOf(table, db[table][i])]
    <2> DEFINE row == db[table][i]
               above == AboveOf(table, row)
    <2>1. i \in Present(table) /\ row # None
      BY <1>2 DEF Present, PresentIn
    <2>2. Placed(table, i)
      BY <2>1 DEF PlacesPart
    <2>3. row.server \in Ids /\ above \in Ids \cup {None}
      BY <1>1, <2>1, RowFacts DEF ResourceRows, ActionRows, AboveOf
    <2>4. db'[table][i] = row
      <3>1. Made(i)
        BY <1>1, <2>1 DEF RowsMade
      <3> QED
        BY <1>2, <3>1, RowsKept
    <2>5. db'.servers[row.server] # None /\ db'.servers[row.server].delim = db.servers[row.server].delim
      <3>1. db'.servers[row.server] # None /\ Made(row.server)
        BY <1>1, <1>2, <2>2, <2>3 DEF Placed, RowsMade, Present, PresentIn
      <3> QED
        BY <2>3, <3>1, RowsKept
    <2>6. ASSUME above # None PROVE db'.resources[above] = db.resources[above]
      <3>1. db'.resources[above] # None /\ Made(above) /\ above \in Ids
        BY <1>1, <1>2, <2>2, <2>3, <2>6 DEF Placed, RowsMade, Present, PresentIn
      <3> QED
        BY <3>1, RowsKept
    <2> QED
      BY <2>4, <2>5, <2>6
  <1> QED
    BY <1>2, NothingPlaced

\* What is created is put where the call has found a place.
LEMMA PlacesFilled ==
    ASSUME Bounds, PlacesPart, ForeignKeys = {TRUE}, NEW d \in Calls, Shape(d),
           ResourceMade(d) \/ ActionMade(d)
    PROVE  PlacesPart'
  <1> DEFINE req == call[d].req
             table == IF Op(d) = "createResource" THEN "resources" ELSE "actions"
             permission == DerivePermission(call[d].row, call[d].above, req.handle)
             row == IF Op(d) = "createResource"
                    THEN [server |-> req.server, parent |-> req.above, handle |-> req.handle,
                          permission |-> permission]
                    ELSE [server |-> req.server, resource |-> req.above, handle |-> req.handle,
                          permission |-> permission]
  <1>1. /\ At(d, "write") /\ ~At(d, "idle") /\ Asks(d, {"createResource", "createAction"})
        /\ Op(d) \in {"createResource", "createAction"}
        /\ IF Op(d) = "createResource" THEN ResourceHandleFree(d) ELSE ActionHandleFree(d)
        /\ PlaceThere(d) /\ Inserts(table, d, row)
    BY DEF ResourceMade, ActionMade, Asks, Op, At
  <1>2. row \in Rows(table)
    BY <1>1, RowsWritten DEF Rows, Asks, Op
  <1>3. row.server = req.server /\ AboveOf(table, row) = req.above /\ row.handle = req.handle
        /\ row.permission = permission
    BY <1>1 DEF AboveOf
  <1>4. /\ DelimiterKept(d, req.server) /\ ValidHandle(req.handle, call[d].row.delim)
        /\ IF req.above = None THEN call[d].above = None
           ELSE /\ call[d].above \in ResourceRows /\ call[d].above.server = req.server
                /\ db.resources[req.above] # None => db.resources[req.above] = call[d].above
    BY <1>1, CallFacts DEF PlaceCourse, At
  <1>5. /\ db.servers[req.server] # None /\ call[d].row.delim = db.servers[req.server].delim
        /\ req.above # None =>
              db.resources[req.above] # None /\ db.resources[req.above] = call[d].above
    BY <1>1, <1>4 DEF PlaceThere, DelimiterKept
  <1>6. call[d].above # None \/ req.above = None
    BY <1>4, <1>5
  <1>7. permission = DerivePermission(db.servers[req.server],
           IF req.above = None THEN None ELSE db.resources[req.above], req.handle)
    BY <1>4, <1>5, <1>6 DEF DerivePermission
  <1>8. \A i \in Present(table) :
           ~ /\ db[table][i].server = req.server
             /\ AboveOf(table, db[table][i]) = req.above
             /\ db[table][i].handle = req.handle
    BY <1>1 DEF ResourceHandleFree, ActionHandleFree, AboveOf
  <1>9. table \in {"resources", "actions"}
    OBVIOUS
  <1> HIDE DEF req, table, row, permission
  <1> QED
    BY <1>1, <1>2, <1>3, <1>4, <1>5, <1>7, <1>8, <1>9, PlacedThere

\* Every step leaves resources and actions in their places.
LEMMA PlacesStep ==
    ASSUME Bounds, PlacesInv, ForeignKeys = {TRUE}, NEW d \in Calls, Shape(d)
    PROVE  PlacesPart'
  <1>1. PlacesPart
    BY PlacesParts
  <1>2. /\ TablesTyped /\ d \in Ids /\ Changed(d)
        /\ \A table \in {"servers", "resources", "actions"} : table \in Tables
    BY DEF Bounds, Ids, Shape, Tables
  <1>3. CASE \A table \in {"servers", "resources", "actions"} : db'[table] = db[table]
    BY <1>1, <1>3, PlacesLeft
  <1>4. CASE ServerWritten(d)
    <2>1. PICK i \in Ids, row \in ServerRows : Puts("servers", i, row)
      <3>1. Asks(d, {"createServer", "updateServer"}) /\ At(d, "write")
        BY <1>4 DEF ServerWritten
      <3>2. Named(d) \in Ids /\ ServerRow(d, Named(d)) \in ServerRows
            /\ (Asks(d, {"createServer"}) => Named(d) = d)
        BY <3>1, RowsWritten
      <3> QED
        BY <1>4, <3>1, <3>2 DEF ServerWritten, Inserts, Updates, Asks, Op
    <2>2. row # None /\ row \in Rows("servers")
      BY <1>2, ValuesAssumption DEF Rows
    <2>3. /\ \A j \in Ids : db.servers[j] # None => db'.servers[j] # None
          /\ \A t \in {"resources", "actions"} : db'[t] = db[t]
      BY <1>2, <2>1, <2>2, Putting DEF Puts
    <2>4. \A t \in {"resources", "actions"}, k \in Ids :
             db[t][k] # None => db[t][k].server \in Ids
      BY <1>2, RowFacts DEF ResourceRows, ActionRows
    <2> QED
      BY <1>1, <2>3, <2>4, PlacesLeft
  <1>5. CASE ResourceMade(d) \/ ActionMade(d)
    BY <1>1, <1>5, PlacesFilled
  <1>6. CASE \E table \in Tables \ {"apps"}, i \in Ids : Removes(d, table, i)
    <2>1. PICK table \in Tables \ {"apps"}, i \in Ids : Removes(d, table, i)
      BY <1>6
    <2>2. Puts(table, i, None) /\ ~ReferringTo(table, i)
      BY <2>1 DEF Removes, Drops
    <2>3. \A t \in Tables, j \in Ids : t # table \/ j # i => db'[t][j] = db[t][j]
      BY <1>2, <2>2, Putting
    <2>4. db'[table][i] = None
      BY <1>2, <2>2, Putting
    <2>5. ASSUME NEW t \in {"resources", "actions"}, NEW j \in Ids, db'[t][j] # None
          PROVE  /\ db[t][j] # None
                 /\ db.servers[db[t][j].server] # None => db'.servers[db[t][j].server] # None
                 /\ LET above == AboveOf(t, db[t][j])
                    IN  above # None /\ db.resources[above] # None => db'.resources[above] # None
      <3>1. t # table \/ j # i
        BY <2>4, <2>5
      <3>2. db[t][j] # None /\ j \in Present(t)
        BY <1>2, <2>3, <2>5, <3>1 DEF Present, PresentIn
      <3>3. db[t][j].server \in Ids /\ AboveOf(t, db[t][j]) \in Ids \cup {None}
        BY <1>2, <3>2, RowFacts DEF ResourceRows, ActionRows, AboveOf
      <3>4. table = "servers" => db[t][j].server # i
        BY <2>2, <3>2 DEF ReferringTo
      <3>5. table = "resources" => AboveOf(t, db[t][j]) # i
        BY <2>2, <3>2 DEF ReferringTo, AboveOf
      <3> QED
        BY <1>2, <2>3, <3>2, <3>3, <3>4, <3>5
    <2> QED
      BY <1>1, <2>5, PlacesLeft
  <1>7. Same => \A table \in {"servers", "resources", "actions"} : db'[table] = db[table]
    BY <1>2 DEF Same
  <1>8. IdpWritten(d) \/ SenderWritten(d) \/ BrandingWritten(d) \/ AppWritten(d)
        => \A table \in {"servers", "resources", "actions"} : db'[table] = db[table]
    BY DEF IdpWritten, SenderWritten, BrandingWritten, AppWritten, Inserts, Updates, Puts, Tables
  <1> QED
    BY <1>2, <1>3, <1>4, <1>5, <1>6, <1>7, <1>8 DEF Changed

\* No step leaves an application with a branding that is gone.
LEMMA AppsStep ==
    ASSUME Bounds, PlacesInv, ForeignKeys = {TRUE}, NEW d \in Calls, Shape(d)
    PROVE  AppsPart'
  <1>1. /\ AppsPart /\ TablesTyped /\ d \in Ids /\ Changed(d)
        /\ "brandings" \in Tables /\ "apps" \in Tables
        /\ \A i \in Ids : db.apps[i] # None => db.apps[i].branding \in Ids \cup {None}
    BY PlacesParts, RowFacts DEF Bounds, Ids, Shape, Tables, AppRows
  <1>2. CASE db'.apps = db.apps /\ \A i \in Ids : db.brandings[i] # None => db'.brandings[i] # None
    BY <1>1, <1>2 DEF AppsPart, Present, PresentIn
  <1>3. CASE AppWritten(d)
    <2> DEFINE i == call[d].req.app
               b == call[d].req.branding
    <2>1. /\ At(d, "write") /\ Asks(d, {"brandApp"})
          /\ b = None \/ db.brandings[b] # None
          /\ Puts("apps", i, [branding |-> b])
      BY <1>3 DEF AppWritten, Updates
    <2>2. i \in Ids /\ [branding |-> b] \in AppRows
      BY <2>1, RowsWritten
    <2>3. /\ db'.apps[i] = [branding |-> b]
          /\ \A j \in Ids : j # i => db'.apps[j] = db.apps[j]
          /\ db'.brandings = db.brandings
      BY <1>1, <2>1, <2>2 DEF Puts, TablesTyped
    <2> QED
      BY <1>1, <2>1, <2>3 DEF AppsPart, Present, PresentIn
  <1>4. CASE BrandingWritten(d)
    <2>1. PICK i \in Ids, row \in BrandingRows : Puts("brandings", i, row)
      <3>1. At(d, "write") /\ Asks(d, {"createBranding", "updateBranding"})
        BY <1>4 DEF BrandingWritten
      <3>2. /\ [content |-> d] \in BrandingRows
            /\ Asks(d, {"updateBranding"}) => call[d].req.branding \in Ids
        BY <3>1, RowsWritten
      <3> QED
        BY <1>1, <1>4, <3>1, <3>2 DEF BrandingWritten, Inserts, Updates, Asks, Op
    <2>2. row # None /\ row \in Rows("brandings")
      BY <1>1, ValuesAssumption DEF Rows
    <2>3. db'.apps = db.apps /\ \A j \in Ids : db.brandings[j] # None => db'.brandings[j] # None
      BY <1>1, <2>1, <2>2, Putting DEF Puts
    <2> QED
      BY <1>2, <2>3
  <1>5. CASE \E table \in Tables \ {"apps"}, i \in Ids : Removes(d, table, i)
    <2>1. PICK table \in Tables \ {"apps"}, i \in Ids : Removes(d, table, i)
      BY <1>5
    <2>2. Puts(table, i, None) /\ ~ReferringTo(table, i)
      BY <2>1 DEF Removes, Drops
    <2>3. \A t \in Tables, j \in Ids : t # table \/ j # i => db'[t][j] = db[t][j]
      BY <1>1, <2>2, Putting
    <2>4. db'.apps = db.apps
      BY <1>1, <2>2 DEF Puts
    <2>5. ASSUME NEW j \in Present("apps"), db.apps[j].branding # None
          PROVE  db'.brandings[db.apps[j].branding] # None
      <3>1. table = "brandings" => db.apps[j].branding # i
        BY <2>2 DEF ReferringTo
      <3>2. db.apps[j].branding \in Ids /\ db.brandings[db.apps[j].branding] # None
        BY <1>1, <2>5 DEF AppsPart, Present, PresentIn
      <3> QED
        BY <1>1, <2>3, <3>1, <3>2
    <2> QED
      BY <2>4, <2>5 DEF AppsPart, Present, PresentIn
  <1>6. Same \/ ServerWritten(d) \/ ResourceMade(d) \/ ActionMade(d) \/ IdpWritten(d) \/ SenderWritten(d)
        => db'.apps = db.apps /\ db'.brandings = db.brandings
    BY DEF Same, ServerWritten, ResourceMade, ActionMade, IdpWritten, SenderWritten,
           Inserts, Updates, Puts, Tables
  <1> QED
    BY <1>1, <1>2, <1>3, <1>4, <1>5, <1>6 DEF Changed

\* Places are kept by every step.
LEMMA PlacesNext ==
    ASSUME ForeignKeys = {TRUE}, Bounds, PlacesInv, [Next]_vars
    PROVE  PlacesInv'
  <1>1. ASSUME db' = db PROVE PlacesInv'
    BY <1>1 DEF PlacesInv, Referenced, HandlesValid, TellPlaces, Present, PresentIn
  <1>2. ASSUME NEW c \in Calls, Serves(c) PROVE PlacesInv'
    <2>1. PlacesPart' /\ AppsPart'
      BY <1>2, Shapes, PlacesStep, AppsStep
    <2> QED
      BY <2>1, PlacesParts, PTL
  <1> QED
    BY <1>1, <1>2 DEF Next, Begin, Serves, vars

\* The initial tables have it.
LEMMA PlacesAtFirst ==
    ASSUME Init
    PROVE  PlacesInv
  BY TablesAssumption DEF Init, PlacesInv, HandlesValid, Present

\* Where foreign keys are enforced, references hold, handles are valid and permissions tell
\* places, at any time.
LEMMA PlacesHold ==
    ASSUME ForeignKeys = {TRUE}
    PROVE  Spec => []PlacesInv
  <1>1. Init => PlacesInv
    BY PlacesAtFirst
  <1>2. Bounds /\ PlacesInv /\ [Next]_vars => PlacesInv'
    BY PlacesNext
  <1> QED
    BY <1>1, <1>2, BoundsHold, PTL DEF Spec

\* The permission of a resource or an action tells its place, and no two have the same.
THEOREM PermissionsAlwaysTellPlaces ==
    ASSUME ForeignKeys = {TRUE}
    PROVE  Spec => []PermissionsTellPlaces
  <1>1. PlacesInv => PermissionsTellPlaces
    BY DEF PlacesInv, PermissionsTellPlaces
  <1> QED
    BY <1>1, PlacesHold, PTL

\* What a resource, an action or an application refers to is there.
THEOREM ReferencesAlwaysHold ==
    ASSUME ForeignKeys = {TRUE}
    PROVE  Spec => []ReferencesHold
  <1>1. Bounds /\ PlacesInv => ReferencesHold
    BY TypesFollow DEF PlacesInv, ReferencesHold
  <1> QED
    BY <1>1, BoundsHold, PlacesHold, PTL

-----------------------------------------------------------------------------
(* Names.                                                                  *)

\* A call writes a row of a table with the name that it asks for.
NameWritten(d, table) ==
    LET i == Named(d)
        old == db[table][i]
        new == db'[table][i]
    IN  /\ At(d, "write") /\ Asks(d, NamingOps(table)) /\ i \in Ids
        /\ IF Asks(d, RenameOps) THEN old # None ELSE i = d
        /\ new # None /\ new.name = call[d].req.name
        /\ new.named = IF old # None /\ old.name = call[d].req.name THEN old.named ELSE d
        /\ \A j \in Ids : j # i => db'[table][j] = db[table][j]

\* A table with names changes when a name is written, or a row is removed.
LEMMA NamesChange ==
    ASSUME Bounds, NEW d \in Calls, Shape(d), NEW table \in NamedTables
    PROVE  \/ NameWritten(d, table)
           \/ \A i \in Ids : db'[table][i] # None => db'[table][i] = db[table][i]
  <1> DEFINE kept == \A i \in Ids : db'[table][i] # None => db'[table][i] = db[table][i]
  <1>1. /\ TablesTyped /\ d \in Ids /\ table \in Tables /\ Changed(d) /\ ~At(d, "idle")
        /\ db[table] \in [Ids -> Rows(table) \cup {None}]
    BY DEF Bounds, Ids, NamedTables, Tables, Shape, Running, TablesTyped
  <1>2. db'[table] = db[table] => kept
    OBVIOUS
  <1>3. ASSUME NEW t \in Tables, NEW i \in Ids, Removes(d, t, i) PROVE kept
    BY <1>1, <1>3 DEF Removes, Drops, Puts
  <1>4. ASSUME NEW i \in Ids, NEW row \in Rows(table), Puts(table, i, row)
        PROVE  /\ db'[table][i] = row /\ row # None
               /\ \A j \in Ids : j # i => db'[table][j] = db[table][j]
    BY <1>1, <1>4, ValuesAssumption DEF Puts
  <1>5. CASE ServerWritten(d)
    <2>1. /\ At(d, "write") /\ Asks(d, {"createServer", "updateServer"})
          /\ Asks(d, RenameOps) <=> Op(d) = "updateServer"
          /\ Op(d) # "updateServer" => Op(d) = "createServer" /\ Asks(d, {"createServer"})
      BY <1>5 DEF ServerWritten, Asks, Op, RenameOps
    <2>2. Named(d) \in Ids /\ ServerRow(d, Named(d)) \in ServerRows
          /\ (Op(d) # "updateServer" => Named(d) = d)
      BY <2>1, RowsWritten
    <2>3. CASE table = "servers"
      <3>1. Puts(table, Named(d), ServerRow(d, Named(d))) /\ Rows(table) = ServerRows
            /\ (Op(d) = "updateServer" => db[table][Named(d)] # None)
        BY <1>5, <2>1, <2>2, <2>3 DEF ServerWritten, Inserts, Updates, Rows
      <3>2. ServerRow(d, Named(d)).name = call[d].req.name
            /\ ServerRow(d, Named(d)).named =
                  IF db[table][Named(d)] # None /\ db[table][Named(d)].name = call[d].req.name
                  THEN db[table][Named(d)].named ELSE d
        BY <2>3 DEF ServerRow
      <3>3. NamingOps(table) = {"createServer", "updateServer"}
        BY <2>3 DEF NamingOps
      <3> QED
        BY <1>4, <2>1, <2>2, <3>1, <3>2, <3>3 DEF NameWritten
    <2>4. CASE table # "servers"
      BY <1>1, <1>2, <1>5, <2>4 DEF ServerWritten, Inserts, Updates, Puts
    <2> QED
      BY <2>3, <2>4
  <1>6. CASE IdpWritten(d)
    <2>1. /\ At(d, "write") /\ Asks(d, {"createIdp", "updateIdp"})
          /\ Asks(d, RenameOps) <=> Op(d) = "updateIdp"
          /\ Op(d) # "updateIdp" => Op(d) = "createIdp" /\ Asks(d, {"createIdp", "createSender"})
      BY <1>6 DEF IdpWritten, Asks, Op, RenameOps
    <2>2. Named(d) \in Ids /\ IdpRow(d, Named(d)) \in IdpRows
          /\ (Op(d) # "updateIdp" => Named(d) = d)
      BY <2>1, RowsWritten
    <2>3. CASE table = "idps"
      <3>1. Puts(table, Named(d), IdpRow(d, Named(d))) /\ Rows(table) = IdpRows
            /\ (Op(d) = "updateIdp" => db[table][Named(d)] # None)
        BY <1>6, <2>1, <2>2, <2>3 DEF IdpWritten, Inserts, Updates, Rows
      <3>2. IdpRow(d, Named(d)).name = call[d].req.name
            /\ IdpRow(d, Named(d)).named =
                  IF db[table][Named(d)] # None /\ db[table][Named(d)].name = call[d].req.name
                  THEN db[table][Named(d)].named ELSE d
        BY <2>3 DEF IdpRow, NamedBy
      <3>3. NamingOps(table) = {"createIdp", "updateIdp"}
        BY <2>3 DEF NamingOps
      <3> QED
        BY <1>4, <2>1, <2>2, <3>1, <3>2, <3>3 DEF NameWritten
    <2>4. CASE table # "idps"
      BY <1>1, <1>2, <1>6, <2>4 DEF IdpWritten, Inserts, Updates, Puts
    <2> QED
      BY <2>3, <2>4
  <1>7. CASE SenderWritten(d)
    <2>1. /\ At(d, "write") /\ Asks(d, {"createSender", "updateSender"})
          /\ Asks(d, RenameOps) <=> Op(d) = "updateSender"
          /\ Op(d) # "updateSender" => Op(d) = "createSender" /\ Asks(d, {"createIdp", "createSender"})
      BY <1>7 DEF SenderWritten, Asks, Op, RenameOps
    <2>2. Named(d) \in Ids /\ SenderRow(d, Named(d)) \in SenderRows
          /\ (Op(d) # "updateSender" => Named(d) = d)
      BY <2>1, RowsWritten
    <2>3. CASE table = "senders"
      <3>1. Puts(table, Named(d), SenderRow(d, Named(d))) /\ Rows(table) = SenderRows
            /\ (Op(d) = "updateSender" => db[table][Named(d)] # None)
        BY <1>7, <2>1, <2>2, <2>3 DEF SenderWritten, Inserts, Updates, Rows
      <3>2. SenderRow(d, Named(d)).name = call[d].req.name
            /\ SenderRow(d, Named(d)).named =
                  IF db[table][Named(d)] # None /\ db[table][Named(d)].name = call[d].req.name
                  THEN db[table][Named(d)].named ELSE d
        BY <2>3 DEF SenderRow, NamedBy
      <3>3. NamingOps(table) = {"createSender", "updateSender"}
        BY <2>3 DEF NamingOps
      <3> QED
        BY <1>4, <2>1, <2>2, <3>1, <3>2, <3>3 DEF NameWritten
    <2>4. CASE table # "senders"
      BY <1>1, <1>2, <1>7, <2>4 DEF SenderWritten, Inserts, Updates, Puts
    <2> QED
      BY <2>3, <2>4
  <1>8. Same \/ ResourceMade(d) \/ ActionMade(d) \/ BrandingWritten(d) \/ AppWritten(d)
        => db'[table] = db[table]
    BY <1>1 DEF Same, ResourceMade, ActionMade, BrandingWritten, AppWritten, Inserts, Updates, Puts,
                NamedTables
  <1> QED
    BY <1>1, <1>2, <1>3, <1>5, <1>6, <1>7, <1>8 DEF Changed

\* What is known of calls that meet stays known.
LEMMA StillMet ==
    ASSUME Bounds, NEW d \in Calls, Shape(d), NEW c \in Calls
    PROVE  /\ Contended(c) => Contended(c)'
           /\ Named(c)' = Named(c)
           /\ \A table : Asks(c, NamingOps(table)) <=> Asks(c, NamingOps(table))'
           /\ Asks(c, RenameOps) <=> Asks(c, RenameOps)'
  <1>1. /\ \A e \in Calls : call'[e].req = call[e].req
        /\ \A e, f \in Calls : Overlap(e, f) <=> Overlap(e, f)'
        /\ \A e \in Calls : \A ops : Asks(e, ops) <=> Asks(e, ops)'
    BY Lasting
  <1>2. \A e \in Calls : Target(e)' = Target(e)
    BY <1>1 DEF Target
  <1> QED
    BY <1>1, <1>2 DEF Contended, Named

\* The calls that named the rows still ask for their names.
LEMMA NamesAskedStep ==
    ASSUME Bounds, NamesInv, NEW d \in Calls, Shape(d)
    PROVE  NamesAsked'
  <1> SUFFICES ASSUME NEW table \in NamedTables, NEW i \in Present(table)', NEW c \in Calls,
                      db'[table][i].named = c
               PROVE  Asks(c, NamingOps(table))' /\ call'[c].req.name = db'[table][i].name
    BY DEF NamesAsked
  <1>1. i \in Ids /\ db'[table][i] # None
    BY DEF Present, PresentIn
  <1>2. /\ call'[c].req = call[c].req
        /\ Asks(c, NamingOps(table)) => Asks(c, NamingOps(table))'
    BY Lasting
  <1>3. ASSUME db[table][i] # None, db[table][i].named = c, db[table][i].name = db'[table][i].name
        PROVE  Asks(c, NamingOps(table)) /\ call[c].req.name = db'[table][i].name
    <2>1. i \in Present(table)
      BY <1>1, <1>3 DEF Present, PresentIn
    <2> QED
      BY <1>3, <2>1 DEF NamesInv, NamesAsked
  <1>4. CASE db'[table][i] = db[table][i]
    BY <1>1, <1>2, <1>3, <1>4
  <1>5. CASE NameWritten(d, table) /\ i = Named(d)
    BY <1>2, <1>3, <1>5 DEF NameWritten
  <1> QED
    BY <1>1, <1>4, <1>5, NamesChange DEF NameWritten

\* What a call knows of its name, after a step of another.
LEMMA OthersNames ==
    ASSUME Bounds, NamesInv, NEW d \in Calls, Shape(d), NEW c \in Calls \ {d},
           NEW table \in NamedTables
    PROVE  NameCourse(c, table)'
  <1>1. CASE ~Running(c) \/ ~Asks(c, NamingOps(table))
    <2>1. /\ call'[c] = call[c]
          /\ Asks(c, NamingOps(table)) <=> Asks(c, NamingOps(table))'
      BY Lasting
    <2>2. \A s \in {"ident", "write", "ou", "name", "byName"} : s \notin Answers /\ s # "idle"
      BY DEF Answers
    <2> QED
      BY <1>1, <2>1, <2>2 DEF NameCourse, Running, At, Ended
  <1>2. CASE Running(c) /\ Asks(c, NamingOps(table))
    <2>1. /\ call'[c] = call[c] /\ Overlap(c, d) /\ Overlap(c, d)'
          /\ \A e \in Calls : Overlap(c, e) <=> Overlap(c, e)'
          /\ ~Made(d)
      BY <1>2, Lasting
    <2>2. /\ Contended(c) => Contended(c)'
          /\ Named(c)' = Named(c)
          /\ Asks(c, NamingOps(table))'
          /\ Asks(c, RenameOps) <=> Asks(c, RenameOps)'
      BY <1>2, StillMet
    <2>3. ASSUME NameTaken(c, table) PROVE NameTaken(c, table)'
      <3> SUFFICES ASSUME NEW i \in Present(table)', i # Named(c),
                          db'[table][i].name = call[c].req.name
                   PROVE  db'[table][i].named \in Calls /\ Overlap(c, db'[table][i].named)
        BY <2>1, <2>2 DEF NameTaken
      <3>1. i \in Ids /\ db'[table][i] # None
        BY DEF Present, PresentIn
      <3>2. db[table][i] # None /\ db[table][i].name = call[c].req.name
            => db[table][i].named \in Calls /\ Overlap(c, db[table][i].named)
        BY <2>3, <3>1 DEF NameTaken, Present, PresentIn
      <3>3. CASE db'[table][i] = db[table][i]
        BY <3>1, <3>2, <3>3
      <3>4. CASE NameWritten(d, table) /\ i = Named(d)
        BY <2>1, <3>2, <3>4 DEF NameWritten
      <3> QED
        BY <3>1, <3>3, <3>4, NamesChange DEF NameWritten
    <2>4. ASSUME NameKept(c, table) PROVE NameKept(c, table)'
      <3> DEFINE i == Named(c)
                 new == db'[table][i]
      <3>1. /\ Asks(c, RenameOps)' /\ call'[c].row.name = call'[c].req.name /\ Made(i)'
            /\ i # d /\ i \in Ids
        <4>1. /\ Asks(c, RenameOps) /\ call[c].row.name = call[c].req.name /\ Made(i)
          BY <2>4 DEF NameKept
        <4>2. i \in Ids
          BY <4>1, CallFacts, RequestsAssumption DEF Asks, RenameOps, Named, Target, RegistryOps
        <4>3. \A j : Made(j) => Made(j)'
          BY Lasting
        <4> QED
          BY <2>1, <2>2, <4>1, <4>2, <4>3 DEF Made
      <3>2. new = None \/ new.name = call[c].req.name \/ Contended(c)'
        <4>1. db[table][i] = None \/ db[table][i].name = call[c].req.name \/ Contended(c)
          BY <2>4 DEF NameKept
        <4>2. CASE \A j \in Ids : db'[table][j] # None => db'[table][j] = db[table][j]
          BY <2>2, <3>1, <4>1, <4>2
        <4>3. CASE NameWritten(d, table) /\ i # Named(d)
          BY <2>2, <3>1, <4>1, <4>3 DEF NameWritten
        <4>4. CASE NameWritten(d, table) /\ i = Named(d)
          <5>1. new.name = call[d].req.name /\ Asks(d, RenameOps) /\ Asks(d, NamingOps(table))
            BY <3>1, <4>4 DEF NameWritten
          <5>2. ASSUME call[d].req.name # call[c].req.name PROVE Contended(c)
            <6>1. Target(d) = Target(c)
              BY <3>1, <2>2, <4>4, <5>1 DEF Named
            <6>2. call[d].req.op = call[c].req.op
              BY <1>2, <2>2, <3>1, <5>1 DEF Asks, RenameOps, NamingOps, NamedTables
            <6> QED
              BY <2>1, <2>2, <3>1, <5>2, <6>1, <6>2 DEF Contended
          <5> QED
            BY <2>2, <5>1, <5>2
        <4> QED
          BY <4>2, <4>3, <4>4, NamesChange
      <3> QED
        BY <2>1, <2>2, <3>1, <3>2 DEF NameKept
    <2>5. NameCourse(c, table)
      BY DEF NamesInv
    <2> QED
      BY <1>2, <2>1, <2>2, <2>3, <2>4, <2>5 DEF NameCourse
  <1> QED
    BY <1>1, <1>2

\* What a call knows of its name, after a step of its own.
LEMMA OwnNames ==
    ASSUME Bounds, NamesInv, NEW d \in Calls, Serves(d), Shape(d), NEW table \in NamedTables
    PROVE  NameCourse(d, table)'
  <1> DEFINE k == call[d]
             n == call'[d]
  <1>1. /\ n.req = k.req /\ ~At(d, "idle") /\ table \in Tables
        /\ \A i : Made(i) => Made(i)'
        /\ \A e, f \in Calls : Overlap(e, f) <=> Overlap(e, f)'
        /\ NameCourse(d, table)
        /\ RowsMade
    BY Lasting DEF Shape, Running, NamesInv, NamedTables, Tables, Bounds
  <1>2. /\ Contended(d) => Contended(d)'
        /\ Named(d)' = Named(d)
        /\ Asks(d, NamingOps(table)) <=> Asks(d, NamingOps(table))'
        /\ Asks(d, RenameOps) <=> Asks(d, RenameOps)'
    BY StillMet
  <1>3. ASSUME n.pc \notin {"ident", "write", "ou", "name", "byName"} PROVE NameCourse(d, table)'
    BY <1>3 DEF NameCourse
  <1>4. ASSUME ~Asks(d, NamingOps(table)) PROVE NameCourse(d, table)'
    BY <1>2, <1>4 DEF NameCourse
  <1>5. Same => db'[table] = db[table] /\ Present(table)' = Present(table)
    BY <1>1 DEF Same, Present, PresentIn
  <1>6. Same /\ NameTaken(d, table) => NameTaken(d, table)'
    <2> SUFFICES ASSUME Same, NameTaken(d, table),
                        NEW i \in Present(table)', i # Named(d), db'[table][i].name = k.req.name
                 PROVE  db'[table][i].named \in Calls /\ Overlap(d, db'[table][i].named)
      BY <1>1, <1>2 DEF NameTaken
    <2> QED
      BY <1>5 DEF NameTaken
  <1>7. Same /\ NameKept(d, table) /\ n.row = k.row => NameKept(d, table)'
    BY <1>1, <1>2, <1>5 DEF NameKept
  <1>8. NameFree(d) /\ table = "servers" => NameTaken(d, table)
    BY DEF NameFree, NameTaken
  <1>9. Unnamed(d, table) => NameTaken(d, table)
    BY DEF Unnamed, NameTaken
  <1>10. ASSUME Same, Asks(d, RenameOps), Named(d) \in Ids, db[table][Named(d)] # None,
                n.row = db[table][Named(d)], n.row.name = k.req.name
         PROVE  NameKept(d, table)'
    <2>1. Made(Named(d))
      BY <1>1, <1>10 DEF RowsMade, Present, PresentIn
    <2> QED
      BY <1>1, <1>2, <1>5, <1>10, <2>1 DEF NameKept
  <1>11. Stops(d) => n.pc \in Answers
    BY DEF Stops, Ends
  <1>12. Fails(d) => Stops(d)
    BY Failing DEF Bounds
  <1>13. \A a \in Answers : a \notin {"ident", "write", "ou", "name", "byName"}
    BY DEF Answers
  <1>14. \A answers : Ends(d, answers) => n.pc \in answers
    BY DEF Ends
  <1>15. \A s : Goes(d, s) => n.pc = s /\ n.row = k.row
    BY DEF Goes
  <1>16. \A s, row : Reads(d, s, row) => n.pc = s /\ n.row = row
    BY DEF Reads
  <1>17. CASE Op(d) = "createServer" /\ table = "servers"
    <2>1. ~Asks(d, RenameOps)' /\ Asks(d, NamingOps(table)) /\ ~NameKept(d, table)
      BY <1>1, <1>2, <1>17 DEF Asks, RenameOps, Op, NameKept, NamingOps
    <2>2. \/ n.pc \in Answers
          \/ n.pc = "name"
          \/ n.pc = "ident" /\ Same /\ NameTaken(d, table)
          \/ n.pc = "write" /\ Same /\ At(d, "ident")
      BY <1>8, <1>11, <1>12, <1>14, <1>15, <1>17, Operations, CreateServerSteps DEF Answers
    <2>3. At(d, "ident") => NameTaken(d, table)
      BY <1>1, <2>1 DEF NameCourse, At
    <2> QED
      BY <1>6, <1>13, <2>1, <2>2, <2>3 DEF NameCourse
  <1>18. CASE Op(d) = "updateServer" /\ table = "servers"
    <2>1. Asks(d, RenameOps) /\ Asks(d, NamingOps(table)) /\ Named(d) = k.req.server
      BY <1>1, <1>2, <1>18 DEF Asks, RenameOps, Op, NamingOps, Named, Target
    <2>2. k.req.server \in Ids
      BY <1>1, <1>18, CallFacts, RequestsAssumption DEF Op
    <2>3. \/ n.pc \in Answers
          \/ n.pc = "ou" /\ Same /\ db[table][Named(d)] # None /\ n.row = db[table][Named(d)]
          \/ n.pc = "name" /\ n.row.name # k.req.name
          \/ n.pc = "ident" /\ Same /\ n.row = k.row /\ At(d, "ou") /\ k.row.name = k.req.name
          \/ n.pc = "ident" /\ Same /\ NameTaken(d, table)
          \/ n.pc = "write" /\ Same /\ n.row = k.row /\ At(d, "ident")
      BY <1>8, <1>11, <1>12, <1>14, <1>15, <1>16, <1>18, <2>1, Operations, UpdateServerSteps
      DEF Answers
    <2>4. /\ At(d, "ident") => NameTaken(d, table) \/ NameKept(d, table)
          /\ At(d, "ou") /\ k.row.name = k.req.name => NameKept(d, table)
      BY <1>1, <2>1 DEF NameCourse, At
    <2> QED
      BY <1>1, <1>6, <1>7, <1>10, <1>13, <2>1, <2>2, <2>3, <2>4 DEF NameCourse
  <1>19. CASE Op(d) \in {"createIdp", "createSender"} /\ table \in {"idps", "senders"}
    <2>1. ~Asks(d, RenameOps)'
      BY <1>1, <1>2, <1>19 DEF Asks, RenameOps, Op
    <2>2. \/ n.pc \in Answers
          \/ n.pc = "write" /\ Same /\ Unnamed(d, "idps") /\ Op(d) = "createIdp"
          \/ n.pc = "write" /\ Same /\ Unnamed(d, "senders") /\ Op(d) = "createSender"
      BY <1>11, <1>12, <1>14, <1>15, <1>19, Operations, CreateIdpSteps, CreateSenderSteps DEF Answers
    <2>3. Asks(d, NamingOps(table)) => table = IF Op(d) = "createIdp" THEN "idps" ELSE "senders"
      BY <1>1, <1>19 DEF Asks, Op, NamingOps
    <2> QED
      BY <1>2, <1>6, <1>9, <1>13, <2>1, <2>2, <2>3 DEF NameCourse
  <1>20. ASSUME NEW t \in {"idps", "senders"}, table = t,
                Op(d) = IF t = "idps" THEN "updateIdp" ELSE "updateSender"
         PROVE  NameCourse(d, table)'
    <2>1. Asks(d, RenameOps) /\ Asks(d, NamingOps(table)) /\ Named(d) = k.req.id
      BY <1>1, <1>2, <1>20 DEF Asks, RenameOps, Op, NamingOps, Named, Target
    <2>2. k.req.id \in Ids
      BY <1>1, <1>20, CallFacts, RequestsAssumption DEF Op, RegistryOps
    <2>3. \/ n.pc \in Answers
          \/ n.pc = "byName" /\ Same /\ db[t][Named(d)] # None /\ n.row = db[t][Named(d)]
          \/ n.pc = "write" /\ Same /\ n.row = k.row /\ At(d, "byName") /\ k.row.name = k.req.name
          \/ n.pc = "write" /\ Same /\ Unnamed(d, t)
      BY <1>11, <1>12, <1>14, <1>15, <1>16, <1>20, <2>1, Operations, UpdateIdpSteps, UpdateSenderSteps
      DEF Answers
    <2>4. At(d, "byName") /\ k.row.name = k.req.name => NameKept(d, table)
      BY <1>1, <2>1 DEF NameCourse, At
    <2> QED
      BY <1>1, <1>6, <1>7, <1>9, <1>10, <1>13, <1>20, <2>1, <2>2, <2>3, <2>4 DEF NameCourse
  <1> QED
    BY <1>1, <1>4, <1>17, <1>18, <1>19, <1>20 DEF Asks, Op, NamingOps, NamedTables

\* Two rows with the same name are still of calls that met, or that updates met.
LEMMA NamesApartStep ==
    ASSUME Bounds, NamesInv, NEW d \in Calls, Shape(d)
    PROVE  NamesApart'
  <1> SUFFICES ASSUME NEW table \in NamedTables, NEW i \in Present(table)', NEW j \in Present(table)',
                      i # j, db'[table][i].name = db'[table][j].name
               PROVE  LET p == db'[table][i].named
                          q == db'[table][j].named
                      IN  \/ p \in Calls /\ q \in Calls /\ (Overlap(p, q) \/ Overlap(q, p))
                          \/ p \in Calls /\ Contended(p)
                          \/ q \in Calls /\ Contended(q)
    <2>1. \A e, f \in Calls : Overlap(e, f) \/ Overlap(f, e) => Overlap(e, f)'
      BY Lasting DEF Overlap
    <2>2. \A e \in Calls : Contended(e) => Contended(e)'
      BY StillMet
    <2> QED
      BY <2>1, <2>2 DEF NamesApart
  <1> DEFINE p == db'[table][i].named
             q == db'[table][j].named
  <1>1. i \in Ids /\ j \in Ids /\ db'[table][i] # None /\ db'[table][j] # None
    BY DEF Present, PresentIn
  <1> DEFINE same(l) == /\ db[table][l] # None
                        /\ db'[table][l].name = db[table][l].name
                        /\ db'[table][l].named = db[table][l].named
  <1>2. CASE same(i) /\ same(j)
    <2>1. i \in Present(table) /\ j \in Present(table)
      BY <1>1, <1>2 DEF Present, PresentIn
    <2> QED
      BY <1>2, <2>1 DEF NamesInv, NamesApart
  <1>3. CASE \A l \in Ids : db'[table][l] # None => db'[table][l] = db[table][l]
    BY <1>1, <1>2, <1>3
  <1>4. ASSUME NameWritten(d, table), NEW l \in Ids, db'[table][l] # None, l # Named(d),
               db'[table][l].name = call[d].req.name,
               ~same(Named(d))
        PROVE  \/ db'[table][l].named \in Calls /\ Overlap(d, db'[table][l].named)
               \/ Contended(d)
    <2>1. db'[table][l] = db[table][l]
      BY <1>4 DEF NameWritten
    <2>2. NameTaken(d, table) \/ NameKept(d, table)
      BY <1>4 DEF NameWritten, NamesInv, NameCourse, At
    <2>3. CASE NameTaken(d, table)
      BY <1>4, <2>1, <2>3 DEF NameTaken, Present, PresentIn
    <2>4. CASE NameKept(d, table)
      <3>1. Asks(d, RenameOps) /\ db[table][Named(d)] # None
        BY <1>4, <2>4 DEF NameKept, NameWritten
      <3>2. db[table][Named(d)].name # call[d].req.name
        BY <1>4, <3>1 DEF NameWritten
      <3> QED
        BY <2>4, <3>1, <3>2 DEF NameKept
    <2> QED
      BY <2>2, <2>3, <2>4
  <1>5. CASE NameWritten(d, table)
    <2>1. \A l \in Ids : l # Named(d) /\ db'[table][l] # None => same(l)
      BY <1>5 DEF NameWritten
    <2>2. ASSUME ~same(Named(d)) PROVE db'[table][Named(d)].named = d
      BY <1>5, <2>2 DEF NameWritten
    <2>3. db'[table][Named(d)].name = call[d].req.name
      BY <1>5 DEF NameWritten
    <2>4. CASE i = Named(d) /\ ~same(i)
      BY <1>1, <1>4, <1>5, <2>2, <2>3, <2>4
    <2>5. CASE j = Named(d) /\ ~same(j)
      BY <1>1, <1>4, <1>5, <2>2, <2>3, <2>5
    <2> QED
      BY <1>1, <1>2, <2>1, <2>4, <2>5
  <1> QED
    BY <1>3, <1>5, NamesChange

\* A call that begins knows nothing of names, and changes nothing for others.
LEMMA NamesAtBeginning ==
    ASSUME Bounds, NamesInv, NEW c \in Calls, NEW r \in Requests, Begin(c, r)
    PROVE  NamesInv'
  <1>1. /\ At(c, "idle") /\ db' = db /\ CallsTyped'
        /\ \A e \in Calls \ {c} : call'[e] = call[e]
        /\ <<r.op, call'[c].pc>> \in Beginnings(r) /\ call'[c].req = r
    BY Beginning DEF Bounds
  <1>2. \A e, ops : e # c /\ e \in Calls => (Asks(e, ops) <=> Asks(e, ops)')
    BY <1>1 DEF Asks, At
  <1>3. /\ \A e, f \in Calls : Overlap(e, f) => Overlap(e, f)'
        /\ \A e, ops : Asks(e, ops) => e # c
    BY <1>1 DEF Overlap, At, Asks
  <1>4. \A i : Made(i) => Made(i)'
    BY <1>1 DEF Made, Ended, At, Answers
  <1>5. \A e \in Calls \ {c} : Target(e)' = Target(e) /\ Named(e)' = Named(e)
    BY <1>1, <1>2 DEF Target, Named
  <1>6. \A e \in Calls : Contended(e) => Contended(e)'
    <2> SUFFICES ASSUME NEW e \in Calls, NEW f \in Calls, Overlap(e, f), Asks(e, RenameOps),
                        call[f].req.op = call[e].req.op, Target(f) = Target(e),
                        call[f].req.name # call[e].req.name
                 PROVE  Contended(e)'
      BY DEF Contended
    <2>1. e # c /\ f # c
      BY <1>1 DEF Overlap, At
    <2> QED
      BY <1>1, <1>2, <1>3, <1>5, <2>1 DEF Contended
  <1>7. NamesAsked'
    <2> SUFFICES ASSUME NEW table \in NamedTables, NEW i \in Present(table), NEW e \in Calls,
                        db[table][i].named = e
                 PROVE  Asks(e, NamingOps(table))' /\ call'[e].req.name = db[table][i].name
      BY <1>1 DEF NamesAsked, Present, PresentIn
    <2>1. Asks(e, NamingOps(table)) /\ call[e].req.name = db[table][i].name
      BY DEF NamesInv, NamesAsked
    <2> QED
      BY <1>1, <1>2, <1>3, <2>1
  <1>8. NamesApart'
    BY <1>1, <1>3, <1>6 DEF NamesInv, NamesApart, Present, PresentIn
  <1>9. ASSUME NEW table \in NamedTables, NEW e \in Calls \ {c} PROVE NameCourse(e, table)'
    <2>1. NameTaken(e, table) => NameTaken(e, table)'
      BY <1>1, <1>3, <1>5, <1>9 DEF NameTaken, Present, PresentIn
    <2>2. NameKept(e, table) => NameKept(e, table)'
      BY <1>1, <1>2, <1>4, <1>5, <1>6, <1>9 DEF NameKept
    <2>3. NameCourse(e, table)
      BY <1>9 DEF NamesInv
    <2> QED
      BY <1>1, <1>2, <1>9, <2>1, <2>2, <2>3 DEF NameCourse
  <1>10. ASSUME NEW table \in NamedTables PROVE NameCourse(c, table)'
    <2>1. call'[c].pc \notin {"ident", "write"} \/ r.op \notin NamingOps(table)
      BY <1>1, <1>10 DEF Beginnings, NamingOps, NamedTables
    <2>2. call'[c].pc \notin {"ou", "name", "byName"} \/ r.op \notin RenameOps
      BY <1>1 DEF Beginnings, RenameOps
    <2> QED
      BY <1>1, <2>1, <2>2 DEF NameCourse, Asks
  <1> QED
    BY <1>7, <1>8, <1>9, <1>10 DEF NamesInv

\* What is known of names is kept by every step, and so at any time.
LEMMA NamesNext ==
    ASSUME Bounds, NamesInv, [Next]_vars
    PROVE  NamesInv'
  <1>1. ASSUME NEW d \in Calls, Serves(d) PROVE NamesInv'
    BY <1>1, Shapes, NamesAskedStep, NamesApartStep, OthersNames, OwnNames DEF NamesInv
  <1>2. CASE UNCHANGED vars
    <2>1. db' = db /\ call' = call
      BY <1>2 DEF vars
    <2>2. NamesAsked' /\ NamesApart'
      BY <2>1 DEF NamesInv, NamesAsked, NamesApart, Contended, Target, Overlap, Asks, At, Present, PresentIn
    <2>3. \A c \in Calls, table \in NamedTables : NameCourse(c, table)'
      BY <2>1 DEF NamesInv, NameCourse, NameTaken, NameKept, Made, Ended, Named,
                  Contended, Target, Overlap, Asks, At, Present, PresentIn
    <2> QED
      BY <2>2, <2>3 DEF NamesInv
  <1> QED
    BY <1>1, <1>2, NamesAtBeginning DEF Next, Serves

\* The initial rows have names of their own.
LEMMA NamesAtFirst ==
    ASSUME Init
    PROVE  NamesInv
  <1>1. \A table \in NamedTables : \A i, j \in Present(table) :
           /\ db[table][i].named \notin Calls
           /\ i # j => db[table][i].name # db[table][j].name
    BY TablesAssumption, IdsAssumption DEF Init, Present
  <1>2. \A c \in Calls : \A ops : ~Asks(c, ops)
    BY DEF Init, Idle, Asks, At
  <1> QED
    BY <1>1, <1>2 DEF NamesInv, NamesAsked, NamesApart, NameCourse

\* With or without foreign keys, names are told apart by calls that look them up.
LEMMA NamesHold == Spec => []NamesInv
  BY BoundsHold, NamesAtFirst, NamesNext, PTL DEF Spec

-----------------------------------------------------------------------------
(* Calls that meet no other.                                               *)

\* What c has seen of the tables is no longer so only if c has met another call.
Alone(c) == AloneServer(c) /\ AlonePlace(c) /\ AloneRemoval(c) /\ AloneBranding(c)

\* The unique keys of the servers are kept.
LEMMA KeysStep ==
    ASSUME Bounds, KeysHold, NEW d \in Calls, Shape(d)
    PROVE  KeysHold'
  <1>1. /\ TablesTyped /\ d \in Ids /\ Changed(d) /\ "servers" \in Tables
        /\ db.servers \in [Ids -> ServerRows \cup {None}]
    BY DEF Bounds, Ids, Shape, TablesTyped, Tables, Rows
  <1>2. CASE \A i \in Ids : db'.servers[i] # None => db'.servers[i] = db.servers[i]
    BY <1>2 DEF KeysHold, Present, PresentIn
  <1>3. CASE ServerWritten(d)
    <2> DEFINE i == Named(d)
               row == ServerRow(d, i)
               req == call[d].req
    <2>1. Asks(d, {"createServer", "updateServer"}) /\ At(d, "write") /\ ServerUnique(d, i)
      BY <1>3 DEF ServerWritten
    <2>2. i \in Ids /\ row \in ServerRows /\ (Asks(d, {"createServer"}) => i = d)
      BY <2>1, RowsWritten
    <2>3. Puts("servers", i, row)
      BY <1>3, <2>1, <2>2 DEF ServerWritten, Inserts, Updates, Asks, Op
    <2>4. db'.servers[i] = row /\ \A j \in Ids : j # i => db'.servers[j] = db.servers[j]
      BY <1>1, <2>2, <2>3 DEF Puts
    <2>5. row.ou = req.ou /\ row.name = req.name /\ row.ident = req.ident
      BY DEF ServerRow
    <2> HIDE DEF i, row, req
    <2>6. \A j \in Ids : j # i /\ db.servers[j] # None =>
             /\ ~(db.servers[j].ou = row.ou /\ db.servers[j].name = row.name)
             /\ row.ident = None \/ db.servers[j].ident # row.ident
      BY <2>1, <2>5 DEF ServerUnique, Present, PresentIn, req
    <2> QED
      BY <2>4, <2>6 DEF KeysHold, Present, PresentIn
  <1>4. CASE \E table \in Tables \ {"apps"}, i \in Ids : Removes(d, table, i)
    BY <1>1, <1>2, <1>4 DEF Removes, Drops, Puts
  <1>5. \/ Same \/ ResourceMade(d) \/ ActionMade(d) \/ IdpWritten(d) \/ SenderWritten(d)
        \/ BrandingWritten(d) \/ AppWritten(d)
        => db'.servers = db.servers
    BY DEF Same, ResourceMade, ActionMade, IdpWritten, SenderWritten, BrandingWritten, AppWritten,
           Inserts, Updates, Puts, Tables
  <1> QED
    BY <1>1, <1>2, <1>3, <1>4, <1>5 DEF Changed

\* A call that goes on, and has met no other, on servers.
LEMMA AloneServerStep ==
    ASSUME Bounds, KeysHold, NEW c \in Calls, Serves(c), Shape(c), call'[c].pc \notin Answers, AloneServer(c)
    PROVE  AloneServer(c)'
  <1> DEFINE k == call[c]
             n == call'[c]
  <1>1. /\ n.req = k.req /\ ~At(c, "idle") /\ Same
        /\ db'.servers = db.servers /\ Present("servers")' = Present("servers")
    BY DEF Shape, Keeps, Running, Same, Tables, Present, PresentIn
  <1>2. \A ops : Asks(c, ops) <=> Asks(c, ops)'
    BY Lasting
  <1>3. /\ NameFree(c) => NameFree(c)'
        /\ \A i : IdentFree(c, i) => IdentFree(c, i)'
    BY <1>1 DEF NameFree, IdentFree
  <1>4. /\ ~Stops(c) /\ ~Fails(c)
        /\ ~Ends(c, {"rejected"}) /\ ~Ends(c, {"ok", "failed"})
    BY Failing DEF Stops, Ends, Answers, Bounds
  <1>5. \A s : Goes(c, s) => n.pc = s /\ n.row = k.row
    BY DEF Goes
  <1>6. \A s, row : Reads(c, s, row) => n.pc = s /\ n.row = row
    BY DEF Reads
  <1>7. CASE Asks(c, {"createServer"})
    <2>1. Op(c) = "createServer" /\ ~Asks(c, {"updateServer"})
      BY <1>7 DEF Asks, Op
    <2>2. \/ n.pc = "name"
          \/ n.pc = "ident" /\ NameFree(c)
          \/ n.pc = "write" /\ At(c, "ident") /\ IdentFree(c, c)
      BY <1>4, <1>5, <2>1, Operations, CreateServerSteps
    <2>3. At(c, "ident") => NameFree(c)
      BY <1>7 DEF AloneServer, At
    <2> QED
      BY <1>2, <1>3, <1>7, <2>1, <2>2, <2>3 DEF AloneServer, At
  <1>8. CASE Asks(c, {"updateServer"})
    <2> DEFINE row == db.servers[k.req.server]
    <2>1. Op(c) = "updateServer" /\ ~Asks(c, {"createServer"}) /\ k.req.server \in Ids
      BY <1>1, <1>8, CallFacts, RequestsAssumption DEF Asks, Op
    <2>2. \/ n.pc = "ou" /\ n.row = row
          \/ n.pc = "name" /\ n.row = k.row /\ At(c, "ou")
          \/ n.pc = "ident" /\ n.row = k.row /\ At(c, "ou") /\ k.row.name = k.req.name
          \/ n.pc = "ident" /\ n.row = k.row /\ At(c, "name") /\ NameFree(c)
          \/ /\ n.pc = "write" /\ n.row = k.row /\ At(c, "ident")
             /\ k.row.ident = k.req.ident \/ IdentFree(c, k.req.server)
      BY <1>4, <1>5, <1>6, <2>1, Operations, UpdateServerSteps
    <2>3. /\ At(c, "ou") \/ At(c, "name") \/ At(c, "ident") => k.row = row /\ k.row # None
          /\ At(c, "ident") => NameFree(c) \/ k.row.name = k.req.name
      <3>1. At(c, "ou") \/ At(c, "name") \/ At(c, "ident") => k.row \in ServerRows
        BY <1>1, <1>8, <2>1, CallFacts DEF ServerCourse, DelimiterKept, At, Asks
      <3>2. \A x \in ServerRows : x # None
        BY ValuesAssumption DEF Tables, Rows
      <3> QED
        BY <1>8, <3>1, <3>2 DEF AloneServer, At
    <2>4. ASSUME row # None, row.ident = k.req.ident PROVE IdentFree(c, k.req.server)
      BY <2>1, <2>4 DEF KeysHold, IdentFree, Present, PresentIn
    <2> QED
      BY <1>1, <1>2, <1>3, <1>8, <2>1, <2>2, <2>3, <2>4 DEF AloneServer, At
  <1> QED
    BY <1>2, <1>7, <1>8 DEF AloneServer

\* On places.
LEMMA AlonePlaceStep ==
    ASSUME Bounds, NEW c \in Calls, Serves(c), Shape(c), call'[c].pc \notin Answers, AlonePlace(c)
    PROVE  AlonePlace(c)'
  <1> DEFINE k == call[c]
             n == call'[c]
  <1>1. /\ n.req = k.req /\ ~At(c, "idle") /\ Same
        /\ \A t \in {"servers", "resources", "actions"} : db'[t] = db[t] /\ Present(t)' = Present(t)
    BY DEF Shape, Keeps, Running, Same, Tables, Present, PresentIn
  <1>2. \A ops : Asks(c, ops) <=> Asks(c, ops)'
    BY Lasting
  <1>3. /\ ~Stops(c) /\ ~Fails(c)
        /\ ~Ends(c, {"rejected"}) /\ ~Ends(c, {"ok", "failed"})
    BY Failing DEF Stops, Ends, Answers, Bounds
  <1>4. /\ \A s : Goes(c, s) => n.pc = s
        /\ \A s, row : Reads(c, s, row) \/ ReadsAbove(c, s, row) => n.pc = s
    BY DEF Goes, Reads, ReadsAbove
  <1>5. /\ ResourceHandleFree(c) => ResourceHandleFree(c)'
        /\ ActionHandleFree(c) => ActionHandleFree(c)'
    BY <1>1 DEF ResourceHandleFree, ActionHandleFree
  <1>6. CASE Asks(c, {"createResource", "createAction"})
    <2>1. Op(c) \in {"createResource", "createAction"}
      BY <1>6 DEF Asks, Op
    <2>2. \/ /\ At(c, "server") /\ db.servers[k.req.server] # None
             /\ n.pc = IF k.req.above = None THEN "handle" ELSE "above"
          \/ At(c, "above") /\ db.resources[k.req.above] # None /\ n.pc = "handle"
          \/ /\ At(c, "handle") /\ n.pc = "write"
             /\ IF Op(c) = "createResource" THEN ResourceHandleFree(c) ELSE ActionHandleFree(c)
      <3>1. CASE Op(c) = "createResource"
        BY <1>3, <1>4, <3>1, Operations, CreateResourceSteps
      <3>2. CASE Op(c) = "createAction"
        BY <1>3, <1>4, <3>2, Operations, CreateActionSteps
      <3> QED
        BY <2>1, <3>1, <3>2
    <2>3. /\ At(c, "above") \/ At(c, "handle") => db.servers[k.req.server] # None
          /\ At(c, "handle") /\ k.req.above # None => db.resources[k.req.above] # None
      BY <1>6 DEF AlonePlace, At
    <2>4. Op(c)' = Op(c)
      BY <1>1 DEF Op
    <2>5. /\ n.pc \in {"above", "handle", "write"} => db'.servers[n.req.server] # None
          /\ n.pc \in {"handle", "write"} /\ n.req.above # None => db'.resources[n.req.above] # None
          /\ n.pc = "write" =>
                IF Op(c) = "createResource" THEN ResourceHandleFree(c)' ELSE ActionHandleFree(c)'
      BY <1>1, <1>5, <2>2, <2>3
    <2> QED
      BY <2>4, <2>5 DEF AlonePlace, At
  <1> QED
    BY <1>2, <1>6 DEF AlonePlace

\* On removals.
LEMMA AloneRemovalStep ==
    ASSUME Bounds, NEW c \in Calls, Serves(c), Shape(c), call'[c].pc \notin Answers
    PROVE  AloneRemoval(c)'
  <1> DEFINE k == call[c]
             n == call'[c]
  <1>1. /\ n.req = k.req /\ ~At(c, "idle") /\ Same
        /\ \A t \in {"servers", "resources", "actions"} : db'[t] = db[t] /\ Present(t)' = Present(t)
    BY DEF Shape, Keeps, Running, Same, Tables, Present, PresentIn
  <1>2. \A ops : Asks(c, ops) <=> Asks(c, ops)'
    BY Lasting
  <1>3. /\ ~Stops(c) /\ ~Fails(c)
        /\ ~Ends(c, {"rejected"}) /\ ~Ends(c, {"ok", "failed"})
    BY Failing DEF Stops, Ends, Answers, Bounds
  <1>4. \A table, i : ~HasDependencies(table, i) => ~HasDependencies(table, i)'
    BY <1>1 DEF HasDependencies
  <1>5. ASSUME Asks(c, {"deleteServer"}), n.pc = "write" PROVE ~HasDependencies("servers", k.req.server)
    <2>1. Op(c) = "deleteServer"
      BY <1>5 DEF Asks, Op
    <2> QED
      BY <1>3, <1>5, <2>1, Operations, DeleteServerSteps
  <1>6. ASSUME Asks(c, {"deleteResource"}), n.pc = "write" PROVE ~HasDependencies("resources", k.req.id)
    <2>1. Op(c) = "deleteResource"
      BY <1>6 DEF Asks, Op
    <2> QED
      BY <1>3, <1>6, <2>1, Operations, DeleteResourceSteps
  <1> QED
    BY <1>1, <1>2, <1>4, <1>5, <1>6 DEF AloneRemoval, At

\* On brandings, where what applications use is there.
LEMMA AloneBrandingStep ==
    ASSUME Bounds, PlacesInv, NEW c \in Calls, Serves(c), Shape(c), call'[c].pc \notin Answers
    PROVE  AloneBranding(c)'
  <1> DEFINE k == call[c]
             n == call'[c]
  <1>1. /\ n.req = k.req /\ ~At(c, "idle") /\ Same
        /\ \A t \in {"brandings", "apps"} : db'[t] = db[t] /\ Present(t)' = Present(t)
    BY DEF Shape, Keeps, Running, Same, Tables, Present, PresentIn
  <1>2. \A ops : Asks(c, ops) <=> Asks(c, ops)'
    BY Lasting
  <1>3. /\ ~Stops(c) /\ ~Fails(c) /\ ~Ends(c, {"dangling"})
        /\ ~Ends(c, {"rejected"}) /\ ~Ends(c, {"ok", "failed"})
    BY Failing DEF Stops, Ends, Answers, Bounds
  <1>4. /\ \A i : ApplicationsOf(i)' = ApplicationsOf(i)
        /\ \A s : Goes(c, s) => n.pc = s
        /\ \A s, row : Reads(c, s, row) => n.pc = s /\ n.row = row
    BY <1>1 DEF ApplicationsOf, Goes, Reads
  <1>5. ASSUME Asks(c, {"deleteBranding"}), n.pc = "write" PROVE ApplicationsOf(k.req.branding) = {}
    <2>1. Op(c) = "deleteBranding"
      BY <1>5 DEF Asks, Op
    <2> QED
      BY <1>3, <1>4, <1>5, <2>1, Operations, DeleteBrandingSteps
  <1>6. ASSUME Asks(c, {"brandApp"}), n.pc = "write"
        PROVE  k.req.branding = None \/ db.brandings[k.req.branding] # None
    <2>1. Op(c) = "brandApp"
      BY <1>6 DEF Asks, Op
    <2> QED
      BY <1>3, <1>6, <2>1, Operations, BrandApplicationSteps
  <1>7. ASSUME Asks(c, {"resolve"}), n.pc = "branding" PROVE db.brandings[n.row.branding] # None
    <2>1. Op(c) = "resolve" /\ k.req.app \in Ids
      BY <1>1, <1>7, CallFacts, RequestsAssumption DEF Asks, Op
    <2>2. /\ db.apps[k.req.app] # None /\ db.apps[k.req.app].branding # None
          /\ n.row = db.apps[k.req.app]
      BY <1>3, <1>4, <1>7, <2>1, Operations, ResolveBrandingSteps
    <2> QED
      BY <2>1, <2>2 DEF PlacesInv, Referenced, PresentIn
  <1> QED
    BY <1>1, <1>2, <1>4, <1>5, <1>6, <1>7 DEF AloneBranding, At

\* A server whose name is kept, and that a key turns away, has a twin.
LEMMA NamesTwinned ==
    ASSUME Bounds, NamesInv, NEW c \in Calls, NEW i \in Present("servers"), NEW j \in Present("servers"),
           i # j, db.servers[i].name = call[c].req.name, db.servers[j].name = call[c].req.name
    PROVE  Twinned(c)
  <1> DEFINE p == db.servers[i].named
             q == db.servers[j].named
  <1>1. "servers" \in NamedTables /\ NamingOps("servers") = {"createServer", "updateServer"}
    BY DEF NamedTables, NamingOps
  <1>2. \A x \in {p, q} \cap Calls :
           Asks(x, {"createServer", "updateServer"}) /\ call[x].req.name = call[c].req.name
    BY <1>1 DEF NamesInv, NamesAsked
  <1>3. \/ {p, q} \subseteq Calls /\ Overlap(p, q)
        \/ \E x \in {p, q} \cap Calls : Contended(x)
    BY <1>1 DEF NamesInv, NamesApart
  <1>4. CASE {p, q} \subseteq Calls /\ Overlap(p, q)
    BY <1>2, <1>4 DEF Twinned
  <1>5. CASE \E x \in {p, q} \cap Calls : Contended(x)
    <2>1. PICK x \in {p, q} \cap Calls, d \in Calls : Overlap(x, d) /\ call[d].req.op = call[x].req.op
      BY <1>5 DEF Contended
    <2>2. Asks(d, {"createServer", "updateServer"})
      BY <1>2, <2>1 DEF Asks, Overlap
    <2> QED
      BY <1>2, <2>1, <2>2 DEF Twinned
  <1> QED
    BY <1>3, <1>4, <1>5

\* No key or reference turns a call away that has met no other, but for a server with a twin.
LEMMA BarredAlone ==
    ASSUME Bounds, NamesInv, PlacesInv, NEW c \in Calls, Running(c), Alone(c), Barred(c)
    PROVE  Asks(c, {"updateServer"}) /\ Twinned(c)
  <1> DEFINE req == call[c].req
  <1>1. req \in Requests /\ TablesTyped
    BY CallFacts DEF Running
  <1>2. ~(At(c, "write") /\ Asks(c, {"createServer"}) /\ ~ServerUnique(c, c))
    BY DEF Alone, AloneServer, At, ServerUnique, NameFree, IdentFree
  <1>3. ASSUME At(c, "write"), Asks(c, {"updateServer"}), db.servers[req.server] # None,
               ~ServerUnique(c, req.server)
        PROVE  Twinned(c)
    <2>1. /\ call[c].row = db.servers[req.server]
          /\ NameFree(c) \/ call[c].row.name = req.name
          /\ IdentFree(c, req.server)
      BY <1>3 DEF Alone, AloneServer, At
    <2>2. req.server \in Present("servers")
      BY <1>1, <1>3, RequestsAssumption DEF Asks, Present, PresentIn
    <2>3. PICK s \in Present("servers") \ {req.server} : db.servers[s].name = req.name
      BY <1>3, <2>1 DEF ServerUnique, IdentFree
    <2>4. db.servers[req.server].name = req.name
      BY <2>1, <2>3 DEF NameFree
    <2> QED
      BY <2>2, <2>3, <2>4, NamesTwinned
  <1>4. ~(At(c, "write") /\ Asks(c, {"createResource"}) /\ ~(ResourceHandleFree(c) /\ PlaceThere(c)))
    BY DEF Alone, AlonePlace, At, Asks, Op, PlaceThere
  <1>5. ~(At(c, "write") /\ Asks(c, {"createAction"}) /\ ~(ActionHandleFree(c) /\ PlaceThere(c)))
    BY DEF Alone, AlonePlace, At, Asks, Op, PlaceThere
  <1>6. ASSUME At(c, "write"), Asks(c, {"deleteServer"}), ReferringTo("servers", req.server) PROVE FALSE
    <2>1. ~HasDependencies("servers", req.server)
      BY <1>6 DEF Alone, AloneRemoval
    <2>2. PICK a \in Present("actions") : db.actions[a].server = req.server
      BY <1>6, <2>1 DEF ReferringTo, HasDependencies
    <2>3. db.actions[a].resource # None /\ db.actions[a].resource \in Ids
      BY <1>1, <2>1, <2>2, RowFacts DEF HasDependencies, Present, PresentIn, ActionRows
    <2>4. db.actions[a].resource \in Present("resources")
          /\ db.resources[db.actions[a].resource].server = req.server
      BY <2>2, <2>3 DEF PlacesInv, Referenced, Present, PresentIn
    <2> QED
      BY <2>1, <2>4 DEF HasDependencies
  <1>7. ~(At(c, "write") /\ Asks(c, {"deleteResource"}) /\ ReferringTo("resources", req.id))
    BY DEF Alone, AloneRemoval, ReferringTo, HasDependencies
  <1>8. ~(At(c, "write") /\ Asks(c, {"deleteBranding"}) /\ ReferringTo("brandings", req.branding))
    BY DEF Alone, AloneBranding, ReferringTo, ApplicationsOf
  <1>9. ~(At(c, "write") /\ Asks(c, {"brandApp"}) /\ ~(req.branding = None \/ db.brandings[req.branding] # None))
    BY DEF Alone, AloneBranding
  <1>10. ~(At(c, "branding") /\ Asks(c, {"resolve"}) /\ db.brandings[call[c].row.branding] = None)
    BY DEF Alone, AloneBranding
  <1> QED
    BY <1>2, <1>3, <1>4, <1>5, <1>6, <1>7, <1>8, <1>9, <1>10 DEF Barred

\* What is known of calls that meet no other is kept by a step.
LEMMA AloneStep ==
    ASSUME Bounds, NamesInv, PlacesInv, AloneInv, NEW d \in Calls, Serves(d), Shape(d)
    PROVE  AloneInv'
  <1>1. /\ \A c \in Calls : call'[c].req = call[c].req /\ (c # d => call'[c] = call[c])
        /\ \A c \in Calls : Running(c)' => Running(c)
        /\ \A c, e \in Calls : Overlap(c, e) <=> Overlap(c, e)'
        /\ \A c \in Calls \ {d} : Running(c) => Overlap(c, d)
        /\ \A c \in Calls : \A ops : Asks(c, ops) <=> Asks(c, ops)'
    BY Lasting
  <1>2. \A c \in Calls : Meets(c) <=> Meets(c)'
    BY <1>1 DEF Meets
  <1>3. \A c \in Calls : Twinned(c) => Twinned(c)'
    BY <1>1 DEF Twinned
  <1>4. KeysHold /\ KeysHold'
    BY KeysStep DEF AloneInv
  <1>5. ASSUME NEW c \in Calls PROVE AloneRule(c)'
    <2> SUFFICES ASSUME Running(c)', ~Meets(c)
                 PROVE  AloneServer(c)' /\ AlonePlace(c)' /\ AloneRemoval(c)' /\ AloneBranding(c)'
      BY <1>2, <1>5 DEF AloneRule
    <2>1. c = d /\ Running(c)
      BY <1>1 DEF Meets
    <2>2. call'[c].pc \notin Answers /\ AloneServer(c) /\ AlonePlace(c)
      BY <2>1 DEF Running, Ended, AloneInv, AloneRule
    <2> QED
      BY <1>4, <2>1, <2>2, AloneServerStep, AlonePlaceStep, AloneRemovalStep, AloneBrandingStep
  <1>6. ASSUME NEW c \in Calls PROVE TurnedAway(c)'
    <2>1. TurnedAway(c) /\ AloneRule(c)
      BY DEF AloneInv
    <2>2. CASE c # d
      BY <1>1, <1>2, <1>3, <2>1, <2>2 DEF TurnedAway
    <2>3. CASE c = d
      <3> SUFFICES ASSUME call'[c].pc \in {"rejected", "dangling"}, ~Meets(c)
                   PROVE  Asks(c, {"updateServer"}) /\ Twinned(c)
        BY <1>1, <1>2, <1>3 DEF TurnedAway
      <3>1. Running(c) /\ Barred(c)
        BY <2>3 DEF Shape
      <3>2. Alone(c)
        BY <2>1, <3>1 DEF AloneRule, Alone
      <3> QED
        BY <3>1, <3>2, BarredAlone
    <2> QED
      BY <2>2, <2>3
  <1> QED
    BY <1>4, <1>5, <1>6 DEF AloneInv

\* A call that begins meets every call that is running.
LEMMA AloneAtBeginning ==
    ASSUME Bounds, AloneInv, NEW c \in Calls, NEW r \in Requests, Begin(c, r)
    PROVE  AloneInv'
  <1>1. /\ At(c, "idle") /\ db' = db
        /\ \A e \in Calls \ {c} : call'[e] = call[e]
        /\ <<r.op, call'[c].pc>> \in Beginnings(r) /\ call'[c].req = r
        /\ call'[c].before = {e \in Calls : Ended(e)}
    BY Beginning DEF Bounds
  <1>2. /\ \A e \in Calls \ {c} : \A ops : Asks(e, ops) <=> Asks(e, ops)'
        /\ \A e, f \in Calls : Overlap(e, f) => Overlap(e, f)'
        /\ \A e \in Calls : \A ops : Asks(e, ops) => e # c
    BY <1>1 DEF Asks, At, Overlap
  <1>3. \A e \in Calls : Meets(e) => Meets(e)'
    BY <1>2 DEF Meets
  <1>4. ASSUME NEW e \in Calls, Twinned(e), e # c PROVE Twinned(e)'
    <2>1. PICK p, q \in Calls :
             /\ Overlap(p, q)
             /\ \A d \in {p, q} : Asks(d, {"createServer", "updateServer"})
             /\ call[p].req.name = call[e].req.name
      BY <1>4 DEF Twinned
    <2>2. p # c /\ q # c
      BY <1>2, <2>1
    <2> QED
      BY <1>1, <1>2, <1>4, <2>1, <2>2 DEF Twinned
  <1>5. KeysHold'
    BY <1>1 DEF AloneInv, KeysHold, Present, PresentIn
  <1>6. call'[c].pc # "idle"
    BY <1>1 DEF Beginnings
  <1>7. ASSUME NEW e \in Calls \ {c} PROVE AloneRule(e)' /\ TurnedAway(e)'
    <2>1. Running(e)' => Meets(e)'
      <3> SUFFICES ASSUME Running(e)' PROVE Overlap(e, c)'
        BY DEF Meets
      <3>1. Running(e) /\ ~At(e, "idle") /\ ~Ended(e)
        BY <1>1 DEF Running, At, Ended
      <3>2. c \notin call[e].before
        BY <1>1, <1>7, <3>1 DEF Bounds, HistoryKept, Ended, At, Answers
      <3> QED
        BY <1>1, <1>6, <1>7, <3>1, <3>2 DEF Overlap, At
    <2>2. TurnedAway(e)
      BY DEF AloneInv
    <2>3. Asks(e, {"updateServer"}) => Asks(e, {"updateServer"})'
      BY <1>2
    <2> QED
      BY <1>1, <1>3, <1>4, <2>1, <2>2, <2>3 DEF AloneRule, TurnedAway
  <1>8. TurnedAway(c)'
    BY <1>1 DEF TurnedAway, Beginnings
  <1>9. AloneRule(c)'
    <2>1. AloneServer(c)'
      BY <1>1 DEF AloneServer, Asks, At, Beginnings
    <2>2. AlonePlace(c)'
      BY <1>1 DEF AlonePlace, Asks, At, Op, Beginnings
    <2>3. AloneRemoval(c)'
      BY <1>1 DEF AloneRemoval, Asks, At, Beginnings
    <2>4. AloneBranding(c)'
      BY <1>1 DEF AloneBranding, Asks, At, Beginnings
    <2> QED
      BY <2>1, <2>2, <2>3, <2>4 DEF AloneRule
  <1> QED
    BY <1>5, <1>7, <1>8, <1>9 DEF AloneInv

\* By every step.
LEMMA AloneNext ==
    ASSUME Bounds, NamesInv, PlacesInv, AloneInv, [Next]_vars
    PROVE  AloneInv'
  <1>1. ASSUME NEW d \in Calls, Serves(d) PROVE AloneInv'
    BY <1>1, Shapes, AloneStep
  <1>2. CASE UNCHANGED vars
    <2>1. db' = db /\ call' = call
      BY <1>2 DEF vars
    <2>2. KeysHold'
      BY <2>1 DEF AloneInv, KeysHold, Present, PresentIn
    <2>3. \A c, d : Overlap(c, d) <=> Overlap(c, d)'
      BY <2>1 DEF Overlap, At
    <2>4. \A c : /\ Running(c) <=> Running(c)'
                 /\ \A ops : Asks(c, ops) <=> Asks(c, ops)'
                 /\ \A s : At(c, s) <=> At(c, s)'
      BY <2>1 DEF Running, Asks, At, Ended
    <2>5. \A c : (Meets(c) <=> Meets(c)') /\ (Twinned(c) <=> Twinned(c)')
      BY <2>1, <2>3, <2>4 DEF Meets, Twinned
    <2>6. \A c : AloneServer(c) => AloneServer(c)'
      BY <2>1, <2>4 DEF AloneServer, NameFree, IdentFree, Present, PresentIn
    <2>7. \A c : AlonePlace(c) => AlonePlace(c)'
      BY <2>1, <2>4 DEF AlonePlace, ResourceHandleFree, ActionHandleFree, Present, PresentIn, Op
    <2>8. \A c : (AloneRemoval(c) => AloneRemoval(c)') /\ (AloneBranding(c) => AloneBranding(c)')
      BY <2>1, <2>4 DEF AloneRemoval, HasDependencies, AloneBranding, ApplicationsOf, Present, PresentIn
    <2>9. \A c \in Calls : AloneRule(c)' /\ TurnedAway(c)'
      BY <2>1, <2>4, <2>5, <2>6, <2>7, <2>8 DEF AloneInv, AloneRule, TurnedAway
    <2> QED
      BY <2>2, <2>9 DEF AloneInv
  <1> QED
    BY <1>1, <1>2, AloneAtBeginning DEF Next, Serves

\* Initially nothing has begun, and the keys hold.
LEMMA AloneAtFirst ==
    ASSUME Init
    PROVE  AloneInv
  <1>1. KeysHold
    <2>1. \A i, j \in PresentIn(db, "servers") : i # j =>
             /\ db.servers[i].name # db.servers[j].name
             /\ db.servers[i].ident # None => db.servers[i].ident # db.servers[j].ident
      BY TablesAssumption DEF Init, NamedTables
    <2> QED
      BY <2>1 DEF KeysHold, Present
  <1>2. \A c \in Calls : call[c].pc = "idle"
    BY DEF Init, Idle
  <1> QED
    BY <1>1, <1>2 DEF AloneInv, AloneRule, TurnedAway, Running, At

\* What a call checks suffices unless it meets another one.
THEOREM ChecksAlwaysSuffice ==
    ASSUME ForeignKeys = {TRUE}
    PROVE  Spec => []ChecksSuffice
  <1>1. Init => AloneInv
    BY AloneAtFirst
  <1>2. Bounds /\ NamesInv /\ PlacesInv /\ AloneInv /\ [Next]_vars => AloneInv'
    BY AloneNext
  <1>3. NamesInv /\ AloneInv => ChecksSuffice
    BY DEF NamesInv, NamesApart, AloneInv, TurnedAway, Meets, ChecksSuffice
  <1> QED
    BY <1>1, <1>2, <1>3, BoundsHold, NamesHold, PlacesHold, PTL DEF Spec

-----------------------------------------------------------------------------
(* Lists.                                                                  *)

ListTables == {"servers", "resources", "actions", "brandings"}

\* The stamp of row i.
Stamp(table, i) == db.created[<<table, i>>]

\* A table of lists changes with the operations that create and delete; else its rows stay,
\* with their stamps.
LEMMA ListsChange ==
    ASSUME Bounds, NEW d \in Calls, Shape(d), NEW table \in ListTables
    PROVE  /\ \A i \in Present(table)' :
                 Made(i) => i \in Present(table) /\ Stamp(table, i)' = Stamp(table, i)
           /\ Asks(d, DeleteOps) \/ Present(table) \subseteq Present(table)'
           /\ Asks(d, CreateOps) \/ Present(table)' \subseteq Present(table)
           /\ \A i \in Present(table) \cap Present(table)' : Stamp(table, i)' = Stamp(table, i)
  <1>1. /\ TablesTyped /\ d \in Ids /\ table \in Tables /\ Changed(d) /\ ~At(d, "idle") /\ ~Made(d)
        /\ db.created \in [Tables \X Ids -> Nat]
    BY Lasting DEF Bounds, Ids, ListTables, Tables, Shape, Running, TablesTyped
  <1> DEFINE kept ==
                /\ \A i \in Present(table)' :
                      Made(i) => i \in Present(table) /\ Stamp(table, i)' = Stamp(table, i)
                /\ Asks(d, DeleteOps) \/ Present(table) \subseteq Present(table)'
                /\ Asks(d, CreateOps) \/ Present(table)' \subseteq Present(table)
                /\ \A i \in Present(table) \cap Present(table)' : Stamp(table, i)' = Stamp(table, i)
             quiet == /\ Present(table)' = Present(table)
                      /\ \A i \in Ids : Stamp(table, i)' = Stamp(table, i)
  <1>2. ASSUME quiet PROVE kept
    BY <1>2 DEF Present, PresentIn
  <1>3. ASSUME NEW t \in Tables, NEW row \in Rows(t), Inserts(t, d, row)
        PROVE  /\ \A i \in Ids : t # table \/ i # d => Stamp(table, i)' = Stamp(table, i)
               /\ t # table => quiet
               /\ t = table => Present(table)' = Present(table) \cup {d}
    <2>1. /\ \A u \in Tables : u # t => Present(u)' = Present(u)
          /\ row # None => Present(t)' = Present(t) \cup {d}
      BY <1>1, <1>3, Putting DEF Inserts
    <2>2. row # None
      BY ValuesAssumption
    <2>3. \A i \in Ids : t # table \/ i # d => Stamp(table, i)' = Stamp(table, i)
      BY <1>1, <1>3 DEF Inserts, Stamp
    <2> QED
      BY <1>1, <2>1, <2>2, <2>3
  <1>4. ASSUME NEW t \in Tables, NEW i \in Ids, NEW row \in Rows(t), Updates(t, i, row)
        PROVE  quiet
    <2>1. /\ \A u \in Tables : u # t => Present(u)' = Present(u)
          /\ row # None => Present(t)' = Present(t) \cup {i}
      BY <1>1, <1>4, Putting DEF Updates
    <2>2. row # None /\ i \in Present(t)
      BY <1>4, ValuesAssumption DEF Updates, Present, PresentIn
    <2>3. \A j \in Ids : Stamp(table, j)' = Stamp(table, j)
      BY <1>4 DEF Updates, Unstamped, Stamp
    <2> QED
      BY <1>1, <2>1, <2>2, <2>3
  <1>5. ASSUME NEW t \in Tables, NEW i \in Ids, Drops(t, i)
        PROVE  /\ \A j \in Ids : t # table \/ j # i => Stamp(table, j)' = Stamp(table, j)
               /\ t # table => quiet
               /\ t = table => Present(table)' = Present(table) \ {i}
    <2>1. /\ \A u \in Tables : u # t => Present(u)' = Present(u)
          /\ Present(t)' = Present(t) \ {i}
      BY <1>1, <1>5, Putting DEF Drops
    <2>2. \A j \in Ids : t # table \/ j # i => Stamp(table, j)' = Stamp(table, j)
      BY <1>1, <1>5 DEF Drops, Stamp
    <2> QED
      BY <1>1, <2>1, <2>2
  <1>6. ASSUME Asks(d, CreateOps), NEW row \in Rows(table), Inserts(table, d, row)
        PROVE  kept
    <2>1. /\ \A i \in Ids : i # d => Stamp(table, i)' = Stamp(table, i)
          /\ Present(table)' = Present(table) \cup {d}
      BY <1>1, <1>3, <1>6
    <2>2. d \notin Present(table)
      BY <1>1 DEF Bounds, RowsMade
    <2>3. Present(table) \subseteq Ids
      BY DEF Present, PresentIn
    <2> QED
      BY <1>1, <1>6, <2>1, <2>2, <2>3
  <1>7. ASSUME Asks(d, DeleteOps), NEW i \in Ids, Drops(table, i)
        PROVE  kept
    <2>1. /\ \A j \in Ids : j # i => Stamp(table, j)' = Stamp(table, j)
          /\ Present(table)' = Present(table) \ {i}
      BY <1>1, <1>5, <1>7
    <2>2. Present(table) \subseteq Ids
      BY DEF Present, PresentIn
    <2> QED
      BY <1>7, <2>1, <2>2
  <1> DEFINE Created == \E t \in Tables : \E row \in Rows(t) :
                           Inserts(t, d, row) /\ (t \in ListTables => Asks(d, CreateOps))
             Altered == \E t \in Tables, i \in Ids : \E row \in Rows(t) : Updates(t, i, row)
             Removed == \E t \in Tables, i \in Ids : Drops(t, i) /\ (t \in ListTables => Asks(d, DeleteOps))
  <1>8. Same \/ Created \/ Altered \/ Removed
    <2> USE <1>1
    <2>1. CASE ServerWritten(d)
      <3>1. /\ At(d, "write") /\ Asks(d, {"createServer", "updateServer"})
            /\ Asks(d, {"createServer"}) \/ Op(d) # "createServer"
        BY <2>1 DEF ServerWritten, Asks, Op
      <3>2. /\ Named(d) \in Ids /\ ServerRow(d, Named(d)) \in Rows("servers") /\ "servers" \in Tables
            /\ Asks(d, {"createServer"}) => Named(d) = d /\ Asks(d, CreateOps)
        BY <3>1, RowsWritten DEF Rows, Tables, Asks, CreateOps
      <3> QED
        BY <2>1, <3>1, <3>2 DEF ServerWritten
    <2>2. CASE ResourceMade(d)
      <3>1. At(d, "write") /\ Asks(d, {"createResource"}) /\ Asks(d, CreateOps)
            /\ "resources" \in Tables /\ Rows("resources") = ResourceRows
        BY <2>2 DEF ResourceMade, Asks, CreateOps, Tables, Rows
      <3>2. \E row \in Rows("resources") : Inserts("resources", d, row)
        BY <2>2, <3>1, RowsWritten DEF ResourceMade
      <3> QED
        BY <3>1, <3>2
    <2>3. CASE ActionMade(d)
      <3>1. At(d, "write") /\ Asks(d, {"createAction"}) /\ Asks(d, CreateOps)
            /\ "actions" \in Tables /\ Rows("actions") = ActionRows
        BY <2>3 DEF ActionMade, Asks, CreateOps, Tables, Rows
      <3>2. \E row \in Rows("actions") : Inserts("actions", d, row)
        BY <2>3, <3>1, RowsWritten DEF ActionMade
      <3> QED
        BY <3>1, <3>2
    <2>4. CASE IdpWritten(d)
      <3>1. /\ At(d, "write") /\ Asks(d, {"createIdp", "updateIdp"})
            /\ Asks(d, {"createIdp", "createSender"}) \/ Op(d) # "createIdp"
        BY <2>4 DEF IdpWritten, Asks, Op
      <3>2. /\ Named(d) \in Ids /\ IdpRow(d, Named(d)) \in Rows("idps") /\ "idps" \in Tables \ ListTables
            /\ Asks(d, {"createIdp", "createSender"}) => Named(d) = d
        BY <3>1, RowsWritten DEF Rows, Tables, ListTables
      <3> QED
        BY <2>4, <3>1, <3>2 DEF IdpWritten
    <2>5. CASE SenderWritten(d)
      <3>1. /\ At(d, "write") /\ Asks(d, {"createSender", "updateSender"})
            /\ Asks(d, {"createIdp", "createSender"}) \/ Op(d) # "createSender"
        BY <2>5 DEF SenderWritten, Asks, Op
      <3>2. /\ Named(d) \in Ids /\ SenderRow(d, Named(d)) \in Rows("senders")
            /\ "senders" \in Tables \ ListTables
            /\ Asks(d, {"createIdp", "createSender"}) => Named(d) = d
        BY <3>1, RowsWritten DEF Rows, Tables, ListTables
      <3> QED
        BY <2>5, <3>1, <3>2 DEF SenderWritten
    <2>6. CASE BrandingWritten(d)
      <3>1. /\ At(d, "write") /\ Asks(d, {"createBranding", "updateBranding"})
            /\ Op(d) = "createBranding" => Asks(d, CreateOps)
            /\ Op(d) # "createBranding" => Asks(d, {"updateBranding"})
        BY <2>6 DEF BrandingWritten, Asks, Op, CreateOps
      <3>2. /\ [content |-> d] \in Rows("brandings") /\ "brandings" \in Tables
            /\ Asks(d, {"updateBranding"}) => call[d].req.branding \in Ids
        BY <3>1, RowsWritten DEF Rows, Tables
      <3> QED
        BY <2>6, <3>1, <3>2 DEF BrandingWritten
    <2>7. CASE AppWritten(d)
      <3>1. At(d, "write") /\ Asks(d, {"brandApp"}) /\ "apps" \in Tables /\ Rows("apps") = AppRows
        BY <2>7 DEF AppWritten, Tables, Rows
      <3>2. call[d].req.app \in Ids /\ [branding |-> call[d].req.branding] \in Rows("apps")
        BY <3>1, RowsWritten
      <3> QED
        BY <2>7, <3>1, <3>2 DEF AppWritten
    <2>8. CASE \E t \in Tables \ {"apps"}, i \in Ids : Removes(d, t, i)
      BY <2>8 DEF Removes, ListTables
    <2> QED
      BY <2>1, <2>2, <2>3, <2>4, <2>5, <2>6, <2>7, <2>8 DEF Changed
  <1>9. Same => quiet
    BY <1>1 DEF Same, Unstamped, Stamp, Present, PresentIn
  <1> HIDE DEF quiet, kept
  <1>10. ASSUME Created PROVE kept
    <2>1. PICK t \in Tables : \E row \in Rows(t) :
                 Inserts(t, d, row) /\ (t \in ListTables => Asks(d, CreateOps))
      BY <1>10
    <2>2. PICK row \in Rows(t) : Inserts(t, d, row) /\ (t \in ListTables => Asks(d, CreateOps))
      BY <2>1
    <2>3. CASE t = table
      <3>1. Asks(d, CreateOps) /\ row \in Rows(table) /\ Inserts(table, d, row)
        BY <2>2, <2>3
      <3> QED
        BY <1>6, <3>1
    <2>4. CASE t # table
      BY <1>2, <1>3, <2>2, <2>4
    <2> QED
      BY <2>3, <2>4
  <1>11. ASSUME Removed PROVE kept
    <2>1. PICK t \in Tables, i \in Ids : Drops(t, i) /\ (t \in ListTables => Asks(d, DeleteOps))
      BY <1>11
    <2>2. CASE t = table
      <3>1. Asks(d, DeleteOps) /\ Drops(table, i)
        BY <2>1, <2>2
      <3> QED
        BY <1>7, <3>1
    <2>3. CASE t # table
      BY <1>2, <1>5, <2>1, <2>3
    <2> QED
      BY <2>2, <2>3
  <1> QED
    BY <1>2, <1>4, <1>8, <1>9, <1>10, <1>11 DEF kept

\* The rows of a list stay in it, and nobody joins them, unless calls delete or create
\* rows; they keep their stamps.
LEMMA ListLasts ==
    ASSUME Bounds, NEW c \in Calls, Asks(c, {"list"}), NEW d \in Calls, Shape(d)
    PROVE  /\ \A i \in List(c)' : Made(i) => i \in List(c)
           /\ Asks(d, DeleteOps) \/ List(c) \subseteq List(c)'
           /\ Asks(d, CreateOps) \/ List(c)' \subseteq List(c)
           /\ \A i \in List(c) \cap List(c)' :
                 Stamp(call[c].req.table, i)' = Stamp(call[c].req.table, i)
           /\ IsFiniteSet(List(c)')
  <1> DEFINE req == call[c].req
             table == req.table
             In(i) == /\ table = "resources" =>
                            db.resources[i].server = req.server /\ db.resources[i].parent = req.above
                      /\ table = "actions" =>
                            db.actions[i].server = req.server /\ db.actions[i].resource = req.above
             InNext(i) == /\ table = "resources" =>
                            db'.resources[i].server = req.server /\ db'.resources[i].parent = req.above
                          /\ table = "actions" =>
                            db'.actions[i].server = req.server /\ db'.actions[i].resource = req.above
  <1>1. table \in ListTables /\ call'[c].req = call[c].req
    BY ListRows, Lasting DEF ListTables
  <1>2. \A i : i \in List(c) <=> i \in Present(table) /\ In(i)
    BY <1>1 DEF List, ServerList, BrandingList, ResourceList, ActionList, ListTables
  <1>3. \A i : i \in List(c)' <=> i \in Present(table)' /\ InNext(i)
    BY <1>1 DEF List, ServerList, BrandingList, ResourceList, ActionList, ListTables
  <1>4. /\ \A i \in Present(table)' :
              Made(i) => i \in Present(table) /\ Stamp(table, i)' = Stamp(table, i)
        /\ Asks(d, DeleteOps) \/ Present(table) \subseteq Present(table)'
        /\ Asks(d, CreateOps) \/ Present(table)' \subseteq Present(table)
        /\ \A i \in Present(table) \cap Present(table)' : Stamp(table, i)' = Stamp(table, i)
    <2>1. \A t \in ListTables :
             /\ \A i \in Present(t)' : Made(i) => i \in Present(t) /\ Stamp(t, i)' = Stamp(t, i)
             /\ Asks(d, DeleteOps) \/ Present(t) \subseteq Present(t)'
             /\ Asks(d, CreateOps) \/ Present(t)' \subseteq Present(t)
             /\ \A i \in Present(t) \cap Present(t)' : Stamp(t, i)' = Stamp(t, i)
      BY ListsChange
    <2> QED
      BY <1>1, <2>1 DEF Stamp
  <1>5. \A i \in Present(table)' : Made(i) => (In(i) <=> InNext(i))
    <2> SUFFICES ASSUME NEW i \in Present(table)', Made(i) PROVE In(i) <=> InNext(i)
      OBVIOUS
    <2>1. i \in Ids /\ db'[table][i] # None
      BY <1>1 DEF Present, PresentIn
    <2> QED
      BY <2>1, RowsKept
  <1>6. \A i \in Present(table) : Made(i)
    BY <1>1 DEF Bounds, RowsMade, ListTables, Tables
  <1>7. IsFiniteSet(List(c)')
    <2>1. IsFiniteSet(Present(table)')
      <3>1. \A t \in Tables : IsFiniteSet(Present(t)')
        BY TablesKept DEF RowsFinite
      <3> QED
        BY <1>1, <3>1 DEF ListTables, Tables
    <2> QED
      BY <1>3, <2>1, FS_Subset
  <1> HIDE DEF In, InNext, table
  <1>8. \A i \in List(c)' : Made(i) => i \in List(c)
    BY <1>2, <1>3, <1>4, <1>5
  <1>9. Asks(d, DeleteOps) \/ List(c) \subseteq List(c)'
    BY <1>2, <1>3, <1>4, <1>5, <1>6
  <1>10. Asks(d, CreateOps) \/ List(c)' \subseteq List(c)
    BY <1>2, <1>3, <1>4, <1>5, <1>6
  <1>11. \A i \in List(c) \cap List(c)' : Stamp(table, i)' = Stamp(table, i)
    BY <1>2, <1>3, <1>4
  <1> QED
    BY <1>7, <1>8, <1>9, <1>10, <1>11 DEF table

\* A row goes back only if calls delete, and on only if calls create.
LEMMA PlacesMove ==
    ASSUME Bounds, NEW c \in Calls, Asks(c, {"list"}), NEW d \in Calls, Shape(d),
           NEW i \in List(c), i \in List(c)'
    PROVE  /\ Place(c, i) \in Nat /\ Place(c, i)' \in Nat
           /\ Asks(d, DeleteOps) \/ Place(c, i) <= Place(c, i)'
           /\ Asks(d, CreateOps) \/ Place(c, i)' <= Place(c, i)
  <1> DEFINE table == call[c].req.table
             newer == {j \in List(c) : Stamp(table, j) > Stamp(table, i)}
             newerNext == {j \in List(c)' : Stamp(table, j)' > Stamp(table, i)'}
  <1>1. call'[c].req = call[c].req
    BY Lasting
  <1>2. Place(c, i) = Cardinality(newer)
    BY DEF Place, Stamp
  <1>3. Place(c, i)' = Cardinality(newerNext)
    BY <1>1 DEF Place, Stamp
  <1>4. /\ Asks(d, DeleteOps) \/ List(c) \subseteq List(c)'
        /\ Asks(d, CreateOps) \/ List(c)' \subseteq List(c)
        /\ \A j \in List(c) \cap List(c)' : Stamp(table, j)' = Stamp(table, j)
        /\ IsFiniteSet(List(c)) /\ IsFiniteSet(List(c)')
    BY ListLasts, ListRows
  <1>5. /\ Asks(d, DeleteOps) \/ newer \subseteq newerNext
        /\ Asks(d, CreateOps) \/ newerNext \subseteq newer
    BY <1>4
  <1>6. newer \subseteq List(c) /\ newerNext \subseteq List(c)'
    OBVIOUS
  <1> HIDE DEF newer, newerNext
  <1>7. IsFiniteSet(newer) /\ IsFiniteSet(newerNext)
    BY <1>4, <1>6, FS_Subset
  <1>8. Cardinality(newer) \in Nat /\ Cardinality(newerNext) \in Nat
    BY <1>7, FS_CardinalityType
  <1>9. /\ newer \subseteq newerNext => Cardinality(newer) <= Cardinality(newerNext)
        /\ newerNext \subseteq newer => Cardinality(newerNext) <= Cardinality(newer)
    BY <1>7, FS_Subset
  <1> QED
    BY <1>2, <1>3, <1>5, <1>8, <1>9

\* What has been collected, of a list whose rows are not moved the wrong way, by the
\* step of another call.
LEMMA OthersPages ==
    ASSUME Bounds, PagesInv, NEW d \in Calls, Shape(d), NEW c \in Calls \ {d}
    PROVE  PagesRule(c)'
  <1> DEFINE k == call[c]
             ops == IF k.req.forward THEN DeleteOps ELSE CreateOps
  <1>1. /\ call'[c] = k /\ (Running(c) => Overlap(c, d))
        /\ \A e \in Calls : call'[e].req = call[e].req
        /\ \A e, f \in Calls : Overlap(e, f) <=> Overlap(e, f)'
        /\ \A e \in Calls : \A those : Asks(e, those) <=> Asks(e, those)'
    BY Lasting
  <1>2. Moved(c) <=> Moved(c)'
    BY <1>1 DEF Moved
  <1> SUFFICES ASSUME Asks(c, {"list"}), ~k.slipped, ~Moved(c),
                      NEW i \in List(c)', i \in k.start
               PROVE  /\ k.pc = "ok" => i \in k.listed
                      /\ Running(c) /\ k.req.forward /\ Place(c, i)' < k.offset => i \in k.listed
                      /\ Running(c) /\ k.back /\ Place(c, i)' >= k.offset + k.req.limit => i \in k.listed
    <2>1. At(c, "ok")' <=> k.pc = "ok"
      BY <1>1 DEF At
    <2>2. Running(c)' <=> Running(c)
      BY <1>1 DEF Running, At, Ended
    <2>3. Asks(c, {"list"})' <=> Asks(c, {"list"})
      BY <1>1
    <2> QED
      BY <1>1, <1>2, <2>1, <2>2, <2>3 DEF PagesRule
  <1>3. i \in List(c)
    BY ListLasts DEF Bounds, HistoryKept
  <1>4. /\ k.pc = "ok" => i \in k.listed
        /\ Running(c) /\ k.req.forward /\ Place(c, i) < k.offset => i \in k.listed
        /\ Running(c) /\ k.back /\ Place(c, i) >= k.offset + k.req.limit => i \in k.listed
    BY <1>3 DEF PagesInv, PagesRule, At
  <1>5. /\ Place(c, i) \in Nat /\ Place(c, i)' \in Nat
        /\ Asks(d, DeleteOps) \/ Place(c, i) <= Place(c, i)'
        /\ Asks(d, CreateOps) \/ Place(c, i)' <= Place(c, i)
    BY <1>3, PlacesMove
  <1>6. Running(c) => ~Asks(d, ops)
    BY <1>1 DEF Moved
  <1>7. /\ k.offset \in Nat
        /\ Running(c) => k.req.limit \in Nat /\ (k.back => ~k.req.forward)
    BY ValuesAssumption DEF Bounds, CallsTyped, CallStates, ListCourse
  <1> QED
    BY <1>4, <1>5, <1>6, <1>7

\* By a step of its own.
LEMMA OwnPages ==
    ASSUME Bounds, PagesInv, NEW c \in Calls, Serves(c), Shape(c)
    PROVE  PagesRule(c)'
  <1> DEFINE k == call[c]
             n == call'[c]
  <1>1. /\ n.req = k.req /\ n.start = k.start /\ Running(c) /\ ~At(c, "idle")
        /\ \A e \in Calls : call'[e].req = call[e].req
        /\ \A e, f \in Calls : Overlap(e, f) <=> Overlap(e, f)'
        /\ \A e \in Calls : \A those : Asks(e, those) <=> Asks(e, those)'
    BY Lasting DEF Shape, Running
  <1>2. Moved(c) <=> Moved(c)'
    BY <1>1 DEF Moved
  <1> SUFFICES ASSUME Asks(c, {"list"}), ~n.slipped, ~Moved(c),
                      NEW i \in List(c)', i \in k.start
               PROVE  /\ n.pc = "ok" => i \in n.listed
                      /\ n.pc \notin Answers /\ k.req.forward /\ Place(c, i)' < n.offset => i \in n.listed
                      /\ n.pc \notin Answers /\ n.back /\ Place(c, i)' >= n.offset + k.req.limit
                            => i \in n.listed
    <2>1. At(c, "ok")' <=> n.pc = "ok"
      BY DEF At
    <2>2. Running(c)' => n.pc \notin Answers
      BY DEF Running, Ended
    <2>3. Asks(c, {"list"})' <=> Asks(c, {"list"})
      BY <1>1
    <2> QED
      BY <1>1, <1>2, <2>1, <2>2, <2>3 DEF PagesRule
  <1>3. i \in List(c)
    BY ListLasts DEF Bounds, HistoryKept
  <1>4. ~k.slipped =>
           /\ k.req.forward /\ Place(c, i) < k.offset => i \in k.listed
           /\ k.back /\ Place(c, i) >= k.offset + k.req.limit => i \in k.listed
    BY <1>1, <1>3 DEF PagesInv, PagesRule
  <1>5. /\ Place(c, i) \in Nat /\ Place(c, i) < Cardinality(List(c)) /\ Cardinality(List(c)) \in Nat
    BY <1>3, ListRows
  <1>6. /\ k.offset \in Nat /\ k.total \in Nat /\ k.req.limit \in Nat /\ k.req.limit # 0
        /\ k.back \in BOOLEAN
        /\ k.back => ~k.req.forward
        /\ ~k.back /\ ~k.req.forward => k.offset = 0
    BY <1>1, ValuesAssumption DEF Bounds, CallsTyped, CallStates, ListCourse
  <1>7. Same => Place(c, i)' = Place(c, i)
    <2> SUFFICES ASSUME Same PROVE Place(c, i)' = Place(c, i)
      OBVIOUS
    <2>1. List(c)' = List(c)
      <3>1. k.req.table \in {"servers", "resources", "actions", "brandings"}
        BY ListRows
      <3> QED
        BY <1>1, <3>1 DEF Same, Tables, List, ServerList, BrandingList, ResourceList, ActionList,
                          Present, PresentIn
    <2> QED
      BY <1>1, <2>1 DEF Place, Same, Unstamped
  <1>8. \/ Stops(c) /\ n.pc # "ok"
        \/ GoesOn(c)
        \/ /\ At(c, "count") /\ Same /\ n.pc = "page"
           /\ n.offset = k.offset /\ n.back = k.back /\ n.listed = k.listed /\ n.slipped = k.slipped
        \/ Same /\ PageRead(c)
    <2>1. Op(c) = "list"
      BY <1>1 DEF Asks, Op
    <2>2. Fails(c) => Stops(c) /\ n.pc # "ok"
      BY Failing, Ending DEF Bounds, Fails, Ends, Answers
    <2> QED
      BY <2>1, <2>2, Operations, ListSteps
  <1>9. CASE Stops(c) /\ n.pc # "ok"
    BY <1>9 DEF Stops, Ends
  <1>10. CASE \/ GoesOn(c)
              \/ /\ At(c, "count") /\ Same /\ n.pc = "page"
                 /\ n.offset = k.offset /\ n.back = k.back /\ n.listed = k.listed
                 /\ n.slipped = k.slipped
    <2>1. /\ Same /\ n.pc # "ok" /\ n.offset = k.offset /\ n.back = k.back /\ n.listed = k.listed
          /\ n.slipped = k.slipped
      BY <1>10 DEF GoesOn, Rest, Steps
    <2> QED
      BY <1>4, <1>7, <2>1
  <1>11. CASE Same /\ PageRead(c)
    <2> DEFINE last == ((k.total - 1) \div k.req.limit) * k.req.limit
               place == Place(c, i)
               seen == i \in k.listed \/ place \in k.offset .. k.offset + k.req.limit - 1
    <2>1. ~k.slipped /\ Cardinality(List(c)) = k.total /\ Place(c, i)' = place
      BY <1>7, <1>11 DEF PageRead
    <2>2. place \in Nat /\ place < k.total
      BY <1>5, <2>1
    <2>3. last \in Int /\ last + k.req.limit >= k.total
      BY <1>6, LastPage
    <2>4. \/ k.req.forward /\ (i \in n.listed <=> seen) /\ n.back = k.back
             /\ \/ k.offset + k.req.limit < k.total /\ n.offset = k.offset + k.req.limit /\ n.pc # "ok"
                \/ k.offset + k.req.limit >= k.total /\ n.pc = "ok"
          \/ ~k.req.forward /\ n.back /\ n.offset = last /\ n.pc # "ok"
          \/ ~k.req.forward /\ ~k.back /\ k.offset >= last /\ (i \in n.listed <=> seen)
             /\ n.pc = "ok"
          \/ ~k.req.forward /\ k.back /\ (i \in n.listed <=> seen) /\ n.back
             /\ \/ k.offset = 0 /\ n.pc = "ok"
                \/ k.offset > 0 /\ k.offset < k.req.limit /\ n.offset = 0 /\ n.pc # "ok"
                \/ k.offset >= k.req.limit /\ n.offset = k.offset - k.req.limit /\ n.pc # "ok"
      <3>1. FirstStep(k.req) # "ok"
        BY DEF FirstStep
      <3> QED
        BY <1>3, <1>11, <3>1 DEF PageRead
    <2>5. /\ k.req.forward /\ place < k.offset => i \in k.listed
          /\ k.back /\ place >= k.offset + k.req.limit => i \in k.listed
      BY <1>4, <2>1
    <2>6. "ok" \in Answers
      BY DEF Answers
    <2> HIDE DEF last, place, k, n
    <2> SUFFICES /\ n.pc = "ok" => i \in n.listed
                 /\ n.pc \notin Answers /\ k.req.forward /\ place < n.offset => i \in n.listed
                 /\ n.pc \notin Answers /\ n.back /\ place >= n.offset + k.req.limit => i \in n.listed
      BY <2>1 DEF k, n
    <2>7. CASE k.req.forward
      BY <1>6, <2>2, <2>4, <2>5, <2>6, <2>7 DEF k, n
    <2>8. CASE ~k.req.forward /\ n.back /\ n.offset = last /\ n.pc # "ok"
      BY <1>6, <2>2, <2>3, <2>8 DEF k, n
    <2>9. CASE ~k.req.forward /\ ~k.back /\ k.offset >= last /\ (i \in n.listed <=> seen) /\ n.pc = "ok"
      BY <1>6, <2>2, <2>3, <2>6, <2>9 DEF k, n
    <2>10. CASE /\ ~k.req.forward /\ k.back /\ (i \in n.listed <=> seen) /\ n.back
                /\ \/ k.offset = 0 /\ n.pc = "ok"
                   \/ k.offset > 0 /\ k.offset < k.req.limit /\ n.offset = 0 /\ n.pc # "ok"
                   \/ /\ k.offset >= k.req.limit /\ n.offset = k.offset - k.req.limit /\ n.pc # "ok"
      BY <1>6, <2>2, <2>5, <2>6, <2>10 DEF k, n
    <2> QED
      BY <2>4, <2>7, <2>8, <2>9, <2>10
  <1> QED
    BY <1>8, <1>9, <1>10, <1>11

\* A client that begins has collected nothing and walks from the first row.
LEMMA PagesAtBeginning ==
    ASSUME Bounds, PagesInv, NEW c \in Calls, NEW r \in Requests, Begin(c, r)
    PROVE  PagesInv'
  <1>1. /\ At(c, "idle") /\ db' = db
        /\ \A e \in Calls \ {c} : call'[e] = call[e]
        /\ <<r.op, call'[c].pc>> \in Beginnings(r) /\ call'[c].req = r
        /\ call'[c].before = {e \in Calls : Ended(e)}
        /\ call'[c].offset = 0 /\ call'[c].back = FALSE
    BY Beginning DEF Bounds
  <1>2. ASSUME NEW e \in Calls \ {c} PROVE PagesRule(e)'
    <2>1. /\ \A f \in Calls : Overlap(e, f) => Overlap(e, f)' /\ f # c
          /\ \A f \in Calls \ {c} : \A ops : Asks(f, ops) <=> Asks(f, ops)'
      BY <1>1 DEF Asks, At, Overlap
    <2>2. Moved(e) => Moved(e)'
      BY <1>1, <1>2, <2>1 DEF Moved
    <2>3. /\ call'[e] = call[e] /\ (Asks(e, {"list"})' <=> Asks(e, {"list"}))
          /\ (At(e, "ok")' <=> At(e, "ok")) /\ (Running(e)' <=> Running(e))
      BY <1>1, <1>2 DEF Asks, At, Running, Ended
    <2>4. List(e)' = List(e)
      BY <1>1, <2>3 DEF List, ServerList, BrandingList, ResourceList, ActionList, Present, PresentIn
    <2>5. \A i : Place(e, i)' = Place(e, i)
      BY <1>1, <2>3, <2>4 DEF Place
    <2> QED
      BY <2>2, <2>3, <2>4, <2>5 DEF PagesInv, PagesRule
  <1>3. PagesRule(c)'
    <2> SUFFICES ASSUME Asks(c, {"list"})', NEW i \in List(c)'
                 PROVE  ~At(c, "ok")' /\ ~(Place(c, i)' < 0)
      BY <1>1 DEF PagesRule
    <2>1. r.op = "list"
      BY <1>1 DEF Asks
    <2>2. r.table \in {"servers", "resources", "actions", "brandings"}
      BY <2>1, RequestsAssumption
    <2>3. List(c)' \subseteq Present(r.table)
      BY <1>1, <2>2 DEF List, ServerList, BrandingList, ResourceList, ActionList, Present, PresentIn
    <2>4. IsFiniteSet(List(c)')
      BY <2>2, <2>3, FS_Subset DEF Bounds, RowsFinite, Tables
    <2>5. Place(c, i)' \in Nat
      <3> DEFINE newer == {j \in List(c)' : db'.created[<<r.table, j>>] > db'.created[<<r.table, i>>]}
      <3>1. Place(c, i)' = Cardinality(newer)
        BY <1>1 DEF Place
      <3>2. IsFiniteSet(newer)
        BY <2>4, FS_Subset
      <3> QED
        BY <3>1, <3>2, FS_CardinalityType
    <2>6. call'[c].pc # "ok"
      BY <1>1, <2>1 DEF Beginnings
    <2> QED
      BY <2>5, <2>6 DEF At
  <1> QED
    BY <1>2, <1>3 DEF PagesInv

\* What has been collected is what the rule says, after every step.
LEMMA PagesNext ==
    ASSUME Bounds, PagesInv, [Next]_vars
    PROVE  PagesInv'
  <1>1. ASSUME NEW d \in Calls, Serves(d) PROVE PagesInv'
    <2>1. Shape(d)
      BY <1>1, Shapes
    <2>2. ASSUME NEW c \in Calls PROVE PagesRule(c)'
      <3>1. CASE c = d
        BY <1>1, <2>1, <3>1, OwnPages
      <3>2. CASE c # d
        BY <2>1, <2>2, <3>2, OthersPages
      <3> QED
        BY <3>1, <3>2
    <2> QED
      BY <2>2 DEF PagesInv
  <1>2. CASE UNCHANGED vars
    <2>1. db' = db /\ call' = call
      BY <1>2 DEF vars
    <2>2. ASSUME NEW c \in Calls PROVE PagesRule(c)'
      <3>1. /\ (Moved(c) <=> Moved(c)') /\ (Asks(c, {"list"}) <=> Asks(c, {"list"})')
            /\ (At(c, "ok") <=> At(c, "ok")') /\ (Running(c) <=> Running(c)')
        BY <2>1 DEF Moved, Overlap, Asks, At, Running, Ended
      <3>2. List(c)' = List(c)
        BY <2>1 DEF List, ServerList, BrandingList, ResourceList, ActionList, Present, PresentIn
      <3>3. \A i : Place(c, i)' = Place(c, i)
        BY <2>1, <3>2 DEF Place
      <3> QED
        BY <2>1, <2>2, <3>1, <3>2, <3>3 DEF PagesInv, PagesRule
    <2> QED
      BY <2>2 DEF PagesInv
  <1> QED
    BY <1>1, <1>2, PagesAtBeginning DEF Next, Serves

\* A client that walks through a list sees every row that was there all along, unless
\* the rows moved the wrong way meanwhile: the links that buildPaginationLinks gives
\* lead through the whole list (with or without foreign keys).
THEOREM PagesAlwaysCoverTable == Spec => []PagesCoverTable
  <1>1. Init => PagesInv
    <2> SUFFICES ASSUME Init PROVE PagesInv
      OBVIOUS
    <2>1. \A c \in Calls : ~Asks(c, {"list"})
      BY DEF Init, Idle, Asks, At
    <2> QED
      BY <2>1 DEF PagesInv, PagesRule
  <1>2. Bounds /\ PagesInv /\ [Next]_vars => PagesInv'
    BY PagesNext
  <1>3. PagesInv => PagesCoverTable
    <2> SUFFICES ASSUME PagesInv, NEW c \in Calls, At(c, "ok"), Asks(c, {"list"}),
                        ~call[c].slipped, ~Moved(c)
                 PROVE  List(c) \cap call[c].start \subseteq call[c].listed
      BY DEF PagesCoverTable, Moved
    <2> QED
      BY DEF PagesInv, PagesRule
  <1> QED
    BY <1>1, <1>2, <1>3, BoundsHold, PTL DEF Spec

-----------------------------------------------------------------------------
(* Profiles.                                                               *)

UserOps == {"createUser", "updateUser"}

\* The user that a call writes, of its own or the one that it updates.
UserOf(c) == IF Op(c) = "createUser" THEN c ELSE call[c].req.user

\* The definition was set before call c began.
Ruled(c) == db.type.by \in Seeds \cup call[c].before

\* User w has the value that attributes have at a path.
Shared(attrs, w, path) ==
    /\ ValueAt(attrs, path).kind \in {"string", "number"}
    /\ ValueAt(attrs, path) = ValueAt(db.users[w].attrs, path)

\* Since c looked its unique values up, only calls that it meets have given them to users.
Distinct(c) ==
    \A w \in Users, path \in UniquePaths(db.type.definition) :
        Shared(call[c].req.attrs, w, path) =>
            db.users[w].by \in Calls /\ Overlap(c, db.users[w].by)

ProfileCourse(c) ==
    /\ Asks(c, UserOps) /\ Ruled(c) =>
          /\ call[c].pc \in {"unique", "write"} =>
                Validate(db.type.definition, call[c].req.attrs)
          /\ At(c, "write") => Distinct(c)
    /\ Asks(c, {"defineType"}) /\ At(c, "write") => CompilesSchema(call[c].req.definition)

\* A user is as the call that wrote it asked for, and has its values in the index.
UserRule(u) ==
    LET row == db.users[u]
    IN  /\ row.attrs \in UsedAttributes
        /\ row.by \in Calls => Asks(row.by, UserOps)
        /\ Entries(u, row.attrs) \subseteq db.index

ProfileFits(u) ==
    LET row == db.users[u]
    IN  row.by \in Calls /\ Governed(row) => Fits(db.type.definition, row.attrs)

ProfileApart(u, w) ==
    LET row == db.users[u]
        other == db.users[w]
    IN  row.by \in Calls /\ Governed(row) /\ Governed(other) =>
            \A path \in UniquePaths(db.type.definition) : Shared(row.attrs, w, path) =>
                other.by \in Calls /\ Overlap(row.by, other.by)

UsersInv == \A u \in Users : UserRule(u) /\ ProfileFits(u) /\ \A w \in Users \ {u} : ProfileApart(u, w)

ProfilesInv ==
    /\ DOMAIN db.users = Ids
    /\ db.type.definition \in UsedDefinitions
    /\ UsersInv
    /\ \A c \in Calls : ProfileCourse(c)

-----------------------------------------------------------------------------
(* What a step leaves of the users.                                        *)

UsersKept == db'.users = db.users /\ db'.index = db.index /\ db'.type = db.type

UserWritten(u, row, entries) ==
    /\ u \in Ids
    /\ db'.users = [db.users EXCEPT ![u] = row]
    /\ db'.index = {e \in db.index : e[1] # u} \cup entries
    /\ db'.type = db.type

UserStored(c) ==
    LET attrs == call[c].req.attrs
    IN  /\ At(c, "write") /\ Asks(c, UserOps) /\ Ended(c)'
        /\ UserWritten(UserOf(c), [attrs |-> attrs, by |-> c], Entries(UserOf(c), attrs))

UserRemoved(c) ==
    /\ At(c, "write") /\ Asks(c, {"deleteUser"})
    /\ UserWritten(call[c].req.user, None, {})

TypeDefined(c) ==
    /\ At(c, "write") /\ Asks(c, {"defineType"}) /\ Ended(c)'
    /\ db'.users = db.users /\ db'.index = db.index
    /\ db'.type = [definition |-> call[c].req.definition, by |-> c]

\* The other services write to other tables.
LEMMA OthersLeaveUsers ==
    ASSUME TablesTyped, NEW c \in Calls, ResourceService(c) \/ RegistryService(c)
    PROVE  UsersKept /\ ~Asks(c, ProfileOps)
  <1>1. ASSUME NEW table \in Tables, NEW i, NEW row
        PROVE  /\ db' = With(table, i, row) => UsersKept
               /\ db' = Replaced(table, i, row) => UsersKept
               /\ db' = Without(table, i) => UsersKept
    <2>1. /\ \A f \in {"users", "index", "type"} :
                f \in DOMAIN db /\ f # table /\ f # "created" /\ f # "clock"
          /\ table \in DOMAIN db /\ "created" \in DOMAIN db /\ "clock" \in DOMAIN db
      BY DEF TablesTyped, Tables
    <2> QED
      BY <2>1 DEF With, Replaced, Without, UsersKept
  <1>2. db' = db => UsersKept
    BY DEF UsersKept
  <1>3. \A unique, referenced, new : Write(c, unique, referenced, new) => db' = new \/ db' = db
    BY DEF Write
  <1>4. GetServer(c) \/ OrganizationUnit(c) \/ ServerName(c) \/ ServerIdentifier(c) \/ GetAbove(c)
        \/ GetResource(c) \/ GetAction(c) \/ CheckHandle(c) \/ CheckDependencies(c)
        \/ Count(c) \/ Page(c, FirstStep(call[c].req))
        => db' = db
    BY DEF GetServer, OrganizationUnit, ServerName, ServerIdentifier, GetAbove, GetResource, GetAction,
           CheckHandle, CheckDependencies, Count, Page, Check
  <1>5. IdpByID(c) \/ IdpByName(c) \/ SenderByID(c) \/ SenderByName(c) \/ BrandingExists(c)
        \/ BrandingInUse(c) \/ GetApplication(c) \/ GetBranding(c)
        => db' = db
    BY DEF IdpByID, IdpByName, SenderByID, SenderByName, BrandingExists, BrandingInUse,
           GetApplication, GetBranding, Check
  <1>6. InsertServer(c) \/ StoreServer(c) \/ RemoveServer(c) => UsersKept
    BY <1>1, <1>2, <1>3 DEF InsertServer, StoreServer, RemoveServer, Tables
  <1>7. InsertResource(c) \/ StoreResource(c) \/ RemoveResource(c) => UsersKept
    BY <1>1, <1>2, <1>3 DEF InsertResource, StoreResource, RemoveResource, Tables
  <1>8. InsertAction(c) \/ StoreAction(c) \/ RemoveAction(c) => UsersKept
    BY <1>1, <1>2, <1>3 DEF InsertAction, StoreAction, RemoveAction, Tables
  <1>9. InsertIdp(c) \/ StoreIdp(c) \/ RemoveIdp(c) => UsersKept
    BY <1>1, <1>2, <1>3 DEF InsertIdp, StoreIdp, RemoveIdp, Tables
  <1>10. InsertSender(c) \/ StoreSender(c) \/ RemoveSender(c) => UsersKept
    BY <1>1, <1>2, <1>3 DEF InsertSender, StoreSender, RemoveSender, Tables
  <1>11. InsertBranding(c) \/ StoreBranding(c) \/ RemoveBranding(c) \/ StoreApplication(c) => UsersKept
    BY <1>1, <1>2, <1>3 DEF InsertBranding, StoreBranding, RemoveBranding, StoreApplication, Tables
  <1>12. CASE ResourceService(c)
    <2>1. UsersKept
      BY <1>2, <1>4, <1>6, <1>7, <1>8, <1>12
         DEF ResourceService, CreateResourceServer, UpdateResourceServer, DeleteResourceServer,
             GetResourceServer, CreateResource, UpdateResource, DeleteResource, ReadResource,
             CreateAction, UpdateAction, DeleteAction, ReadAction, ReadList
    <2>2. ~Asks(c, ProfileOps)
      BY <1>12
         DEF ResourceService, CreateResourceServer, UpdateResourceServer, DeleteResourceServer,
             GetResourceServer, CreateResource, UpdateResource, DeleteResource, ReadResource,
             CreateAction, UpdateAction, DeleteAction, ReadAction, ReadList, Asks, ProfileOps
    <2> QED
      BY <2>1, <2>2
  <1>13. CASE RegistryService(c)
    <2>1. UsersKept
      BY <1>2, <1>5, <1>9, <1>10, <1>11, <1>13
         DEF RegistryService, CreateIdentityProvider, UpdateIdentityProvider, DeleteIdentityProvider,
             GetIdentityProvider, CreateSender, UpdateSender, DeleteSender, CreateBranding,
             UpdateBranding, DeleteBranding, BrandApplication, ResolveBranding
    <2>2. ~Asks(c, ProfileOps)
      BY <1>13
         DEF RegistryService, CreateIdentityProvider, UpdateIdentityProvider, DeleteIdentityProvider,
             GetIdentityProvider, CreateSender, UpdateSender, DeleteSender, CreateBranding,
             UpdateBranding, DeleteBranding, BrandApplication, ResolveBranding, Asks, ProfileOps
    <2> QED
      BY <2>1, <2>2
  <1> QED
    BY <1>12, <1>13

\* A step as users see it.
UsersShape(c) ==
    \/ UsersKept /\ (Ended(c)' \/ ~Asks(c, ProfileOps))
    \/ /\ UsersKept /\ Asks(c, UserOps) /\ call'[c].pc = "unique"
       /\ Validate(db.type.definition, call[c].req.attrs)
    \/ /\ UsersKept /\ Asks(c, UserOps) /\ At(c, "unique") /\ call'[c].pc = "write"
       /\ Refusals(db.type.definition, call[c].req.attrs) = {}
    \/ UserStored(c) \/ UserRemoved(c) \/ TypeDefined(c)

\* The operations on users and on their type.
LEMMA UserSteps ==
    ASSUME Bounds, NEW c \in Calls, Serves(c)
    PROVE  UsersShape(c)
  <1>1. CallsTyped /\ TablesTyped
    BY DEF Bounds
  <1>2. \A a \in Answers : Answer(c, a) => Ended(c)'
    BY <1>1, Ending DEF Ends, Ended
  <1>3. \A step \in Steps : Goto(c, step) => call'[c].pc = step
    BY <1>1, Going DEF Goes
  <1>4. db' = db => UsersKept
    BY DEF UsersKept
  <1>5. CASE Fails(c)
    BY <1>2, <1>4, <1>5 DEF Fails, UsersShape, Answers
  <1>6. CASE ResourceService(c) \/ RegistryService(c)
    BY <1>1, <1>6, OthersLeaveUsers DEF UsersShape
  <1>7. CASE ProfileService(c)
    <2>1. ASSUME NEW new, At(c, "write"), Write(c, TRUE, TRUE, new) PROVE db' = new /\ Ended(c)'
      BY <1>2, <2>1, ForeignKeysAssumption DEF Write, Answers
    <2>2. ASSUME NEW u \in Ids, NEW row, NEW entries, db' = WithUser(u, row, entries)
          PROVE  UserWritten(u, row, entries)
      <3>1. "users" \in DOMAIN db /\ "index" \in DOMAIN db /\ "type" \in DOMAIN db
        BY <1>1 DEF TablesTyped
      <3> QED
        BY <2>2, <3>1 DEF WithUser, UserWritten
    <2>3. c \in Ids /\ call[c].req \in Requests
      BY <1>7, CallFacts DEF ProfileService, CreateUser, UpdateUser, DeleteUser, UpdateUserSchema, Asks
    <2>4. ASSUME ValidateUser(c), Asks(c, UserOps) PROVE UsersShape(c)
      BY <1>2, <1>3, <1>4, <2>4 DEF ValidateUser, Check, UsersShape, Steps, Answers
    <2>5. ASSUME ValidateUserUniqueness(c), Asks(c, UserOps) PROVE UsersShape(c)
      <3>1. At(c, "unique") /\ UsersKept
        BY <1>4, <2>5 DEF ValidateUserUniqueness
      <3>2. \A a \in Refusals(db.type.definition, call[c].req.attrs) : a \in Answers
        BY DEF Refusals, LeafUnique, Answers
      <3>3. CASE Refusals(db.type.definition, call[c].req.attrs) = {}
        BY <1>3, <2>5, <3>1, <3>3 DEF ValidateUserUniqueness, UsersShape, Steps
      <3>4. CASE Refusals(db.type.definition, call[c].req.attrs) # {}
        BY <1>2, <2>5, <3>1, <3>2, <3>4 DEF ValidateUserUniqueness, UsersShape
      <3> QED
        BY <3>3, <3>4
    <2>6. ASSUME NEW u \in Ids, u = UserOf(c), At(c, "write"), Asks(c, UserOps), StoreUser(c, u)
          PROVE  UsersShape(c)
      BY <2>1, <2>2, <2>6 DEF StoreUser, UserStored, UsersShape
    <2>7. CASE CreateUser(c)
      <3>1. Asks(c, UserOps) /\ UserOf(c) = c
        BY <2>7 DEF CreateUser, Asks, UserOps, UserOf, Op
      <3> QED
        BY <2>3, <2>4, <2>5, <2>6, <2>7, <3>1 DEF CreateUser
    <2>8. CASE UpdateUser(c)
      <3>1. Asks(c, UserOps) /\ UserOf(c) = call[c].req.user /\ call[c].req.user \in Ids
        BY <2>3, <2>8, RequestsAssumption DEF UpdateUser, Asks, UserOps, UserOf, Op
      <3>2. Answer(c, "notFound") /\ UNCHANGED db => UsersShape(c)
        BY <1>2, <1>4 DEF UsersShape, Answers
      <3> QED
        BY <2>4, <2>5, <2>6, <2>8, <3>1, <3>2 DEF UpdateUser
    <2>9. CASE DeleteUser(c)
      <3>1. call[c].req.user \in Ids
        BY <2>3, <2>9, RequestsAssumption DEF DeleteUser, Asks
      <3> QED
        BY <2>1, <2>2, <2>9, <3>1 DEF DeleteUser, UserRemoved, UsersShape
    <2>10. CASE UpdateUserSchema(c)
      <3>1. "type" \in DOMAIN db /\ "users" \in DOMAIN db /\ "index" \in DOMAIN db
        BY <1>1 DEF TablesTyped
      <3>2. db' = [db EXCEPT !.type = [definition |-> call[c].req.definition, by |-> c]] /\ Ended(c)'
        BY <2>1, <2>10 DEF UpdateUserSchema
      <3> QED
        BY <2>10, <3>1, <3>2 DEF UpdateUserSchema, TypeDefined, UsersShape
    <2> QED
      BY <1>7, <2>7, <2>8, <2>9, <2>10 DEF ProfileService
  <1> QED
    BY <1>5, <1>6, <1>7 DEF Serves

\* The value of an attribute is found at the path of its name.
LEMMA ValueAtName ==
    ASSUME NEW attrs, NEW n
    PROVE  ValueAt(attrs, <<n>>) =
             IF attrs.kind = "object" /\ n \in DOMAIN attrs.of THEN attrs.of[n] ELSE Absent
  <1> DEFINE there == IF attrs.kind = "object" /\ n \in DOMAIN attrs.of THEN attrs.of[n] ELSE Absent
             value(f, s) ==
                IF s = {} THEN attrs
                ELSE LET x == CHOOSE y \in s : \A z \in s : y >= z
                     IN  IF f[s \ {x}].kind = "object" /\ <<n>>[x] \in DOMAIN f[s \ {x}].of
                         THEN f[s \ {x}].of[<<n>>[x]] ELSE Absent
             iterate(f) == [s \in SUBSET {1} |-> value(f, s)]
             sol == [s \in SUBSET {1} |-> IF s = {} THEN attrs ELSE there]
             it == CHOOSE f : f = iterate(f)
  <1>1. DOMAIN <<n>> = {1} /\ <<n>>[1] = n
    OBVIOUS
  <1>2. ValueAt(attrs, <<n>>) = it[{1}]
    BY <1>1 DEF ValueAt, FoldLeft, MapThenFoldSet, Max
  <1>3. \A s \in SUBSET {1} : s = {} \/ s = {1}
    OBVIOUS
  <1>4. (CHOOSE y \in {1} : \A z \in {1} : y >= z) = 1
    OBVIOUS
  <1>5. sol = iterate(sol)
    <2>1. ASSUME NEW s \in SUBSET {1} PROVE sol[s] = iterate(sol)[s]
      <3>1. CASE s = {}
        BY <3>1
      <3>2. CASE s = {1}
        <4>1. {1} \ {1} = {} /\ {} \in SUBSET {1} /\ {1} \in SUBSET {1} /\ {1} # {}
          OBVIOUS
        <4>2. sol[{}] = attrs /\ sol[{1}] = there
          BY <4>1
        <4> HIDE DEF sol
        <4> QED
          BY <1>1, <1>4, <3>2, <4>1, <4>2
      <3> QED
        BY <1>3, <2>1, <3>1, <3>2
    <2>2. iterate(sol) = [s \in SUBSET {1} |-> iterate(sol)[s]]
      <3> HIDE DEF value
      <3> QED
        OBVIOUS
    <2>3. sol = [s \in SUBSET {1} |-> sol[s]]
      OBVIOUS
    <2> HIDE DEF sol, iterate
    <2> QED
      BY <2>1, <2>2, <2>3, Zenon
  <1>6. it = iterate(it)
    <2> HIDE DEF sol, iterate
    <2> QED
      BY <1>5
  <1>7. {1} \in SUBSET {1} /\ {} \in SUBSET {1} /\ {1} \ {1} = {} /\ {1} # {}
    OBVIOUS
  <1>8. it[{}] = attrs
    BY <1>6, <1>7
  <1>9. it[{1}] = there
    <2>1. iterate(it)[{1}] = there
      <3> HIDE DEF it
      <3> QED
        BY <1>1, <1>4, <1>7, <1>8
    <2> HIDE DEF it, iterate
    <2> QED
      BY <1>6, <2>1
  <1> QED
    BY <1>2, <1>9 DEF it

-----------------------------------------------------------------------------
(* Values that are looked up.                                              *)

\* The premise: validation tells, at every depth, of what there may be.
Telling ==
    \A definition \in UsedDefinitions, attrs \in UsedAttributes : ValidationTells(definition, attrs)

LEMMA OneElement ==
    ASSUME NEW S, NEW p \in Seq(S), Len(p) = 1
    PROVE  p = <<p[1]>>
  OBVIOUS

\* Whoever has a value that is unique is found by the lookups for it.
LEMMA UniqueFound ==
    ASSUME NEW definition, NEW attrs, ValidationTells(definition, attrs), Validate(definition, attrs),
           Refusals(definition, attrs) = {},
           NEW w \in Users, UserRule(w), NEW path \in UniquePaths(definition)
    PROVE  ~Shared(attrs, w, path)
  <1> SUFFICES ASSUME Shared(attrs, w, path) PROVE FALSE
    OBVIOUS
  <1> DEFINE v == ValueAt(attrs, path)
             other == db.users[w].attrs
  <1>1. v.kind \in {"string", "number"} /\ v = ValueAt(other, path)
    BY DEF Shared
  <1>2. /\ path \in Seq(STRING) /\ ~Lacks(v, "text")
        /\ \E l \in LookupsOf(definition, attrs) :
              l[1].type # "object" /\ Flag(l[1], "unique") /\ l[2] = v /\ l[3] = path
    BY <1>1 DEF ValidationTells
  <1> HIDE DEF v
  <1>3. IdentifyUser(path, v) = {}
    <2>1. PICK l \in LookupsOf(definition, attrs) :
             l[1].type # "object" /\ Flag(l[1], "unique") /\ l[2] = v /\ l[3] = path
      BY <1>2
    <2>2. LeafUnique(l[1], v, path) \subseteq Refusals(definition, attrs)
      BY <2>1 DEF Refusals
    <2> QED
      BY <2>1, <2>2 DEF LeafUnique
  <1>4. CASE Len(path) = 1 /\ path[1] \in Indexed
    <2>1. path = <<path[1]>>
      BY <1>2, <1>4, OneElement
    <2>2. v = IF other.kind = "object" /\ path[1] \in DOMAIN other.of THEN other.of[path[1]] ELSE Absent
      <3>1. ValueAt(other, path) = ValueAt(other, <<path[1]>>)
        BY <2>1
      <3> HIDE DEF other
      <3> QED
        BY <1>1, <3>1, ValueAtName
    <2>3. Absent.kind = "absent"
      BY DEF Absent
    <2>4. other.kind = "object" /\ path[1] \in DOMAIN other.of /\ v = other.of[path[1]]
      BY <1>1, <2>2, <2>3
    <2>5. <<w, path[1], v.text>> \in Entries(w, other)
      BY <1>1, <1>4, <2>4 DEF Entries
    <2>6. w \in FoundByIndex(path[1], v.text)
      BY <2>5 DEF UserRule, FoundByIndex
    <2> QED
      BY <1>2, <1>3, <1>4, <2>6 DEF IdentifyUser
  <1>5. CASE ~(Len(path) = 1 /\ path[1] \in Indexed)
    <2>1. w \in FoundInJSON(path, v)
      BY <1>1 DEF FoundInJSON
    <2> QED
      BY <1>2, <1>3, <1>5, <2>1 DEF IdentifyUser
  <1> QED
    BY <1>4, <1>5

-----------------------------------------------------------------------------
(* The steps.                                                              *)

\* Users after a step: those that were there, or the one that d has stored.
LEMMA UsersChange ==
    ASSUME Bounds, ProfilesInv, NEW d \in Calls, UsersShape(d)
    PROVE  /\ DOMAIN db'.users = Ids
           /\ \A u \in Users' :
                 \/ /\ u \in Users /\ db'.users[u] = db.users[u]
                    /\ \A e \in db.index : e[1] = u => e \in db'.index
                 \/ /\ UserStored(d) /\ u = UserOf(d)
                    /\ db'.users[u] = [attrs |-> call[d].req.attrs, by |-> d]
                    /\ Entries(u, call[d].req.attrs) \subseteq db'.index
           /\ db'.type = db.type \/ TypeDefined(d)
  <1>1. DOMAIN db.users = Ids
    BY DEF ProfilesInv
  <1>2. CASE UsersKept \/ TypeDefined(d)
    BY <1>1, <1>2 DEF UsersKept, TypeDefined, Users
  <1>3. ASSUME NEW u \in Ids, NEW row, NEW entries, UserWritten(u, row, entries)
        PROVE  /\ DOMAIN db'.users = Ids /\ db'.type = db.type
               /\ db'.users[u] = row /\ entries \subseteq db'.index
               /\ \A w \in Ids \ {u} : /\ db'.users[w] = db.users[w]
                                       /\ \A e \in db.index : e[1] = w => e \in db'.index
    BY <1>1, <1>3 DEF UserWritten
  <1>4. CASE UserStored(d)
    <2>1. UserOf(d) \in Ids
      BY <1>4 DEF UserStored, UserWritten
    <2> QED
      BY <1>3, <1>4, <2>1 DEF UserStored, Users
  <1>5. CASE UserRemoved(d)
    <2>1. call[d].req.user \in Ids
      BY <1>5 DEF UserRemoved, UserWritten
    <2> QED
      BY <1>3, <1>5, <2>1 DEF UserRemoved, Users
  <1> QED
    BY <1>2, <1>4, <1>5 DEF UsersShape

\* Once a definition is replaced, it rules no call that has begun, and governs nobody.
LEMMA RuledStep ==
    ASSUME Bounds, NEW d \in Calls, Shape(d), UsersShape(d), db'.type = db.type \/ TypeDefined(d)
    PROVE  /\ \A c \in Calls : Ruled(c)' => Ruled(c) /\ db'.type = db.type
           /\ \A row : Governed(row)' => Governed(row) /\ db'.type = db.type
  <1>1. \A c \in Calls : call'[c].before = call[c].before
    BY Lasting
  <1>2. ASSUME TypeDefined(d) PROVE db'.type.by \notin Seeds /\ \A c \in Calls : db'.type.by \notin call[c].before
    <2>1. db'.type.by = d /\ d \notin Seeds /\ ~Ended(d)
      BY <1>2, IdsAssumption DEF TypeDefined, Shape, Running
    <2> QED
      BY <2>1 DEF Bounds, HistoryKept
  <1> QED
    BY <1>1, <1>2 DEF Ruled, Governed

\* Users are as they were asked for, and the definition is one there may be.
LEMMA UserRulesStep ==
    ASSUME Bounds, ProfilesInv, NEW d \in Calls, Shape(d), UsersShape(d)
    PROVE  /\ \A u \in Users' : UserRule(u)'
           /\ db'.type.definition \in UsedDefinitions
  <1>1. \A c \in Calls : \A ops : Asks(c, ops) => Asks(c, ops)'
    BY Lasting
  <1>2. call[d].req \in Requests
    BY DEF Bounds, HistoryKept, Shape, Running
  <1>3. ASSUME NEW u \in Users' PROVE UserRule(u)'
    <2>1. CASE /\ u \in Users /\ db'.users[u] = db.users[u]
               /\ \A e \in db.index : e[1] = u => e \in db'.index
      <3>1. UserRule(u)
        BY <2>1 DEF ProfilesInv, UsersInv
      <3>2. \A e \in Entries(u, db.users[u].attrs) : e[1] = u
        BY DEF Entries
      <3> QED
        BY <1>1, <2>1, <3>1, <3>2 DEF UserRule
    <2>2. CASE /\ UserStored(d)
               /\ db'.users[u] = [attrs |-> call[d].req.attrs, by |-> d]
               /\ Entries(u, call[d].req.attrs) \subseteq db'.index
      <3>1. Asks(d, UserOps) /\ call[d].req.op \in {"createUser", "updateUser"}
        BY <2>2 DEF UserStored, Asks, UserOps
      <3>2. call[d].req.attrs \in UsedAttributes
        BY <1>2, <3>1 DEF UsedAttributes
      <3> QED
        BY <1>1, <2>2, <3>1, <3>2 DEF UserRule
    <2> QED
      BY <1>3, <2>1, <2>2, UsersChange
  <1>4. CASE TypeDefined(d)
    <2>1. call[d].req.op = "defineType" /\ CompilesSchema(call[d].req.definition)
      BY <1>4 DEF TypeDefined, ProfilesInv, ProfileCourse, Asks
    <2> QED
      BY <1>2, <1>3, <1>4, <2>1 DEF TypeDefined, UsedDefinitions
  <1> QED
    BY <1>3, <1>4, UsersChange DEF ProfilesInv

\* What a call knows of its values, after a step of another.
LEMMA OthersProfiles ==
    ASSUME Bounds, ProfilesInv, NEW d \in Calls, Shape(d), UsersShape(d), NEW c \in Calls \ {d}
    PROVE  ProfileCourse(c)'
  <1>1. /\ call'[c] = call[c]
        /\ \A ops : Asks(c, ops)' <=> Asks(c, ops)
        /\ \A e \in Calls : Overlap(c, e) => Overlap(c, e)'
        /\ Running(c) => Overlap(c, d)
    BY Lasting
  <1>2. /\ Ruled(c)' => Ruled(c) /\ db'.type = db.type
    BY UsersChange, RuledStep
  <1>3. \A step : At(c, step)' <=> At(c, step)
    BY <1>1 DEF At
  <1>4. At(c, "write") => Running(c)
    BY OnTheWay DEF Steps
  <1>5. ASSUME Distinct(c), db'.type = db.type, At(c, "write") PROVE Distinct(c)'
    <2> SUFFICES ASSUME NEW w \in Users', NEW path \in UniquePaths(db.type.definition),
                        Shared(call[c].req.attrs, w, path)'
                 PROVE  db'.users[w].by \in Calls /\ Overlap(c, db.users[w].by)'
      BY <1>1, <1>5 DEF Distinct, Shared
    <2>1. CASE w \in Users /\ db'.users[w] = db.users[w]
      <3>1. Shared(call[c].req.attrs, w, path)
        BY <1>1, <2>1 DEF Shared
      <3> QED
        BY <1>1, <1>5, <2>1, <3>1 DEF Distinct
    <2>2. CASE db'.users[w] = [attrs |-> call[d].req.attrs, by |-> d]
      BY <1>1, <1>4, <1>5, <2>2
    <2> QED
      BY <2>1, <2>2, UsersChange
  <1>6. ProfileCourse(c)
    BY DEF ProfilesInv
  <1>7. ASSUME Asks(c, UserOps)', Ruled(c)'
        PROVE  /\ call'[c].pc \in {"unique", "write"} =>
                      Validate(db'.type.definition, call'[c].req.attrs)
               /\ At(c, "write")' => Distinct(c)'
    BY <1>1, <1>2, <1>3, <1>5, <1>6, <1>7 DEF ProfileCourse
  <1>8. Asks(c, {"defineType"})' /\ At(c, "write")' => CompilesSchema(call'[c].req.definition)
    BY <1>1, <1>3, <1>6 DEF ProfileCourse
  <1> QED
    BY <1>7, <1>8 DEF ProfileCourse

\* What a call knows of its values once it has checked them itself.
LEMMA OwnProfiles ==
    ASSUME Telling, Bounds, ProfilesInv, NEW c \in Calls, Shape(c), UsersShape(c)
    PROVE  ProfileCourse(c)'
  <1>1. call'[c].req = call[c].req /\ \A ops : Asks(c, ops)' <=> Asks(c, ops)
    BY Lasting
  <1>2. Ruled(c)' => Ruled(c) /\ db'.type = db.type
    BY UsersChange, RuledStep
  <1>3. CASE Ended(c)'
    BY <1>3 DEF ProfileCourse, Ended, At, Answers
  <1>4. CASE ~Asks(c, ProfileOps)
    <2>1. ~Asks(c, UserOps)' /\ ~Asks(c, {"defineType"})'
      BY <1>1, <1>4 DEF Asks, UserOps, ProfileOps
    <2> QED
      BY <2>1 DEF ProfileCourse
  <1>5. CASE UserRemoved(c)
    <2>1. ~Asks(c, UserOps)' /\ ~Asks(c, {"defineType"})'
      BY <1>1, <1>5 DEF UserRemoved, Asks, UserOps
    <2> QED
      BY <2>1 DEF ProfileCourse
  <1>6. CASE /\ UsersKept /\ Asks(c, UserOps) /\ call'[c].pc = "unique"
             /\ Validate(db.type.definition, call[c].req.attrs)
    BY <1>1, <1>6 DEF ProfileCourse, UsersKept, At
  <1>7. CASE /\ UsersKept /\ Asks(c, UserOps) /\ At(c, "unique") /\ call'[c].pc = "write"
             /\ Refusals(db.type.definition, call[c].req.attrs) = {}
    <2>1. ~Asks(c, {"defineType"})'
      BY <1>1, <1>7 DEF Asks, UserOps
    <2> SUFFICES ASSUME Ruled(c)
                 PROVE  /\ Validate(db'.type.definition, call'[c].req.attrs)
                        /\ Distinct(c)'
      BY <1>2, <2>1 DEF ProfileCourse
    <2>2. Validate(db.type.definition, call[c].req.attrs)
      BY <1>7 DEF ProfilesInv, ProfileCourse, At
    <2>3. call[c].req.attrs \in UsedAttributes
      <3>1. call[c].req \in Requests /\ call[c].req.op \in {"createUser", "updateUser"}
        BY <1>7 DEF Bounds, HistoryKept, Shape, Running, Asks, UserOps
      <3> QED
        BY <3>1 DEF UsedAttributes
    <2>4. ValidationTells(db.type.definition, call[c].req.attrs)
      BY <2>3 DEF Telling, ProfilesInv
    <2>5. \A w \in Users, path \in UniquePaths(db.type.definition) : ~Shared(call[c].req.attrs, w, path)
      BY <1>7, <2>2, <2>4, UniqueFound DEF ProfilesInv, UsersInv
    <2>6. Distinct(c)'
      BY <1>1, <1>7, <2>5 DEF Distinct, Shared, Users, UsersKept
    <2> QED
      BY <1>1, <1>7, <2>2, <2>6 DEF UsersKept
  <1> QED
    BY <1>3, <1>4, <1>5, <1>6, <1>7 DEF UsersShape, UserStored, TypeDefined

\* Who has been stored fits the definition, and shares values with those only who met it.
LEMMA UsersApartStep ==
    ASSUME Telling, Bounds, ProfilesInv, NEW d \in Calls, Shape(d), UsersShape(d), NEW u \in Users'
    PROVE  ProfileFits(u)' /\ \A w \in Users' \ {u} : ProfileApart(u, w)'
  <1> DEFINE Kept(w) == w \in Users /\ db'.users[w] = db.users[w]
             Stored(w) == /\ UserStored(d) /\ w = UserOf(d)
                          /\ db'.users[w] = [attrs |-> call[d].req.attrs, by |-> d]
  <1>1. \A w \in Users' : Kept(w) \/ Stored(w)
    BY UsersChange
  <1>2. \A row : Governed(row)' => Governed(row) /\ db'.type = db.type
    BY UsersChange, RuledStep
  <1>3. ASSUME NEW w, Stored(w), Governed(db.users[w])'
        PROVE  /\ Validate(db.type.definition, call[d].req.attrs) /\ Distinct(d)
               /\ db'.type = db.type /\ call[d].req.attrs \in UsedAttributes
    <2>1. Ruled(d)' /\ Asks(d, UserOps) /\ At(d, "write")
      BY <1>3 DEF Governed, Ruled, UserStored
    <2>2. Ruled(d) /\ db'.type = db.type
      BY <2>1, UsersChange, RuledStep
    <2>3. call[d].req \in Requests /\ call[d].req.op \in {"createUser", "updateUser"}
      BY <2>1 DEF Bounds, HistoryKept, Asks, UserOps
    <2>4. call[d].req.attrs \in UsedAttributes
      BY <2>3 DEF UsedAttributes
    <2> QED
      BY <2>1, <2>2, <2>4 DEF ProfilesInv, ProfileCourse, At
  <1>4. \A e, f \in Calls : Overlap(e, f) => Overlap(e, f)' /\ Overlap(f, e)'
    BY Lasting DEF Overlap
  <1>5. ProfileFits(u)'
    <2> SUFFICES ASSUME db'.users[u].by \in Calls, Governed(db.users[u])'
                 PROVE  Fits(db'.type.definition, db'.users[u].attrs)
      BY DEF ProfileFits
    <2>1. Governed(db'.users[u]) /\ db'.type = db.type
      BY <1>2 DEF Governed
    <2>2. CASE Kept(u)
      BY <2>1, <2>2 DEF ProfilesInv, UsersInv, ProfileFits
    <2>3. CASE Stored(u)
      BY <1>3, <2>3 DEF Telling, ValidationTells, ProfilesInv
    <2> QED
      BY <1>1, <2>2, <2>3
  <1>6. ASSUME NEW w \in Users' \ {u} PROVE ProfileApart(u, w)'
    <2> SUFFICES ASSUME db'.users[u].by \in Calls, Governed(db.users[u])', Governed(db.users[w])',
                        NEW path \in UniquePaths(db'.type.definition),
                        Shared(db.users[u].attrs, w, path)'
                 PROVE  db'.users[w].by \in Calls /\ Overlap(db.users[u].by, db.users[w].by)'
      BY DEF ProfileApart
    <2>1. Governed(db'.users[u]) /\ Governed(db'.users[w]) /\ db'.type = db.type
      BY <1>2 DEF Governed
    <2>2. /\ ValueAt(db'.users[u].attrs, path).kind \in {"string", "number"}
          /\ ValueAt(db'.users[u].attrs, path) = ValueAt(db'.users[w].attrs, path)
      BY DEF Shared
    <2>3. CASE Kept(u) /\ Kept(w)
      <3>1. ProfileApart(u, w)
        BY <1>6, <2>3 DEF ProfilesInv, UsersInv
      <3> QED
        BY <1>4, <2>1, <2>2, <2>3, <3>1 DEF ProfileApart, Shared
    <2>4. CASE Stored(u) /\ Kept(w)
      BY <1>3, <1>4, <2>1, <2>2, <2>4 DEF Distinct, Shared
    <2>5. CASE Kept(u) /\ Stored(w)
      BY <1>3, <1>4, <2>1, <2>2, <2>5 DEF Distinct, Shared
    <2>6. ~(Stored(u) /\ Stored(w))
      BY <1>6
    <2> QED
      BY <1>1, <1>6, <2>3, <2>4, <2>5, <2>6
  <1> QED
    BY <1>5, <1>6

\* A call that begins has checked nothing, but a definition that it sets.
LEMMA ProfilesAtBeginning ==
    ASSUME Bounds, ProfilesInv, NEW c \in Calls, NEW r \in Requests, Begin(c, r)
    PROVE  ProfilesInv'
  <1>1. /\ At(c, "idle") /\ db' = db
        /\ \A e \in Calls \ {c} : call'[e] = call[e]
        /\ <<r.op, call'[c].pc>> \in Beginnings(r) /\ call'[c].req = r
    BY Beginning DEF Bounds
  <1>2. /\ \A e \in Calls : \A ops : Asks(e, ops) => e # c /\ Asks(e, ops)'
        /\ \A e \in Calls \ {c} : \A ops : Asks(e, ops)' => Asks(e, ops)
        /\ \A e, f \in Calls : Overlap(e, f) => Overlap(e, f)'
        /\ \A e, f \in Calls : Overlap(e, f) => f # c
    BY <1>1 DEF Asks, At, Overlap
  <1>3. ASSUME NEW u \in Users PROVE /\ UserRule(u)'
                                     /\ Governed(db.users[u])' => Governed(db.users[u])
    <2>1. UserRule(u)
      BY DEF ProfilesInv, UsersInv
    <2>2. db.users[u].by \in Calls => db.users[u].by # c
      BY <1>2, <2>1 DEF UserRule
    <2> QED
      BY <1>1, <1>2, <2>1, <2>2 DEF UserRule, Governed
  <1>4. UsersInv'
    <2>1. Users' = Users
      BY <1>1 DEF Users
    <2>2. ASSUME NEW u \in Users PROVE ProfileFits(u)'
      BY <1>1, <1>3, <2>2 DEF ProfilesInv, UsersInv, ProfileFits
    <2>3. ASSUME NEW u \in Users, NEW w \in Users \ {u} PROVE ProfileApart(u, w)'
      <3>1. ProfileApart(u, w)
        BY DEF ProfilesInv, UsersInv
      <3>2. /\ Governed(db.users[u])' => Governed(db.users[u])
            /\ Governed(db.users[w])' => Governed(db.users[w])
        BY <1>3
      <3> QED
        BY <1>1, <1>2, <3>1, <3>2 DEF ProfileApart, Shared
    <2> QED
      BY <1>3, <2>1, <2>2, <2>3 DEF UsersInv
  <1>5. ASSUME NEW e \in Calls \ {c} PROVE ProfileCourse(e)'
    <2>1. ProfileCourse(e) /\ call'[e] = call[e]
      BY <1>1, <1>5 DEF ProfilesInv
    <2>2. Distinct(e) => Distinct(e)'
      BY <1>1, <1>2, <1>5 DEF Distinct, Shared, Users
    <2> QED
      BY <1>1, <1>2, <2>1, <2>2 DEF ProfileCourse, Ruled, At
  <1>6. ProfileCourse(c)'
    <2>1. Asks(c, UserOps)' => call'[c].pc \notin {"unique", "write"}
      BY <1>1 DEF Asks, UserOps, Beginnings
    <2>2. ASSUME r.op = "defineType", call'[c].pc = "write" PROVE CompilesSchema(r.definition)
      <3>1. r.op \notin RegistryOps \cup BrandingOps \cup {"brandApp", "resolve"} /\ r.op \in ProfileOps
        BY <2>2 DEF RegistryOps, BrandingOps, ProfileOps
      <3>2. call'[c].pc = IF Refused(r) THEN "refused" ELSE FirstProfileStep(r)
        BY <2>2, <3>1 DEF Begin, Idle, Bounds, CallsTyped
      <3> QED
        BY <2>2, <3>2 DEF FirstProfileStep
    <2> QED
      BY <1>1, <2>1, <2>2 DEF ProfileCourse, Asks, At
  <1> QED
    BY <1>1, <1>4, <1>5, <1>6 DEF ProfilesInv

LEMMA ProfilesNext ==
    ASSUME Telling, Bounds, ProfilesInv, [Next]_vars
    PROVE  ProfilesInv'
  <1>1. ASSUME NEW d \in Calls, Serves(d) PROVE ProfilesInv'
    <2>1. Shape(d) /\ UsersShape(d)
      BY <1>1, Shapes, UserSteps
    <2>2. \A c \in Calls : ProfileCourse(c)'
      BY <2>1, OthersProfiles, OwnProfiles
    <2>3. DOMAIN db'.users = Ids
      BY <2>1, UsersChange
    <2>4. UsersInv'
      BY <2>1, UserRulesStep, UsersApartStep DEF UsersInv
    <2> QED
      BY <2>1, <2>2, <2>3, <2>4, UserRulesStep DEF ProfilesInv
  <1>2. CASE UNCHANGED vars
    <2>1. db' = db /\ call' = call
      BY <1>2 DEF vars
    <2>2. UsersInv'
      BY <2>1 DEF ProfilesInv, UsersInv, UserRule, ProfileFits, ProfileApart, Shared, Governed,
                  Users, Asks, At, Overlap
    <2>3. \A c \in Calls : ProfileCourse(c)'
      BY <2>1 DEF ProfilesInv, ProfileCourse, Ruled, Distinct, Shared, Users, Asks, At, Overlap
    <2> QED
      BY <2>1, <2>2, <2>3 DEF ProfilesInv
  <1> QED
    BY <1>1, <1>2, ProfilesAtBeginning DEF Next, Serves

\* The initial users are of no call and have their values in the index.
LEMMA ProfilesAtFirst ==
    ASSUME Init
    PROVE  ProfilesInv
  <1>1. \A c \in Calls : \A ops : ~Asks(c, ops)
    BY DEF Init, Idle, Asks, At
  <1>2. /\ DOMAIN db.users = Ids
        /\ \A u \in Users : db.users[u].by \notin Calls /\ Entries(u, db.users[u].attrs) \subseteq db.index
    BY TablesAssumption, IdsAssumption DEF Init, Users
  <1>3. \A u \in Users : db.users[u].attrs \in UsedAttributes
    BY DEF Init, Users, UsedAttributes
  <1>4. db.type.definition \in UsedDefinitions
    BY DEF Init, UsedDefinitions
  <1>5. UsersInv
    BY <1>2, <1>3 DEF UsersInv, UserRule, ProfileFits, ProfileApart
  <1> QED
    BY <1>1, <1>2, <1>4, <1>5 DEF ProfilesInv, ProfileCourse

\* Profiles fit the definition they were checked against, and share a value that it calls
\* unique only if the calls that wrote them met, whatever calls come between the lookups
\* and the write: provided that, of the definitions and the attributes there are, what is
\* accepted fits and what is unique is looked up at its path (with or without foreign keys).
THEOREM ProfilesAlwaysHold ==
    ASSUME \A definition \in UsedDefinitions, attrs \in UsedAttributes :
               ValidationTells(definition, attrs)
    PROVE  Spec => []ProfilesHold
  <1>1. Telling
    BY DEF Telling
  <1>2. Bounds /\ ProfilesInv /\ [Next]_vars => ProfilesInv'
    BY <1>1, ProfilesNext
  <1>3. ProfilesInv => ProfilesHold
    <2> SUFFICES ASSUME ProfilesInv, NEW u \in Users,
                        db.users[u].by \in Calls, Governed(db.users[u])
                 PROVE  /\ Fits(db.type.definition, db.users[u].attrs)
                        /\ \A w \in Users \ {u}, path \in UniquePaths(db.type.definition) :
                              LET v == ValueAt(db.users[u].attrs, path)
                                  other == db.users[w]
                              IN  /\ Governed(other)
                                  /\ v.kind \in {"string", "number"}
                                  /\ v = ValueAt(other.attrs, path)
                                  => other.by \in Calls /\ Overlap(db.users[u].by, other.by)
      BY DEF ProfilesHold
    <2>1. ProfileFits(u) /\ \A w \in Users \ {u} : ProfileApart(u, w)
      BY DEF ProfilesInv, UsersInv
    <2> QED
      BY <2>1 DEF ProfileFits, ProfileApart, Shared
  <1> QED
    BY <1>2, <1>3, BoundsHold, ProfilesAtFirst, PTL DEF Spec
=============================================================================
