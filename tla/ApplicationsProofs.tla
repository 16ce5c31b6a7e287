------------------------- MODULE ApplicationsProofs -------------------------
(***************************************************************************)
(* Proofs about the application service, for any number of calls, requests *)
(* and failures: that its checks and writes keep registrations apart, that *)
(* deletions and failures leave nothing behind, and that caches agree with *)
(* the tables, but for the calls that meet.                                *)
(***************************************************************************)
EXTENDS Applications, FiniteSetTheorems, TLAPS

-----------------------------------------------------------------------------
(* What is always known of calls, and of what they wrote.                  *)

Op(c) == call[c].req.op
Stores(c) == Started(c) /\ Op(c) \in {"create", "update"}

\* Call c is done with the tables of applications and clients.
Past(c) == call[c].pc = "done" \/ call[c].undo

\* What an update does to the certificate, given the one there is and the one asked for.
CertWay(cert, wanted) ==
    IF cert = None THEN IF wanted = None THEN {} ELSE {"certExists", "certInsert"}
    ELSE IF wanted = None THEN {"certFind", "certDelete"} ELSE {"certByID", "certUpdate"}

\* And what it does to take that back.
WayBack(cert, wanted) ==
    IF cert = None THEN IF wanted = None THEN {} ELSE {"certFind", "certDelete"}
    ELSE IF wanted = None THEN {"certExists", "certInsert"} ELSE {"certByID", "certUpdate"}

\* The steps that a call in state k may be about to make.
OnWay(k) ==
    \/ k.pc = "done"
    \/ /\ k.req.op = "create" /\ ~k.undo
       /\ \/ k.pc \in {"byName", "byClient", "store"}
          \/ k.pc \in {"certExists", "certInsert"} /\ k.req.cert # None
    \/ k.req.op = "create" /\ k.undo /\ k.pc \in {"certFind", "certDelete"} /\ k.req.cert # None
    \/ k.req.op = "update" /\ ~k.undo /\ k.pc \in {"byID", "byName", "byClient", "certOf", "store"}
    \/ k.req.op = "update" /\ ~k.undo /\ k.pc \in CertWay(k.cert, k.req.cert)
    \/ k.req.op = "update" /\ k.undo /\ k.pc \in WayBack(k.cert, k.req.cert)
    \/ k.req.op = "delete" /\ ~k.undo /\ k.pc \in {"find", "remove", "certFind", "certDelete"}
    \/ k.req.op = "get" /\ ~k.undo /\ k.pc \in {"byID", "certOf"}
    \/ k.req.op = "getClient" /\ ~k.undo /\ k.pc = "byClient"

\* What it has read by then.
InHand(k) ==
    /\ k.app # None => k.req.op \in {"update", "delete", "get"} /\ k.app.id = k.req.app
    /\ k.cert # None => k.req.op = "update" /\ k.cert.ref = k.req.app
    /\ k.pc \in {"byID", "find"} => k.app = None
    /\ k.pc = "remove" \/ (k.req.op = "update" /\ k.pc \notin {"byID", "done"}) => k.app # None
    /\ k.pc \in {"byID", "byName", "byClient", "certOf"} => k.cert = None
    /\ k.pc = "certDelete" => k.found # None
    /\ k.pc = "byClient" /\ k.req.op # "getClient" => k.req.client \notin {None, "new"}

CallStates ==
    [pc : {"idle", "byName", "byID", "byClient", "find", "remove", "store", "done"} \cup CertSteps,
     req : Requests \cup {None}, app : AppRows \cup {None},
     cert : CertRows \cup {None}, found : CertRows \cup {None},
     undo : BOOLEAN, reply : Replies \cup {None}]

Tellings ==
    [which : {"cert"}, drop : CertRows \cup {None}, put : CertRows \cup {None}]
    \cup [which : {"app"}, drop : AppRows \cup {None}, put : AppRows \cup {None}]
    \cup [which : {"client"}, drop : {None}, put : ClientRows]
    \cup {Nothing}

CallKept(c) ==
    \/ call[c] = Idle /\ tell[c] = Nothing
    \/ /\ call[c].req \in Requests
       /\ call[c].pc # "idle"
       /\ OnWay(call[c])
       /\ InHand(call[c])
       /\ call[c].pc # "done" => call[c].reply = None

Given(c, i) == i \in Calls => Started(i) /\ c \notin before[i]

\* What a call remembers of its beginning: the calls that have ended for good, and that
\* the generated IDs it asks for were given.
HistoryKept(c) ==
    /\ before[c] \subseteq Calls
    /\ \A d \in before[c] : Ended(d)
    /\ seen[c] \in Shots \cup {None}
    /\ seen[c] # None <=> Started(c) /\ Op(c) \in {"update", "delete"}
    /\ Started(c) =>
          /\ Op(c) \notin {"create", "getClient"} => Given(c, call[c].req.app)
          /\ Op(c) \notin {"delete", "get"} => Given(c, call[c].req.client)

\* The caches are of the right types, and have under a key what belongs to it.
CachesKept ==
    /\ certByID \in [Ids -> CertRows \cup {None}]
    /\ certByReference \in [Ids -> CertRows \cup {None}]
    /\ appByID \in [Ids -> AppRows \cup {None}]
    /\ appByName \in [Names -> AppRows \cup {None}]
    /\ oauthApp \in [Clients -> ClientRows \cup {None}]
    /\ \A i \in Ids : certByID[i] # None => certByID[i].id = i
    /\ \A a \in Ids : certByReference[a] # None => certByReference[a].ref = a
    /\ \A a \in Ids : appByID[a] # None => appByID[a].id = a
    /\ \A n \in Names : appByName[n] # None => appByName[n].name = n
    /\ \A x \in Clients : oauthApp[x] # None => oauthApp[x].client = x

\* Rows are signed by calls that were to write them and are past it.
Signed(d, a) == Stores(d) /\ Past(d) /\ About(d) = a

RowsSigned ==
    /\ \A a \in Ids : apps[a] # None =>
          IF apps[a].by = First THEN a = First
          ELSE Signed(apps[a].by, a) /\ call[apps[a].by].req.name = apps[a].name
    /\ \A r \in clients :
          /\ IF r.by = First THEN r.app = First /\ r.client \notin Calls
             ELSE Signed(r.by, r.app) /\ ClientID(r.by) = r.client
          /\ IF r.row = First THEN r.app = First ELSE Signed(r.row, r.app)
    /\ \A r, s \in clients : r.row = s.row => r = s
    /\ \A r \in clients : apps[r.app] # None
    /\ \A c \in Calls : apps[c] # None => Stores(c) /\ Op(c) = "create" /\ Past(c)
    /\ \A c \in Calls : certs[c] # None => Started(c)

TablesKept ==
    /\ certs \in [Ids -> Certs \cup {None}]
    /\ apps \in [Ids -> Apps \cup {None}]
    /\ clients \subseteq ClientTable

Base ==
    /\ call \in [Calls -> CallStates]
    /\ tell \in [Calls -> Tellings]
    /\ DOMAIN before = Calls /\ DOMAIN seen = Calls
    /\ TablesKept
    /\ CachesKept
    /\ RowsSigned
    /\ \A c \in Calls : CallKept(c) /\ HistoryKept(c)

-----------------------------------------------------------------------------
(* What calls still know, after a check and before the write.              *)

\* The calls that ask for name n, and for client x, for application a.
Asking(a, n) == {c \in Calls : Stores(c) /\ About(c) = a /\ call[c].req.name = n}
AskingClient(a, x) == {c \in Calls : Stores(c) /\ About(c) = a /\ ClientID(c) = x}

\* Applications of one name, and clients of one ID, come from calls that met.
Differ ==
    /\ \A a, b \in Ids, n \in Names :
          /\ a # b /\ apps[a] # None /\ apps[b] # None
          /\ apps[a].name = n /\ apps[b].name = n
          => Meet(Asking(a, n), Asking(b, n))
    /\ \A r, s \in clients :
          /\ r # s /\ r.app = s.app => Meet({r.row}, {s.row})
          /\ r.app # s.app /\ r.client = s.client =>
                Meet(AskingClient(r.app, r.client), AskingClient(s.app, r.client))

\* The name of c is no other application's, whether c looked it up or its application
\* had it when c began, but for calls that meet.
NameRule(c) ==
    /\ Stores(c) /\ ~Past(c)
    /\ \/ call[c].pc \notin {"byID", "byName"}
       \/ seen[c] # None /\ seen[c].app # None /\ seen[c].app.name = call[c].req.name
    => \A a, b \in Ids, n \in Names :
          /\ b = About(c) /\ a # b /\ n = call[c].req.name
          /\ apps[a] # None /\ apps[a].name = n
          => Meet(Asking(a, n), Asking(b, n))

\* The client ID that c brings along is no other application's.
ClientRule(c) ==
    /\ Stores(c) /\ ~Past(c)
    /\ call[c].req.client \notin {None, "new"}
    /\ \/ call[c].pc \notin {"byID", "byName", "byClient"}
       \/ seen[c] # None /\ \E r \in seen[c].clients : r.client = call[c].req.client
    => \A r \in clients, b \in Ids :
          b = About(c) /\ r.app # b /\ r.client = call[c].req.client =>
             Meet(AskingClient(r.app, r.client), AskingClient(b, r.client))

\* An application that had no client when c began was given one only by calls c meets.
RowRule(c) ==
    Stores(c) /\ ~Past(c) /\ seen[c] # None /\ seen[c].clients = {} =>
        \A r \in ClientsOf(About(c)) : Overlap(r.row, c)

RulesOf(c) == NameRule(c) /\ ClientRule(c) /\ RowRule(c)
Rules == \A c \in Calls : RulesOf(c)

\* A deletion after the row is removed, and when it has answered.
Excused(c) == \E d \in Calls : Writes(d) /\ (Overlap(c, d) \/ Stale(d))
Deleting(c) ==
    Started(c) /\ Op(c) = "delete" /\ call[c].pc \in {"certFind", "certDelete"}
Deleted(c) ==
    Started(c) /\ Op(c) = "delete" /\ call[c].pc = "done" /\ call[c].reply = "ok"

GoneRule(c) ==
    /\ Deleting(c) \/ Deleted(c) =>
          Excused(c) \/ (apps[About(c)] = None /\ ClientsOf(About(c)) = {})
    /\ Deleted(c) => Excused(c) \/ certs[About(c)] = None
    /\ \A d \in Calls : Deleted(c) /\ Started(d) /\ Op(d) = "update" /\ About(d) = About(c)
                          /\ c \in before[d] => Excused(c) \/ seen[d].app = None

\* Calls met somewhere.
AnyMeet == \E c, d \in Calls : Writes(c) /\ Writes(d) /\ Meet({c}, {d})

\* A call about application a was stopped, or answered with an error that leaves
\* certificates behind.
Excuse(a) ==
    \E c \in Calls : Started(c) /\ Op(c) # "getClient" /\ About(c) = a
                      /\ \/ call[c].reply \in {"certError", "stopped"}
                         \/ Op(c) = "delete" /\ call[c].reply = "error"

\* A call that is about to give the certificate its application, or to delete it.
Tidying(c) ==
    /\ Started(c) /\ call[c].pc # "done"
    /\ \/ Op(c) = "create" /\ (call[c].pc = "store" \/ call[c].undo)
       \/ Deleting(c)

OrphanRule ==
    /\ \A a \in Ids : certs[a] # None /\ apps[a] = None =>
          Excuse(a) \/ AnyMeet \/ \E c \in Calls : Tidying(c) /\ About(c) = a
    /\ \A c \in Calls : certs[c] # None /\ ~(Stores(c) /\ Past(c)) =>
          AnyMeet \/ (Stores(c) /\ call[c].pc = "store" /\ call[c].req.cert # None)
    /\ \A c \in Calls : Started(c) /\ Op(c) = "update" /\ call[c].pc # "done" /\ seen[c].app # None =>
          apps[About(c)] # None \/ AnyMeet

\* A creation or update that ran alone: what it has changed so far.
Alone(c) ==
    /\ ~lost /\ ~Stale(c)
    /\ \A d \in Calls \ {c} : Started(d) /\ Writes(d) => d \in before[c]

CertChanged(c) == call[c].pc = "store" \/ call[c].undo

\* The rows of application a, and its certificate, are what they were when c began.
RowsAsSeen(c, a) ==
    IF seen[c] = None THEN apps[a] = None /\ ClientsOf(a) = {}
    ELSE apps[a] = seen[c].app /\ ClientsOf(a) = seen[c].clients

CertAsSeen(c, a) == certs[a] = IF seen[c] = None THEN None ELSE seen[c].cert

\* A certificate that was deleted and made again has another ID.
CertTakenBack(c, a) ==
    IF seen[c] = None THEN certs[a] = None
    ELSE /\ certs[a] = None <=> seen[c].cert = None
         /\ seen[c].cert # None => certs[a].value = seen[c].cert.value

\* The copy that c has tells what to take back.
CertToTakeBack(c, a) ==
    /\ call[c].cert = None => seen[c] = None \/ seen[c].cert = None
    /\ call[c].cert # None =>
          seen[c] # None /\ seen[c].cert = [id |-> call[c].cert.id, value |-> call[c].cert.value]
    /\ call[c].req.cert = None => certs[a] = None
    /\ call[c].req.cert # None /\ call[c].cert # None =>
          certs[a] # None /\ certs[a].id = call[c].cert.id

AloneRule(c) ==
    Stores(c) /\ Alone(c) /\ (call[c].pc = "done" => call[c].reply = "error") =>
        \A a \in Ids : a = About(c) =>
           /\ RowsAsSeen(c, a)
           /\ IF call[c].pc = "done" THEN CertTakenBack(c, a)
              ELSE IF CertChanged(c) THEN CertToTakeBack(c, a) ELSE CertAsSeen(c, a)
-----------------------------------------------------------------------------
(* What the caches have, while no writer meets anyone.                     *)

Apart == ~lost /\ ~(\E c, d \in Calls : Overlap(c, d) /\ Writes(c))

CurrentApp(d) == apps[d.id] # None /\ d \in Joined(d.id)
CurrentCert(r) == r = CertRow(r.ref)
CurrentClient(o) == \E r \in clients : o = Client(r)

\* What some call is about to drop from the caches.
Drops(which, d) == d # None /\ \E c \in Calls : tell[c].which = which /\ tell[c].drop = d

EntriesCurrent ==
    /\ \A a \in Ids : appByID[a] # None =>
          CurrentApp(appByID[a]) \/ (\E d \in AppRows : Drops("app", d) /\ d.id = a)
    /\ \A n \in Names : appByName[n] # None =>
          CurrentApp(appByName[n]) \/ \E d \in AppRows : Drops("app", d) /\ d.name = n
    /\ \A x \in Clients : oauthApp[x] # None =>
          \/ CurrentClient(oauthApp[x])
          \/ \E d \in AppRows : Drops("app", d) /\ d.oauth # None /\ d.oauth.client = x
    /\ \A a \in Ids : certByReference[a] # None =>
          CurrentCert(certByReference[a]) \/ \E r \in CertRows : Drops("cert", r) /\ r.ref = a
    /\ \A i \in Ids : certByID[i] # None =>
          CurrentCert(certByID[i]) \/ \E r \in CertRows : Drops("cert", r) /\ r.id = i

\* What a call has read, and is about to put into the caches.
ReadCurrent(c) ==
    /\ ~Stale(c)
    /\ tell[c].put # None =>
          /\ tell[c].which = "app" => CurrentApp(tell[c].put)
          /\ tell[c].which = "client" => CurrentClient(tell[c].put)
          /\ tell[c].which = "cert" => CurrentCert(tell[c].put)
    /\ Started(c) /\ Writes(c) /\ ~Past(c) /\ ~Deleting(c) /\ call[c].app # None =>
          CurrentApp(call[c].app)
    /\ call[c].pc = "certDelete" => CurrentCert(call[c].found) /\ call[c].found.ref = About(c)
    /\ Started(c) /\ Op(c) = "delete" /\ call[c].pc \in {"find", "remove"} =>
          /\ apps[About(c)] = seen[c].app
          /\ ClientsOf(About(c)) = seen[c].clients

\* A certificate has the ID of the call that made it, for the application of that call.
CertsSigned ==
    \A a \in Ids, i \in Ids : certs[a] # None /\ certs[a].id = i =>
        IF i = First THEN a = First ELSE Stores(i) /\ About(i) = a

CachesCurrent ==
    /\ EntriesCurrent
    /\ CertsSigned
    /\ \A c \in Calls : ReadCurrent(c)

CachesRule == Apart => CachesCurrent

IInv ==
    /\ Base
    /\ Differ
    /\ Rules
    /\ \A c \in Calls : GoneRule(c)
    /\ OrphanRule
    /\ \A c \in Calls : AloneRule(c)
    /\ CachesRule


-----------------------------------------------------------------------------
(* Requests, rows and joins.                                               *)

\* What requests of each kind ask for (the parameters of service.go).
LEMMA RequestFields ==
    ASSUME NEW r \in Requests
    PROVE  /\ r # None
           /\ r.op \in {"create", "update", "delete", "get", "getClient"}
           /\ r.op \in {"create", "update"} =>
                 /\ r.name \in Names
                 /\ r.client \in Clients \cup {None, "new"}
                 /\ r.cert \in CertValues \cup {None}
           /\ r.op \in {"update", "delete", "get"} => r.app \in Ids
           /\ r.op = "getClient" => r.client \in Clients
  <1> DEFINE creates == [op : {"create"}, name : Names, client : Clients \cup {None, "new"},
                         cert : CertValues \cup {None}]
             updates == [op : {"update"}, app : Ids, name : Names,
                         client : Clients \cup {None, "new"}, cert : CertValues \cup {None}]
             others == [op : {"delete", "get"}, app : Ids]
             gets == [op : {"getClient"}, client : Clients]
  <1>1. r \in creates \cup updates \cup others \cup gets /\ r # None
    BY RequestsAssumption
  <1>2. CASE r \in creates
    BY <1>1, <1>2
  <1>3. CASE r \in updates
    BY <1>1, <1>3
  <1>4. CASE r \in others
    BY <1>1, <1>4
  <1>5. CASE r \in gets
    BY <1>1, <1>5
  <1> HIDE DEF creates, updates, others, gets
  <1>6. QED
    BY <1>1, <1>2, <1>3, <1>4, <1>5

\* None is nothing else, and names of calls are apart from names that requests choose.
LEMMA Values ==
    /\ \A r \in CertRows \cup ClientRows \cup AppRows \cup Certs \cup Apps \cup Shots : r # None
    /\ \A n \in Names : n # None
    /\ \A v \in CertValues : v # None
    /\ \A v \in Clients : v # None /\ v # "new"
    /\ \A r \in Replies : r # None
    /\ First \notin Calls /\ First \in Ids
    /\ \A c \in Calls : c \in Ids /\ c \in Clients /\ c # None /\ c # First
  BY ValuesAssumption, TablesAssumption DEF Clients, Ids

\* The join has rows for an application that is there, and all are rows of it.
LEMMA Joins ==
    ASSUME NEW a \in Ids, TablesKept, apps[a] # None
    PROVE  /\ Joined(a) \subseteq AppRows
           /\ Joined(a) # {}
           /\ \A d \in Joined(a) : d.id = a /\ d.name = apps[a].name /\ d.by = apps[a].by
           /\ AppRow(a) \in Joined(a)
  <1>1. apps[a] \in Apps
    BY DEF TablesKept
  <1>2. \A r \in clients : Client(r) \in ClientRows
    BY DEF TablesKept, ClientTable, Client, ClientRows
  <1> DEFINE found == IF ClientsOf(a) = {} THEN {None} ELSE {Client(r) : r \in ClientsOf(a)}
  <1>3. found \subseteq ClientRows \cup {None} /\ found # {}
    <2>1. CASE ClientsOf(a) = {}
      BY <2>1
    <2>2. CASE ClientsOf(a) # {}
      BY <2>2, <1>2 DEF ClientsOf
    <2> QED
      BY <2>1, <2>2
  <1>4. Joined(a) = {[id |-> a, name |-> apps[a].name, by |-> apps[a].by, oauth |-> o] : o \in found}
    BY DEF Joined
  <1> HIDE DEF found
  <1>5. Joined(a) \subseteq AppRows /\ Joined(a) # {}
    <2>1. apps[a].name \in Names /\ apps[a].by \in Ids
      BY <1>1 DEF Apps
    <2>2. \A o \in found :
             [id |-> a, name |-> apps[a].name, by |-> apps[a].by, oauth |-> o] \in AppRows
      BY <2>1, <1>3 DEF AppRows
    <2> QED
      BY <2>2, <1>3, <1>4
  <1>6. \A d \in Joined(a) : d.id = a /\ d.name = apps[a].name /\ d.by = apps[a].by
    BY <1>4
  <1>7. AppRow(a) \in Joined(a)
    BY <1>5 DEF AppRow
  <1> QED
    BY <1>5, <1>6, <1>7

\* A row that is read is a row of the application, which is there.
LEMMA AppRows1 ==
    ASSUME NEW a \in Ids, TablesKept
    PROVE  /\ AppRow(a) \in AppRows \cup {None}
           /\ AppRow(a) = None <=> apps[a] = None
           /\ AppRow(a) # None => AppRow(a).id = a /\ AppRow(a) \in Joined(a)
  <1>1. CASE apps[a] = None
    BY <1>1 DEF AppRow
  <1>2. CASE apps[a] # None
    BY <1>2, Joins, Values
  <1> QED
    BY <1>1, <1>2

-----------------------------------------------------------------------------
(* Steps of a call.                                                        *)

\* A step of call c, which goes on with what it has.
Acts(c) ==
    /\ Started(c) /\ call[c].pc # "done"
    /\ call' \in [Calls -> CallStates] /\ tell' \in [Calls -> Tellings]
    /\ \A d \in Calls \ {c} : call'[d] = call[d] /\ tell'[d] = tell[d]
    /\ call'[c].req = call[c].req /\ call'[c].pc # "idle"
    /\ call[c].app # None => call'[c].app = call[c].app
    /\ call[c].cert # None => call'[c].cert = call[c].cert
    /\ call[c].undo => call'[c].undo
    /\ CallKept(c)'
    /\ UNCHANGED <<before, seen>>

\* Only caches may change.
TablesStay == UNCHANGED <<certs, apps, clients, lost>>

\* What is known of a call that is about to make a step.
LEMMA AtStep ==
    ASSUME NEW c \in Calls, NEW pc, pc # "idle", Base, At(c, pc)
    PROVE  /\ call[c] \in CallStates /\ call[c].pc = pc /\ Started(c)
           /\ call[c].req \in Requests
           /\ OnWay(call[c]) /\ InHand(call[c])
           /\ call[c].pc # "done" => call[c].reply = None
           /\ tell[c] = Nothing
  <1>1. call[c] \in CallStates /\ call[c].pc = pc /\ tell[c] = Nothing /\ CallKept(c)
    BY DEF Base, At
  <1>2. call[c] # Idle
    BY <1>1 DEF Idle
  <1> QED
    BY <1>1, <1>2 DEF CallKept, Started

\* Answering ends a call.
LEMMA Answering ==
    ASSUME NEW c \in Calls, NEW r \in Replies, Base, Started(c), call[c].pc # "done",
           Answer(c, r),
           tell' \in [Calls -> Tellings], \A d \in Calls \ {c} : tell'[d] = tell[d],
           UNCHANGED <<before, seen>>
    PROVE  /\ Acts(c)
           /\ call'[c] = [call[c] EXCEPT !.pc = "done", !.reply = r]
  <1>1. call[c] \in CallStates /\ call[c].pc # "idle" /\ CallKept(c)
    BY DEF Base, Started
  <1>2. call' = [call EXCEPT ![c] = [call[c] EXCEPT !.pc = "done", !.reply = r]]
    BY DEF Answer
  <1>3. /\ call'[c] = [call[c] EXCEPT !.pc = "done", !.reply = r]
        /\ \A d \in Calls \ {c} : call'[d] = call[d]
    BY <1>2 DEF Base
  <1>4. call'[c] \in CallStates
    BY <1>1, <1>3 DEF CallStates
  <1>5. call' \in [Calls -> CallStates]
    BY <1>2, <1>3, <1>4 DEF Base
  <1>6. /\ call'[c].pc = "done" /\ call'[c].req = call[c].req
        /\ call'[c].app = call[c].app /\ call'[c].cert = call[c].cert
        /\ call'[c].undo = call[c].undo
    BY <1>1, <1>3 DEF CallStates
  <1>7. CallKept(c)'
    <2>1. call[c].req \in Requests /\ InHand(call[c])
      BY <1>1 DEF CallKept, Idle
    <2>2. OnWay(call'[c])
      BY <1>6 DEF OnWay
    <2>3. InHand(call'[c])
      BY <1>6, <2>1 DEF InHand
    <2> QED
      BY <1>6, <2>1, <2>2, <2>3 DEF CallKept
  <1> QED
    BY <1>1, <1>3, <1>5, <1>6, <1>7 DEF Acts

\* A call that goes on does so with a state in which it is on its way.
LEMMA GoingOn ==
    ASSUME NEW c \in Calls, NEW k \in CallStates, Base, Started(c), call[c].pc # "done",
           call' = [call EXCEPT ![c] = k],
           k.pc \notin {"idle", "done"}, k.req = call[c].req, k.reply = call[c].reply,
           call[c].app # None => k.app = call[c].app,
           call[c].cert # None => k.cert = call[c].cert,
           call[c].undo => k.undo,
           OnWay(k), InHand(k),
           tell' \in [Calls -> Tellings], \A d \in Calls \ {c} : tell'[d] = tell[d],
           UNCHANGED <<before, seen>>
    PROVE  Acts(c) /\ call'[c] = k
  <1>1. call[c] \in CallStates /\ call[c].pc # "idle" /\ CallKept(c)
    BY DEF Base, Started
  <1>2. call'[c] = k /\ \A d \in Calls \ {c} : call'[d] = call[d]
    BY DEF Base
  <1>3. call' \in [Calls -> CallStates]
    BY <1>2 DEF Base
  <1>4. CallKept(c)'
    BY <1>1, <1>2 DEF CallKept, Idle
  <1> QED
    BY <1>1, <1>2, <1>3, <1>4 DEF Acts

-----------------------------------------------------------------------------
(* Lookups.                                                                *)

\* The caches have nothing but what was in them.
Forgetting ==
    /\ CachesKept'
    /\ \A a \in Ids : appByID'[a] \in {appByID[a], None}
    /\ \A n \in Names : appByName'[n] \in {appByName[n], None}
    /\ \A x \in Clients : oauthApp'[x] \in {oauthApp[x], None}
    /\ \A a \in Ids : certByReference'[a] \in {certByReference[a], None}
    /\ \A i \in Ids : certByID'[i] \in {certByID[i], None}

\* The caches will be told of a row that is there, if of anything.
Reads(c) ==
    \/ tell'[c] = Nothing
    \/ \E d \in AppRows : tell'[c] = Telling("app", None, d) /\ CurrentApp(d)
    \/ \E o \in ClientRows : tell'[c] = Telling("client", None, o) /\ CurrentClient(o)
    \/ \E r \in CertRows : tell'[c] = Telling("cert", None, r) /\ CurrentCert(r)

Looks(c) ==
    /\ Acts(c)
    /\ tell[c] = Nothing
    /\ TablesStay
    /\ Forgetting
    /\ Reads(c)

\* A lookup takes at most one entry out of a cache.
LEMMA Forgets ==
    ASSUME Base,
           appByID' = appByID \/ \E a \in Ids : appByID' = [appByID EXCEPT ![a] = None],
           appByName' = appByName \/ \E n \in Names : appByName' = [appByName EXCEPT ![n] = None],
           oauthApp' = oauthApp \/ \E x \in Clients : oauthApp' = [oauthApp EXCEPT ![x] = None],
           certByReference' = certByReference
              \/ \E a \in Ids : certByReference' = [certByReference EXCEPT ![a] = None],
           certByID' = certByID \/ \E i \in Ids : certByID' = [certByID EXCEPT ![i] = None]
    PROVE  Forgetting
  <1>1. /\ appByID \in [Ids -> AppRows \cup {None}]
        /\ appByName \in [Names -> AppRows \cup {None}]
        /\ oauthApp \in [Clients -> ClientRows \cup {None}]
        /\ certByReference \in [Ids -> CertRows \cup {None}]
        /\ certByID \in [Ids -> CertRows \cup {None}]
    BY DEF Base, CachesKept
  <1>2. /\ appByID' \in [Ids -> AppRows \cup {None}]
        /\ \A a \in Ids : appByID'[a] \in {appByID[a], None}
    BY <1>1
  <1>3. /\ appByName' \in [Names -> AppRows \cup {None}]
        /\ \A n \in Names : appByName'[n] \in {appByName[n], None}
    BY <1>1
  <1>4. /\ oauthApp' \in [Clients -> ClientRows \cup {None}]
        /\ \A x \in Clients : oauthApp'[x] \in {oauthApp[x], None}
    BY <1>1
  <1>5. /\ certByReference' \in [Ids -> CertRows \cup {None}]
        /\ \A a \in Ids : certByReference'[a] \in {certByReference[a], None}
    BY <1>1
  <1>6. /\ certByID' \in [Ids -> CertRows \cup {None}]
        /\ \A i \in Ids : certByID'[i] \in {certByID[i], None}
    BY <1>1
  <1>7. CachesKept'
    BY <1>2, <1>3, <1>4, <1>5, <1>6 DEF Base, CachesKept
  <1> QED
    BY <1>2, <1>3, <1>4, <1>5, <1>6, <1>7 DEF Forgetting

\* What is read is told in a way that the caches understand.
LEMMA TellingRead ==
    ASSUME NEW c \in Calls, Base, tell[c] = Nothing,
           \/ tell' = tell
           \/ tell' = [tell EXCEPT ![c] = Nothing]
           \/ \E d \in AppRows : tell' = [tell EXCEPT ![c] = Telling("app", None, d)] /\ CurrentApp(d)
           \/ \E o \in ClientRows :
                 tell' = [tell EXCEPT ![c] = Telling("client", None, o)] /\ CurrentClient(o)
           \/ \E r \in CertRows :
                 tell' = [tell EXCEPT ![c] = Telling("cert", None, r)] /\ CurrentCert(r)
    PROVE  /\ tell' \in [Calls -> Tellings]
           /\ \A d \in Calls \ {c} : tell'[d] = tell[d]
           /\ Reads(c)
  <1>1. tell \in [Calls -> Tellings]
    BY DEF Base
  <1>2. CASE tell' = tell
    BY <1>1, <1>2 DEF Reads
  <1>3. CASE tell' = [tell EXCEPT ![c] = Nothing]
    BY <1>1, <1>3 DEF Reads, Tellings
  <1>4. ASSUME NEW d \in AppRows, CurrentApp(d),
               tell' = [tell EXCEPT ![c] = Telling("app", None, d)]
        PROVE  /\ tell' \in [Calls -> Tellings]
               /\ \A e \in Calls \ {c} : tell'[e] = tell[e]
               /\ Reads(c)
    <2>1. Telling("app", None, d) \in Tellings
      BY DEF Tellings, Telling
    <2> QED
      BY <1>1, <1>4, <2>1 DEF Reads
  <1>5. ASSUME NEW o \in ClientRows, CurrentClient(o),
               tell' = [tell EXCEPT ![c] = Telling("client", None, o)]
        PROVE  /\ tell' \in [Calls -> Tellings]
               /\ \A e \in Calls \ {c} : tell'[e] = tell[e]
               /\ Reads(c)
    <2>1. Telling("client", None, o) \in Tellings
      BY DEF Tellings, Telling
    <2> QED
      BY <1>1, <1>5, <2>1 DEF Reads
  <1>6. ASSUME NEW r \in CertRows, CurrentCert(r),
               tell' = [tell EXCEPT ![c] = Telling("cert", None, r)]
        PROVE  /\ tell' \in [Calls -> Tellings]
               /\ \A e \in Calls \ {c} : tell'[e] = tell[e]
               /\ Reads(c)
    <2>1. Telling("cert", None, r) \in Tellings
      BY DEF Tellings, Telling
    <2> QED
      BY <1>1, <1>6, <2>1 DEF Reads
  <1> QED
    BY <1>2, <1>3, <1>4, <1>5, <1>6

\* The course after the name is free, of a client that is asked for.
LEMMA AfterNames ==
    ASSUME NEW c \in Calls, NEW d,
           call[c].req.op \in {"create", "update"}
    PROVE  /\ AfterName(c, d) \in {"byClient", "certOf", "certExists", "store"}
           /\ AfterName(c, d) = "byClient" => call[c].req.client \notin {None, "new"}
           /\ AfterName(c, d) = "certExists" => call[c].req.cert # None
           /\ AfterName(c, d) # "byClient" =>
                 /\ AfterName(c, d) = AfterClient(c)
                 /\ call[c].req.client \notin {None, "new"} =>
                       d # None /\ d.oauth # None /\ d.oauth.client = call[c].req.client
           /\ call[c].req.op = "update" => AfterName(c, d) \in {"byClient", "certOf"}
           /\ call[c].req.op = "create" => AfterName(c, d) # "certOf"
  BY DEF AfterName, AfterClient, ChecksClient, OAuthOf

\* A call that looks up the name goes on when no application has it.
LEMMA ByNameLooks ==
    ASSUME NEW c \in Calls, Base, ByName(c)
    PROVE  /\ Looks(c)
           /\ call[c].pc = "byName"
           /\ call'[c].app = call[c].app /\ call'[c].cert = call[c].cert
           /\ \/ call'[c].pc = "done" /\ call'[c].reply \in {"conflict", "error"}
              \/ Named(call[c].req.name) = {} /\ call'[c].pc = AfterName(c, call[c].app)
  <1> DEFINE n == call[c].req.name
  <1>1. /\ At(c, "byName")
        /\ UNCHANGED <<certs, certCaches, failures, lost, apps, clients, before, seen>>
        /\ \E d \in {appByName[n], RowOf(Named(n))} :
              GetApplicationByName(c, n, d,
                 IF d = None THEN Goto(c, AfterName(c, call[c].app)) ELSE Answer(c, "conflict"))
    BY DEF ByName
  <1>2. /\ call[c] \in CallStates /\ call[c].pc = "byName" /\ Started(c) /\ call[c].req \in Requests
        /\ OnWay(call[c]) /\ InHand(call[c]) /\ tell[c] = Nothing
    BY <1>1, AtStep
  <1>3. call[c].req.op \in {"create", "update"} /\ ~call[c].undo /\ n \in Names
    BY <1>2, RequestFields DEF OnWay, CertWay, WayBack
  <1>4. PICK d \in {appByName[n], RowOf(Named(n))} :
           GetApplicationByName(c, n, d,
              IF d = None THEN Goto(c, AfterName(c, call[c].app)) ELSE Answer(c, "conflict"))
    BY <1>1
  <1>5. /\ Named(n) # {} => RowOf(Named(n)) \in AppRows /\ CurrentApp(RowOf(Named(n)))
        /\ Named(n) = {} => RowOf(Named(n)) = None
    <2>1. TablesKept
      BY DEF Base
    <2>2. \A a \in Named(n) : AppRow(a) \in AppRows /\ CurrentApp(AppRow(a))
      BY <2>1, Joins, AppRows1 DEF Named, CurrentApp
    <2> QED
      BY <2>2 DEF RowOf
  <1>6. /\ tell' = tell \/ \E e \in AppRows : /\ tell' = [tell EXCEPT ![c] = Telling("app", None, e)]
                                              /\ CurrentApp(e)
        /\ appByName' = appByName \/ appByName' = [appByName EXCEPT ![n] = None]
        /\ UNCHANGED <<appByID, oauthApp>>
        /\ \/ Answer(c, "error") \/ Answer(c, "conflict")
           \/ Named(n) = {} /\ Goto(c, AfterName(c, call[c].app))
    <2>1. CASE Hit(appByName[n], d, IF d = None THEN Goto(c, AfterName(c, call[c].app))
                                     ELSE Answer(c, "conflict"))
      BY <2>1 DEF Hit, appCaches
    <2>2. CASE /\ appByName' = [appByName EXCEPT ![n] = None]
               /\ Read(c, Named(n), TRUE, d, IF d = None THEN Goto(c, AfterName(c, call[c].app))
                                              ELSE Answer(c, "conflict"))
               /\ UNCHANGED <<appByID, oauthApp>>
      BY <2>2, <1>5, Values DEF Read
    <2> QED
      BY <2>1, <2>2, <1>4 DEF GetApplicationByName
  <1>7. /\ tell' \in [Calls -> Tellings] /\ \A e \in Calls \ {c} : tell'[e] = tell[e]
        /\ Reads(c)
    BY <1>2, <1>6, TellingRead
  <1>8. Forgetting
    BY <1>1, <1>3, <1>6, Forgets DEF certCaches
  <1>9. CASE Answer(c, "error") \/ Answer(c, "conflict")
    <2>1. PICK r \in {"error", "conflict"} : Answer(c, r)
      BY <1>9
    <2>2. Acts(c) /\ call'[c] = [call[c] EXCEPT !.pc = "done", !.reply = r]
      BY <1>1, <1>2, <1>7, <2>1, Answering DEF Replies
    <2> QED
      BY <1>1, <1>2, <1>7, <1>8, <2>2 DEF Looks, TablesStay, CallStates
  <1>10. CASE Named(n) = {} /\ Goto(c, AfterName(c, call[c].app))
    <2> DEFINE k == [call[c] EXCEPT !.pc = AfterName(c, call[c].app)]
    <2>1. AfterName(c, call[c].app) \in {"byClient", "certOf", "certExists", "store"}
      BY <1>3, AfterNames
    <2>2. /\ k \in CallStates /\ k.pc = AfterName(c, call[c].app)
          /\ k.req = call[c].req /\ k.reply = call[c].reply /\ k.app = call[c].app
          /\ k.cert = call[c].cert /\ k.undo = call[c].undo
      BY <1>2, <2>1 DEF CallStates, CertSteps
    <2>3. call' = [call EXCEPT ![c] = k]
      BY <1>10 DEF Goto
    <2> HIDE DEF k
    <2>4. OnWay(k)
      BY <1>3, <2>2, AfterNames DEF OnWay
    <2>5. InHand(k)
      BY <1>2, <1>3, <2>2, AfterNames DEF InHand
    <2>6. /\ k.pc \notin {"idle", "done"}
          /\ call[c].app # None => k.app = call[c].app
          /\ call[c].cert # None => k.cert = call[c].cert
          /\ call[c].undo => k.undo
      BY <2>1, <2>2
    <2>7. k \in CallStates /\ k.req = call[c].req /\ k.reply = call[c].reply
      BY <2>2
    <2>8. Acts(c) /\ call'[c] = k
      BY <1>1, <1>2, <1>7, <2>3, <2>4, <2>5, <2>6, <2>7, GoingOn
    <2> QED
      BY <1>1, <1>2, <1>7, <1>8, <1>10, <2>2, <2>8 DEF Looks, TablesStay
  <1> QED
    BY <1>6, <1>9, <1>10

\* A call that looks up the client ID goes on when no row has it.
LEMMA ByClientLooks ==
    ASSUME NEW c \in Calls, Base, ByClient(c)
    PROVE  /\ Looks(c)
           /\ call[c].pc = "byClient"
           /\ call'[c].app = call[c].app /\ call'[c].cert = call[c].cert
           /\ \/ call'[c].pc = "done" /\ call'[c].reply \in {"conflict", "ok", "notFound"}
                 /\ (Stores(c) => call'[c].reply = "conflict")
              \/ /\ Stores(c)
                 /\ \A r \in clients : r.client # call[c].req.client
                 /\ call'[c].pc = AfterClient(c)
  <1> DEFINE x == call[c].req.client
             next(d) == IF call[c].req.op = "getClient"
                        THEN Answer(c, IF d = None THEN "notFound" ELSE "ok")
                        ELSE IF d = None THEN Goto(c, AfterClient(c)) ELSE Answer(c, "conflict")
  <1>1. /\ At(c, "byClient")
        /\ UNCHANGED <<certs, certCaches, failures, lost, apps, clients, before, seen>>
        /\ \E d \in {oauthApp[x]} \cup ClientRow(x) : GetOAuthApplication(c, x, d, next(d))
    BY DEF ByClient
  <1>2. /\ call[c] \in CallStates /\ call[c].pc = "byClient" /\ Started(c) /\ call[c].req \in Requests
        /\ OnWay(call[c]) /\ InHand(call[c]) /\ tell[c] = Nothing
    BY <1>1, AtStep
  <1>3. /\ call[c].req.op \in {"create", "update", "getClient"} /\ ~call[c].undo
        /\ x \in Clients
    BY <1>2, RequestFields DEF OnWay, CertWay, WayBack, InHand
  <1>4. PICK d \in {oauthApp[x]} \cup ClientRow(x) : GetOAuthApplication(c, x, d, next(d))
    BY <1>1
  <1>5. \A e \in ClientRow(x) : /\ e # None => e \in ClientRows /\ CurrentClient(e)
                                /\ e = None => \A r \in clients : r.client # x
    <2>1. \A r \in clients : Client(r) \in ClientRows /\ CurrentClient(Client(r))
      BY DEF Base, TablesKept, ClientTable, Client, ClientRows, CurrentClient
    <2> QED
      BY <2>1, Values DEF ClientRow
  <1>6. /\ tell' = tell \/ \E e \in ClientRows : /\ tell' = [tell EXCEPT ![c] = Telling("client", None, e)]
                                                 /\ CurrentClient(e)
        /\ oauthApp' = oauthApp \/ oauthApp' = [oauthApp EXCEPT ![x] = None]
        /\ UNCHANGED <<appByID, appByName>>
        /\ next(d) /\ (d = None => \A r \in clients : r.client # x)
    <2>1. CASE Hit(oauthApp[x], d, next(d))
      BY <2>1 DEF Hit, appCaches
    <2>2. CASE /\ oauthApp' = [oauthApp EXCEPT ![x] = None]
               /\ d \in ClientRow(x)
               /\ next(d)
               /\ tell' = IF d = None THEN tell ELSE [tell EXCEPT ![c] = Telling("client", None, d)]
               /\ UNCHANGED <<appByID, appByName>>
      BY <2>2, <1>5
    <2> QED
      BY <2>1, <2>2, <1>4 DEF GetOAuthApplication
  <1>7. /\ tell' \in [Calls -> Tellings] /\ \A e \in Calls \ {c} : tell'[e] = tell[e]
        /\ Reads(c)
    BY <1>2, <1>6, TellingRead
  <1>8. Forgetting
    BY <1>1, <1>3, <1>6, Forgets DEF certCaches
  <1>9. CASE \E r \in {"notFound", "ok", "conflict"} :
                Answer(c, r) /\ (call[c].req.op # "getClient" => r = "conflict")
    <2>1. PICK r \in {"notFound", "ok", "conflict"} :
                Answer(c, r) /\ (call[c].req.op # "getClient" => r = "conflict")
      BY <1>9
    <2>2. Acts(c) /\ call'[c] = [call[c] EXCEPT !.pc = "done", !.reply = r]
      BY <1>1, <1>2, <1>7, <2>1, Answering DEF Replies
    <2>3. /\ call'[c].pc = "done" /\ call'[c].reply = r
          /\ call'[c].app = call[c].app /\ call'[c].cert = call[c].cert
      BY <1>2, <2>2 DEF CallStates
    <2> QED
      BY <1>1, <1>2, <1>7, <1>8, <2>1, <2>2, <2>3 DEF Looks, TablesStay, Stores, Op
  <1>10. CASE d = None /\ Goto(c, AfterClient(c)) /\ call[c].req.op # "getClient"
    <2> DEFINE k == [call[c] EXCEPT !.pc = AfterClient(c)]
    <2>1. /\ AfterClient(c) \in {"certOf", "certExists", "store"}
          /\ call[c].req.op = "create" =>
                /\ AfterClient(c) # "certOf"
                /\ AfterClient(c) = "certExists" => call[c].req.cert # None
          /\ call[c].req.op = "update" => AfterClient(c) = "certOf"
      BY <1>3, <1>10 DEF AfterClient
    <2>2. /\ k \in CallStates /\ k.pc = AfterClient(c)
          /\ k.req = call[c].req /\ k.reply = call[c].reply /\ k.app = call[c].app
          /\ k.cert = call[c].cert /\ k.undo = call[c].undo
      BY <1>2, <2>1 DEF CallStates, CertSteps
    <2>3. call' = [call EXCEPT ![c] = k]
      BY <1>10 DEF Goto
    <2> HIDE DEF k
    <2>4. OnWay(k)
      BY <1>3, <1>10, <2>1, <2>2 DEF OnWay
    <2>5. InHand(k)
      BY <1>2, <1>3, <2>1, <2>2 DEF InHand
    <2>6. /\ k.pc \notin {"idle", "done"}
          /\ call[c].app # None => k.app = call[c].app
          /\ call[c].cert # None => k.cert = call[c].cert
          /\ call[c].undo => k.undo
      BY <2>1, <2>2
    <2>7. k \in CallStates /\ k.req = call[c].req /\ k.reply = call[c].reply
      BY <2>2
    <2>8. Acts(c) /\ call'[c] = k
      BY <1>1, <1>2, <1>7, <2>3, <2>4, <2>5, <2>6, <2>7, GoingOn
    <2> QED
      BY <1>1, <1>2, <1>3, <1>6, <1>7, <1>8, <1>10, <2>2, <2>8
      DEF Looks, TablesStay, Stores, Op
  <1> QED
    BY <1>6, <1>9, <1>10

\* A call that reads its application by ID: what it finds is an entry or the row.
LEMMA ByIDLooks ==
    ASSUME NEW c \in Calls, Base, ByID(c)
    PROVE  /\ Looks(c)
           /\ call[c].pc = "byID" /\ call[c].req.op \in {"update", "get"}
           /\ call'[c].cert = call[c].cert
           /\ \/ /\ call'[c].pc = "done" /\ call'[c].reply \in {"notFound", "error"}
                 /\ call'[c].app = call[c].app
              \/ /\ call'[c].app # None
                 /\ \/ call'[c].app = appByID[About(c)]
                    \/ call'[c].app = AppRow(About(c))
                 /\ call[c].req.op = "get" => call'[c].pc = "certOf"
                 /\ call[c].req.op = "update" =>
                       call'[c].pc = IF call'[c].app.name # call[c].req.name THEN "byName"
                                     ELSE AfterName(c, call'[c].app)
  <1> DEFINE a == call[c].req.app
             step(d) == IF call[c].req.op = "get" THEN "certOf"
                        ELSE IF d.name # call[c].req.name THEN "byName" ELSE AfterName(c, d)
             next(d) == IF d = None THEN Answer(c, "notFound")
                        ELSE call' = [call EXCEPT ![c].app = d, ![c].pc = step(d)]
  <1>1. /\ At(c, "byID")
        /\ UNCHANGED <<certs, certCaches, failures, lost, apps, clients, before, seen>>
        /\ \E d \in {appByID[a], AppRow(a)} : GetApplicationByID(c, a, TRUE, d, next(d))
    BY DEF ByID
  <1>2. /\ call[c] \in CallStates /\ call[c].pc = "byID" /\ Started(c) /\ call[c].req \in Requests
        /\ OnWay(call[c]) /\ InHand(call[c]) /\ tell[c] = Nothing
    BY <1>1, AtStep
  <1>3. /\ call[c].req.op \in {"update", "get"} /\ ~call[c].undo
        /\ a \in Ids /\ About(c) = a /\ call[c].app = None /\ call[c].cert = None
    BY <1>2, RequestFields DEF OnWay, CertWay, WayBack, InHand, About
  <1>4. PICK d \in {appByID[a], AppRow(a)} : GetApplicationByID(c, a, TRUE, d, next(d))
    BY <1>1
  <1>5. /\ AppRow(a) \in AppRows \cup {None}
        /\ AppRow(a) # None => AppRow(a).id = a /\ CurrentApp(AppRow(a))
        /\ appByID[a] \in AppRows \cup {None}
        /\ appByID[a] # None => appByID[a].id = a
        /\ apps[a] = None => AppRow(a) = None
    BY <1>3, AppRows1 DEF Base, CachesKept, CurrentApp
  <1>6. /\ tell' = tell \/ \E e \in AppRows : /\ tell' = [tell EXCEPT ![c] = Telling("app", None, e)]
                                              /\ CurrentApp(e)
        /\ appByID' = appByID \/ appByID' = [appByID EXCEPT ![a] = None]
        /\ UNCHANGED <<appByName, oauthApp>>
        /\ Answer(c, "error") \/ next(d)
        /\ d \in AppRows \cup {None} /\ (d # None => d.id = a)
    <2>1. CASE Hit(appByID[a], d, next(d))
      BY <1>5, <2>1 DEF Hit, appCaches
    <2>2. CASE /\ appByID' = [appByID EXCEPT ![a] = None]
               /\ Read(c, IF apps[a] = None THEN {} ELSE {a}, TRUE, d, next(d))
               /\ UNCHANGED <<appByName, oauthApp>>
      <3>1. d = AppRow(a)
        BY <2>2, <1>5 DEF Read, RowOf
      <3> QED
        BY <1>5, <2>2, <3>1 DEF Read
    <2> QED
      BY <2>1, <2>2, <1>4 DEF GetApplicationByID
  <1>7. /\ tell' \in [Calls -> Tellings] /\ \A e \in Calls \ {c} : tell'[e] = tell[e]
        /\ Reads(c)
    BY <1>2, <1>6, TellingRead
  <1>8. Forgetting
    BY <1>1, <1>3, <1>6, Forgets DEF certCaches
  <1>9. CASE Answer(c, "error") \/ Answer(c, "notFound")
    <2>1. PICK r \in {"error", "notFound"} : Answer(c, r)
      BY <1>9
    <2>2. Acts(c) /\ call'[c] = [call[c] EXCEPT !.pc = "done", !.reply = r]
      BY <1>1, <1>2, <1>7, <2>1, Answering DEF Replies
    <2> QED
      BY <1>1, <1>2, <1>3, <1>7, <1>8, <2>2 DEF Looks, TablesStay, CallStates
  <1>10. CASE d # None /\ call' = [call EXCEPT ![c].app = d, ![c].pc = step(d)]
    <2> DEFINE k == [call[c] EXCEPT !.app = d, !.pc = step(d)]
    <2>1. /\ step(d) \in {"certOf", "byName", "byClient"}
          /\ step(d) = "byClient" => call[c].req.op = "update" /\ call[c].req.client \notin {None, "new"}
          /\ call[c].req.op = "get" => step(d) = "certOf"
      BY <1>3, AfterNames
    <2>2. call' = [call EXCEPT ![c] = k]
      BY <1>10
    <2> HIDE DEF step
    <2>3. /\ k \in CallStates /\ k.pc = step(d)
          /\ k.req = call[c].req /\ k.reply = call[c].reply /\ k.app = d
          /\ k.cert = call[c].cert /\ k.undo = call[c].undo
      BY <1>2, <1>6, <2>1 DEF CallStates, CertSteps
    <2> HIDE DEF k
    <2>4. OnWay(k)
      BY <1>3, <2>1, <2>3 DEF OnWay
    <2>5. InHand(k)
      BY <1>2, <1>3, <1>6, <1>10, <2>1, <2>3 DEF InHand
    <2>6. Acts(c) /\ call'[c] = k
      BY <1>1, <1>2, <1>3, <1>7, <2>1, <2>2, <2>3, <2>4, <2>5, GoingOn
    <2> QED
      BY <1>1, <1>2, <1>3, <1>7, <1>8, <1>10, <2>3, <2>6 DEF Looks, TablesStay, step
  <1> QED
    BY <1>6, <1>9, <1>10

\* A deletion that reads its application goes on in any case.
LEMMA FindLooks ==
    ASSUME NEW c \in Calls, Base, Find(c)
    PROVE  /\ Looks(c)
           /\ call[c].pc = "find" /\ call[c].req.op = "delete"
           /\ \/ /\ call'[c].pc = "done" /\ call'[c].reply = "error"
                 /\ call'[c].app = call[c].app
              \/ /\ call'[c].app = None /\ apps[About(c)] = None
                 /\ call'[c].pc = "certFind"
              \/ /\ call'[c].app # None
                 /\ \/ call'[c].app = appByID[About(c)]
                    \/ call'[c].app = AppRow(About(c))
                 /\ call'[c].pc = "remove"
  <1> DEFINE a == call[c].req.app
             step(d) == IF d = None THEN "certFind" ELSE "remove"
             next(d) == call' = [call EXCEPT ![c].app = d, ![c].pc = step(d)]
  <1>1. /\ At(c, "find")
        /\ UNCHANGED <<certs, certCaches, failures, lost, apps, clients, before, seen>>
        /\ \E d \in {appByID[a], AppRow(a)} : GetApplicationByID(c, a, FALSE, d, next(d))
    BY DEF Find
  <1>2. /\ call[c] \in CallStates /\ call[c].pc = "find" /\ Started(c) /\ call[c].req \in Requests
        /\ OnWay(call[c]) /\ InHand(call[c]) /\ tell[c] = Nothing
    BY <1>1, AtStep
  <1>3. /\ call[c].req.op = "delete" /\ ~call[c].undo
        /\ a \in Ids /\ About(c) = a /\ call[c].app = None
    BY <1>2, RequestFields DEF OnWay, CertWay, WayBack, InHand, About
  <1>4. PICK d \in {appByID[a], AppRow(a)} : GetApplicationByID(c, a, FALSE, d, next(d))
    BY <1>1
  <1>5. /\ AppRow(a) \in AppRows \cup {None}
        /\ AppRow(a) # None => AppRow(a).id = a
        /\ appByID[a] \in AppRows \cup {None}
        /\ appByID[a] # None => appByID[a].id = a
        /\ AppRow(a) = None <=> apps[a] = None
    BY <1>3, AppRows1 DEF Base, CachesKept
  <1>6. /\ tell' = tell
        /\ appByID' = appByID \/ appByID' = [appByID EXCEPT ![a] = None]
        /\ UNCHANGED <<appByName, oauthApp>>
        /\ Answer(c, "error") \/ next(d)
        /\ d \in AppRows \cup {None} /\ (d # None => d.id = a)
        /\ d = None => apps[a] = None
    <2>1. CASE Hit(appByID[a], d, next(d))
      BY <1>5, <2>1 DEF Hit, appCaches
    <2>2. CASE /\ appByID' = [appByID EXCEPT ![a] = None]
               /\ Read(c, IF apps[a] = None THEN {} ELSE {a}, FALSE, d, next(d))
               /\ UNCHANGED <<appByName, oauthApp>>
      <3>1. d = AppRow(a)
        BY <2>2, <1>5 DEF Read, RowOf
      <3> QED
        BY <1>5, <2>2, <3>1 DEF Read
    <2> QED
      BY <2>1, <2>2, <1>4 DEF GetApplicationByID
  <1>7. /\ tell' \in [Calls -> Tellings] /\ \A e \in Calls \ {c} : tell'[e] = tell[e]
        /\ Reads(c)
    BY <1>2, <1>6, TellingRead
  <1>8. Forgetting
    BY <1>1, <1>3, <1>6, Forgets DEF certCaches
  <1>9. CASE Answer(c, "error")
    <2>2. Acts(c) /\ call'[c] = [call[c] EXCEPT !.pc = "done", !.reply = "error"]
      BY <1>1, <1>2, <1>7, <1>9, Answering DEF Replies
    <2> QED
      BY <1>1, <1>2, <1>3, <1>7, <1>8, <2>2 DEF Looks, TablesStay, CallStates
  <1>10. CASE next(d)
    <2> DEFINE k == [call[c] EXCEPT !.app = d, !.pc = step(d)]
    <2>1. step(d) \in {"certFind", "remove"} /\ (d # None => step(d) = "remove")
      OBVIOUS
    <2>2. call' = [call EXCEPT ![c] = k]
      BY <1>10
    <2> HIDE DEF step
    <2>3. /\ k \in CallStates /\ k.pc = step(d)
          /\ k.req = call[c].req /\ k.reply = call[c].reply /\ k.app = d
          /\ k.cert = call[c].cert /\ k.undo = call[c].undo
      BY <1>2, <1>6, <2>1 DEF CallStates, CertSteps
    <2> HIDE DEF k
    <2>4. OnWay(k)
      BY <1>3, <2>1, <2>3 DEF OnWay
    <2>5. step(d) = "remove" => d # None
      BY DEF step
    <2>6. InHand(k)
      BY <1>2, <1>3, <1>6, <2>1, <2>3, <2>5 DEF InHand
    <2>7. Acts(c) /\ call'[c] = k
      BY <1>1, <1>2, <1>3, <1>7, <2>1, <2>2, <2>3, <2>4, <2>6, GoingOn
    <2> QED
      BY <1>1, <1>2, <1>3, <1>4, <1>6, <1>7, <1>8, <2>3, <2>7 DEF Looks, TablesStay, step
  <1> QED
    BY <1>6, <1>9, <1>10

\* Rows of certificates.
LEMMA CertRowsFound ==
    ASSUME Base
    PROVE  /\ \A a \in Ids :
                 /\ CertRow(a) \in CertRows \cup {None}
                 /\ CertRow(a) = None <=> certs[a] = None
                 /\ CertRow(a) # None => CertRow(a).ref = a /\ CurrentCert(CertRow(a))
                 /\ certByReference[a] \in CertRows \cup {None}
                 /\ certByReference[a] # None => certByReference[a].ref = a
           /\ \A i \in Ids :
                 /\ CertRowByID(i) \in CertRows \cup {None}
                 /\ CertRowByID(i) # None => CurrentCert(CertRowByID(i))
  <1>1. certs \in [Ids -> Certs \cup {None}]
    BY DEF Base, TablesKept
  <1>2. \A a \in Ids : certs[a] # None => [id |-> certs[a].id, ref |-> a, value |-> certs[a].value] \in CertRows
    BY <1>1 DEF Certs, CertRows
  <1>3. \A a \in Ids :
           /\ CertRow(a) \in CertRows \cup {None}
           /\ CertRow(a) = None <=> certs[a] = None
           /\ CertRow(a) # None => CertRow(a).ref = a /\ CurrentCert(CertRow(a))
    BY <1>2, Values DEF CertRow, CurrentCert
  <1>4. \A i \in Ids :
           /\ CertRowByID(i) \in CertRows \cup {None}
           /\ CertRowByID(i) # None => CurrentCert(CertRowByID(i))
    BY <1>3 DEF CertRowByID
  <1>5. \A a \in Ids :
           /\ certByReference[a] \in CertRows \cup {None}
           /\ certByReference[a] # None => certByReference[a].ref = a
    BY DEF Base, CachesKept
  <1> QED
    BY <1>3, <1>4, <1>5

\* A lookup of a certificate leaves the tables alone, and tells of the row it read.
CertLookup(c, cached, row, r) ==
    /\ Forgetting
    /\ tell' \in [Calls -> Tellings] /\ \A e \in Calls \ {c} : tell'[e] = tell[e]
    /\ Reads(c)
    /\ (r = cached /\ r # None) \/ r = row

\* A goroutine that has read a certificate has the current one to tell the caches.
LEMMA CertRead ==
    ASSUME NEW c \in Calls, NEW row \in CertRows \cup {None}, Base, tell[c] = Nothing,
           row # None => CurrentCert(row), KeepCert(c, row)
    PROVE  /\ tell' \in [Calls -> Tellings] /\ \A e \in Calls \ {c} : tell'[e] = tell[e]
           /\ Reads(c)
  BY TellingRead DEF KeepCert

\* Two of the lookups: by the application, with and without telling the caches.
LEMMA LookupByReference ==
    ASSUME NEW c \in Calls, NEW r, NEW a \in Ids, Base, tell[c] = Nothing, UNCHANGED appCaches,
           \/ HitCert(certByReference[a], r)
           \/ /\ r = CertRow(a)
              /\ certByReference' = [certByReference EXCEPT ![a] = None]
              /\ KeepCert(c, r) \/ UNCHANGED tell
              /\ UNCHANGED certByID
    PROVE  /\ CertLookup(c, certByReference[a], CertRow(a), r)
           /\ r \in CertRows \cup {None} /\ (r # None => r.ref = a)
           /\ r = None => certs[a] = None
  <1>1. CASE HitCert(certByReference[a], r)
    <2>1. Forgetting
      BY <1>1, Forgets DEF HitCert, certCaches, appCaches
    <2> QED
      BY <1>1, <2>1, TellingRead, CertRowsFound DEF HitCert, CertLookup
  <1>2. CASE /\ r = CertRow(a)
             /\ certByReference' = [certByReference EXCEPT ![a] = None]
             /\ KeepCert(c, r) \/ UNCHANGED tell
             /\ UNCHANGED certByID
    <2>1. Forgetting
      BY <1>2, Forgets DEF appCaches
    <2>2. /\ tell' \in [Calls -> Tellings] /\ \A e \in Calls \ {c} : tell'[e] = tell[e]
          /\ Reads(c)
      BY <1>2, CertRead, CertRowsFound, TellingRead
    <2> QED
      BY <1>2, <2>1, <2>2, CertRowsFound DEF CertLookup
  <1> QED
    BY <1>1, <1>2

\* And by the ID of the certificate.
LEMMA LookupByCertID ==
    ASSUME NEW c \in Calls, NEW r, NEW i \in Ids, Base, tell[c] = Nothing, UNCHANGED appCaches,
           \/ HitCert(certByID[i], r)
           \/ /\ r = CertRowByID(i)
              /\ certByID' = [certByID EXCEPT ![i] = None]
              /\ KeepCert(c, r)
              /\ UNCHANGED certByReference
    PROVE  CertLookup(c, certByID[i], CertRowByID(i), r)
  <1>1. CASE HitCert(certByID[i], r)
    <2>1. Forgetting
      BY <1>1, Forgets DEF HitCert, certCaches, appCaches
    <2> QED
      BY <1>1, <2>1, TellingRead DEF HitCert, CertLookup
  <1>2. CASE /\ r = CertRowByID(i)
             /\ certByID' = [certByID EXCEPT ![i] = None]
             /\ KeepCert(c, r)
             /\ UNCHANGED certByReference
    <2>1. Forgetting
      BY <1>2, Forgets DEF appCaches
    <2>2. /\ tell' \in [Calls -> Tellings] /\ \A e \in Calls \ {c} : tell'[e] = tell[e]
          /\ Reads(c)
      BY <1>2, CertRead, CertRowsFound
    <2> QED
      BY <1>2, <2>1, <2>2 DEF CertLookup
  <1> QED
    BY <1>1, <1>2

\* A call that reads the certificate of its application: an update decides on its way.
LEMMA CertOfLooks ==
    ASSUME NEW c \in Calls, Base, CertOf(c)
    PROVE  /\ Looks(c)
           /\ call[c].pc = "certOf" /\ call'[c].app = call[c].app
           /\ \/ call[c].req.op = "get" /\ call'[c].pc = "done" /\ call'[c].reply = "ok"
                 /\ call'[c].cert = None
              \/ /\ call[c].req.op = "update"
                 /\ call'[c].cert = certByReference[About(c)] \/ call'[c].cert = CertRow(About(c))
                 /\ call'[c].cert = None => certs[About(c)] = None
                 /\ call'[c].pc \in {"certByID", "certExists", "certFind", "store"} /\ ~call'[c].undo
                 /\ call'[c].pc = "store" => call'[c].cert = None /\ call[c].req.cert = None
  <1> DEFINE a == About(c)
             step(r) == IF call[c].req.cert # None
                        THEN IF r # None THEN "certByID" ELSE "certExists"
                        ELSE IF r # None THEN "certFind" ELSE "store"
             next(r) == IF call[c].req.op = "get" THEN Answer(c, "ok")
                        ELSE call' = [call EXCEPT ![c].cert = r, ![c].pc = step(r)]
  <1>1. /\ At(c, "certOf") /\ UNCHANGED <<certs, failures, lost, appVars>>
        /\ \E r \in {certByReference[a], CertRow(a)} : GetCertificateByReference(c, a, r, next(r))
    BY DEF CertOf
  <1>2. /\ call[c] \in CallStates /\ call[c].pc = "certOf" /\ Started(c) /\ call[c].req \in Requests
        /\ OnWay(call[c]) /\ InHand(call[c]) /\ tell[c] = Nothing
    BY <1>1, AtStep
  <1>3. /\ call[c].req.op \in {"update", "get"} /\ ~call[c].undo
        /\ a \in Ids /\ a = call[c].req.app /\ call[c].cert = None
    BY <1>2, RequestFields DEF OnWay, CertWay, WayBack, InHand, About
  <1>4. PICK r : /\ next(r)
                 /\ \/ HitCert(certByReference[a], r)
                    \/ /\ r = CertRow(a)
                       /\ certByReference' = [certByReference EXCEPT ![a] = None]
                       /\ KeepCert(c, r)
                       /\ UNCHANGED certByID
    BY <1>1 DEF GetCertificateByReference
  <1>5. UNCHANGED appCaches
    BY <1>1 DEF appVars
  <1> HIDE DEF next
  <1>6. /\ CertLookup(c, certByReference[a], CertRow(a), r)
        /\ r \in CertRows \cup {None} /\ (r # None => r.ref = a)
        /\ r = None => certs[a] = None
    <2>1. \/ HitCert(certByReference[a], r)
          \/ /\ r = CertRow(a)
             /\ certByReference' = [certByReference EXCEPT ![a] = None]
             /\ KeepCert(c, r) \/ UNCHANGED tell
             /\ UNCHANGED certByID
      BY <1>4
    <2>2. a \in Ids /\ tell[c] = Nothing
      BY <1>2, <1>3
    <2> HIDE DEF a
    <2> QED
      BY <2>1, <2>2, <1>5, LookupByReference
  <1>7. /\ tell' \in [Calls -> Tellings] /\ \A e \in Calls \ {c} : tell'[e] = tell[e]
        /\ Reads(c) /\ Forgetting
        /\ UNCHANGED <<before, seen>> /\ TablesStay
    BY <1>1, <1>6 DEF CertLookup, appVars, TablesStay
  <1>8. CASE call[c].req.op = "get"
    <2>1. Acts(c) /\ call'[c] = [call[c] EXCEPT !.pc = "done", !.reply = "ok"]
      BY <1>2, <1>4, <1>7, <1>8, Answering DEF Replies, next
    <2> QED
      BY <1>2, <1>3, <1>7, <1>8, <2>1 DEF Looks, CallStates
  <1>9. CASE call[c].req.op = "update"
    <2> DEFINE k == [call[c] EXCEPT !.cert = r, !.pc = step(r)]
    <2>1. /\ step(r) = "store" => r = None /\ call[c].req.cert = None
          /\ step(r) # "store" => step(r) \in CertWay(r, call[c].req.cert)
          /\ step(r) \in {"certByID", "certExists", "certFind", "store"}
      BY DEF CertWay
    <2>2. call' = [call EXCEPT ![c] = k]
      BY <1>4, <1>9 DEF next
    <2> HIDE DEF step
    <2>3. /\ k \in CallStates /\ k.pc = step(r)
          /\ k.req = call[c].req /\ k.reply = call[c].reply /\ k.app = call[c].app
          /\ k.cert = r /\ k.undo = call[c].undo
      BY <1>2, <1>6, <2>1 DEF CallStates, CertSteps
    <2> HIDE DEF k
    <2>4. OnWay(k)
      BY <1>3, <1>9, <2>1, <2>3 DEF OnWay
    <2>5. InHand(k)
      BY <1>2, <1>3, <1>6, <1>9, <2>1, <2>3 DEF InHand
    <2>6. Acts(c) /\ call'[c] = k
      BY <1>2, <1>3, <1>7, <2>1, <2>2, <2>3, <2>4, <2>5, GoingOn
    <2>7. r = certByReference[a] \/ r = CertRow(a)
      BY <1>6 DEF CertLookup
    <2> QED
      BY <1>2, <1>3, <1>6, <1>7, <1>9, <2>1, <2>3, <2>6, <2>7 DEF Looks
  <1> QED
    BY <1>3, <1>8, <1>9

\* A call that stays at a step with the same things in hand.
Holds(c) ==
    /\ call'[c].app = call[c].app /\ call'[c].cert = call[c].cert /\ call'[c].undo = call[c].undo

\* A call goes to a step that is on its way with what it has in hand.
LEMMA Goes ==
    ASSUME NEW c \in Calls, NEW pc \in CertSteps \cup {"store"}, pc # "certOf", Base,
           Started(c), call[c].pc \in CertSteps \cup {"remove"}, call[c].pc # "certOf", Goto(c, pc),
           OnWay(call[c]) => OnWay([call[c] EXCEPT !.pc = pc]),
           pc = "certDelete" => call[c].found # None,
           tell' \in [Calls -> Tellings], \A d \in Calls \ {c} : tell'[d] = tell[d],
           UNCHANGED <<before, seen>>
    PROVE  /\ Acts(c) /\ Holds(c)
           /\ call'[c].pc = pc /\ call'[c].reply = call[c].reply /\ call'[c].found = call[c].found
  <1> DEFINE k == [call[c] EXCEPT !.pc = pc]
  <1>1. call[c] \in CallStates /\ CallKept(c) /\ call[c].pc # "done" /\ call[c] # Idle
    BY DEF Base, Started, Idle, CertSteps
  <1>2. /\ k \in CallStates /\ k.pc = pc
        /\ k.req = call[c].req /\ k.reply = call[c].reply /\ k.app = call[c].app
        /\ k.cert = call[c].cert /\ k.undo = call[c].undo /\ k.found = call[c].found
    BY <1>1 DEF CallStates, CertSteps
  <1>3. OnWay(k) /\ OnWay(call[c]) /\ InHand(call[c])
    BY <1>1 DEF CallKept
  <1>4. call' = [call EXCEPT ![c] = k]
    BY DEF Goto
  <1> HIDE DEF k
  <1>5. pc \notin {"byID", "find", "remove", "byName", "byClient", "certOf", "idle", "done"}
    BY DEF CertSteps
  <1>6. InHand(k)
    BY <1>2, <1>3, <1>5 DEF InHand, CertSteps
  <1>7. Acts(c) /\ call'[c] = k
    BY <1>1, <1>2, <1>3, <1>4, <1>5, <1>6, GoingOn
  <1> QED
    BY <1>2, <1>7 DEF Holds

\* A call in one of the steps about its certificate.
LEMMA AtCertStep ==
    ASSUME NEW c \in Calls, NEW pc \in CertSteps, pc # "certOf", Base, At(c, pc)
    PROVE  /\ call[c] \in CallStates /\ call[c].pc = pc /\ Started(c) /\ call[c].req \in Requests
           /\ OnWay(call[c]) /\ InHand(call[c]) /\ tell[c] = Nothing
           /\ call[c].req.op \in {"create", "update", "delete"}
           /\ About(c) \in Ids
           /\ call[c].pc # "done" /\ call[c].reply = None
           /\ call[c].req.op = "create" => About(c) = c
           /\ call[c].req.op # "create" => About(c) = call[c].req.app
  <1>1. /\ call[c] \in CallStates /\ call[c].pc = pc /\ Started(c) /\ call[c].req \in Requests
        /\ OnWay(call[c]) /\ InHand(call[c]) /\ tell[c] = Nothing
        /\ call[c].pc # "done" => call[c].reply = None
    BY AtStep DEF CertSteps
  <1>2. call[c].req.op \in {"create", "update", "delete"} /\ call[c].pc # "done"
    BY <1>1 DEF OnWay, CertSteps
  <1> QED
    BY <1>1, <1>2, RequestFields, Values DEF About

\* A look for a certificate that must not be there.
LEMMA CertExistsLooks ==
    ASSUME NEW c \in Calls, Base, CertExists(c), UNCHANGED appVars
    PROVE  /\ Looks(c) /\ Holds(c)
           /\ call[c].pc = "certExists"
           /\ \/ call'[c].pc = "done" /\ call'[c].reply = "certError"
              \/ call'[c].pc = "certInsert" /\ certs[About(c)] = None
  <1> DEFINE a == About(c)
             next(r) == IF r = None THEN Goto(c, "certInsert") ELSE CertFailed(c)
  <1>1. /\ At(c, "certExists") /\ UNCHANGED <<certs, failures, lost>>
        /\ \E r \in {certByReference[a], CertRow(a)} : GetCertificateByReference(c, a, r, next(r))
    BY DEF CertExists
  <1>2. /\ call[c] \in CallStates /\ call[c].pc = "certExists" /\ Started(c) /\ call[c].req \in Requests
        /\ OnWay(call[c]) /\ InHand(call[c]) /\ tell[c] = Nothing /\ a \in Ids
    BY <1>1, AtCertStep DEF CertSteps
  <1>3. UNCHANGED appCaches /\ UNCHANGED <<before, seen>> /\ TablesStay
    BY <1>1 DEF appVars, TablesStay
  <1>4. PICK r : /\ next(r)
                 /\ \/ HitCert(certByReference[a], r)
                    \/ /\ r = CertRow(a)
                       /\ certByReference' = [certByReference EXCEPT ![a] = None]
                       /\ KeepCert(c, r)
                       /\ UNCHANGED certByID
    BY <1>1 DEF GetCertificateByReference
  <1>5. /\ CertLookup(c, certByReference[a], CertRow(a), r)
        /\ r = None => certs[a] = None
    BY <1>2, <1>3, <1>4, LookupByReference
  <1>6. CASE r # None
    <2>1. Acts(c) /\ call'[c] = [call[c] EXCEPT !.pc = "done", !.reply = "certError"]
      BY <1>2, <1>3, <1>4, <1>5, <1>6, Answering DEF Replies, CertFailed, CertLookup
    <2> QED
      BY <1>2, <1>3, <1>5, <2>1 DEF Looks, CallStates, CertLookup, Holds
  <1>7. CASE r = None
    <2>1. OnWay(call[c]) => OnWay([call[c] EXCEPT !.pc = "certInsert"])
      BY <1>2 DEF OnWay, CallStates, CertWay, WayBack
    <2>2. Acts(c) /\ Holds(c) /\ call'[c].pc = "certInsert"
      BY <1>2, <1>3, <1>4, <1>5, <1>7, <2>1, Goes DEF CertSteps, CertLookup
    <2> QED
      BY <1>2, <1>3, <1>5, <1>7, <2>2 DEF Looks, CertLookup
  <1> QED
    BY <1>6, <1>7

\* A look for a certificate that has to be there.
LEMMA CertByIDLooks ==
    ASSUME NEW c \in Calls, Base, CertByID(c), UNCHANGED appVars
    PROVE  /\ Looks(c) /\ Holds(c)
           /\ call[c].pc = "certByID"
           /\ \/ call'[c].pc = "done" /\ call'[c].reply = "certError"
              \/ call'[c].pc = "certUpdate"
  <1> DEFINE i == call[c].cert.id
             next(r) == IF r = None THEN CertFailed(c) ELSE Goto(c, "certUpdate")
  <1>1. /\ At(c, "certByID") /\ UNCHANGED <<certs, failures, lost>>
        /\ \E r \in {certByID[i], CertRowByID(i)} : GetCertificateByID(c, i, r, next(r))
    BY DEF CertByID
  <1>2. /\ call[c] \in CallStates /\ call[c].pc = "certByID" /\ Started(c) /\ call[c].req \in Requests
        /\ OnWay(call[c]) /\ InHand(call[c]) /\ tell[c] = Nothing
    BY <1>1, AtCertStep DEF CertSteps
  <1>3. UNCHANGED appCaches /\ UNCHANGED <<before, seen>> /\ TablesStay
    BY <1>1 DEF appVars, TablesStay
  <1>4. i \in Ids
    <2>1. call[c].cert # None
      BY <1>2 DEF OnWay, CertWay, WayBack
    <2> QED
      BY <1>2, <2>1 DEF CallStates, CertRows
  <1>5. PICK r : /\ next(r)
                 /\ \/ HitCert(certByID[i], r)
                    \/ /\ r = CertRowByID(i)
                       /\ certByID' = [certByID EXCEPT ![i] = None]
                       /\ KeepCert(c, r)
                       /\ UNCHANGED certByReference
    BY <1>1 DEF GetCertificateByID
  <1>6. CertLookup(c, certByID[i], CertRowByID(i), r)
    BY <1>2, <1>3, <1>4, <1>5, LookupByCertID
  <1>7. CASE r = None
    <2>1. Acts(c) /\ call'[c] = [call[c] EXCEPT !.pc = "done", !.reply = "certError"]
      BY <1>2, <1>3, <1>5, <1>6, <1>7, Answering DEF Replies, CertFailed, CertLookup
    <2> QED
      BY <1>2, <1>3, <1>6, <2>1 DEF Looks, CallStates, CertLookup, Holds
  <1>8. CASE r # None
    <2>1. OnWay(call[c]) => OnWay([call[c] EXCEPT !.pc = "certUpdate"])
      BY <1>2 DEF OnWay, CallStates, CertWay, WayBack
    <2>2. Acts(c) /\ Holds(c) /\ call'[c].pc = "certUpdate"
      BY <1>2, <1>3, <1>5, <1>6, <1>8, <2>1, Goes DEF CertSteps, CertLookup
    <2> QED
      BY <1>2, <1>3, <1>6, <2>2 DEF Looks, CertLookup
  <1> QED
    BY <1>7, <1>8

\* The course of a call after its step about the certificate.
LEMMA AfterCerts ==
    ASSUME NEW c \in Calls, Base, Started(c), call[c].req.op \in {"create", "update", "delete"},
           call[c].pc \in {"certInsert", "certUpdate", "certFind", "certDelete"},
           AfterCert(c),
           tell' \in [Calls -> Tellings], \A d \in Calls \ {c} : tell'[d] = tell[d],
           UNCHANGED <<before, seen>>
    PROVE  /\ Acts(c) /\ Holds(c)
           /\ IF call[c].undo THEN call'[c].pc = "done" /\ call'[c].reply = "error"
              ELSE IF call[c].req.op = "delete" THEN call'[c].pc = "done" /\ call'[c].reply = "ok"
              ELSE call'[c].pc = "store"
  <1>1. call[c] \in CallStates /\ call[c].pc # "done"
    BY DEF Base
  <1>2. CASE \E r \in {"ok", "error"} : Answer(c, r)
    <2>1. PICK r \in {"ok", "error"} : Answer(c, r)
      BY <1>2
    <2>2. Acts(c) /\ call'[c] = [call[c] EXCEPT !.pc = "done", !.reply = r]
      BY <1>1, <2>1, Answering DEF Replies
    <2>3. Holds(c) /\ call'[c].pc = "done" /\ call'[c].reply = r
      BY <1>1, <2>2 DEF CallStates, Holds
    <2>4. AfterCert(c) => \/ call[c].undo /\ Answer(c, "error")
                          \/ ~call[c].undo /\ call[c].req.op = "delete" /\ Answer(c, "ok")
                          \/ ~call[c].undo /\ call[c].req.op # "delete" /\ Goto(c, "store")
      BY DEF AfterCert
    <2>5. Goto(c, "store") => call'[c].pc = "store"
      BY <1>1 DEF Goto, Base, CallStates
    <2>6. \A s \in {"ok", "error"} : Answer(c, s) => call'[c].reply = s
      BY <1>1 DEF Answer, Base, CallStates
    <2> QED
      BY <2>2, <2>3, <2>4, <2>5, <2>6
  <1>3. CASE Goto(c, "store") /\ ~call[c].undo /\ call[c].req.op # "delete"
    <2>1. OnWay(call[c]) => OnWay([call[c] EXCEPT !.pc = "store"])
      BY <1>1, <1>3 DEF OnWay, CallStates
    <2> QED
      BY <1>1, <1>3, <2>1, Goes DEF CertSteps
  <1> QED
    BY <1>2, <1>3 DEF AfterCert

\* A look for the certificate to delete.
LEMMA CertFindLooks ==
    ASSUME NEW c \in Calls, Base, CertFind(c), UNCHANGED appVars
    PROVE  /\ Looks(c) /\ Holds(c)
           /\ call[c].pc = "certFind"
           /\ \/ /\ certs[About(c)] = None
                 /\ IF call[c].undo THEN call'[c].pc = "done" /\ call'[c].reply = "error"
                    ELSE IF call[c].req.op = "delete" THEN call'[c].pc = "done" /\ call'[c].reply = "ok"
                    ELSE call'[c].pc = "store"
              \/ /\ call'[c].pc = "certDelete"
                 /\ call'[c].found = certByReference[About(c)] \/ call'[c].found = CertRow(About(c))
                 /\ call'[c].found # None
  <1> DEFINE a == About(c)
             next(r) == IF r = None THEN AfterCert(c)
                        ELSE call' = [call EXCEPT ![c].pc = "certDelete", ![c].found = r]
  <1>1. /\ At(c, "certFind") /\ UNCHANGED <<certs, failures, lost>>
        /\ \E r \in {certByReference[a], CertRow(a)} : FindCertificate(c, a, r, next(r))
    BY DEF CertFind
  <1>2. /\ call[c] \in CallStates /\ call[c].pc = "certFind" /\ Started(c) /\ call[c].req \in Requests
        /\ OnWay(call[c]) /\ InHand(call[c]) /\ tell[c] = Nothing /\ a \in Ids
        /\ call[c].req.op \in {"create", "update", "delete"}
    BY <1>1, AtCertStep DEF CertSteps
  <1>3. UNCHANGED appCaches /\ UNCHANGED <<before, seen>> /\ TablesStay
    BY <1>1 DEF appVars, TablesStay
  <1>4. PICK r : /\ next(r)
                 /\ \/ HitCert(certByReference[a], r)
                    \/ /\ r = CertRow(a)
                       /\ certByReference' = [certByReference EXCEPT ![a] = None]
                       /\ UNCHANGED <<certByID, tell>>
    BY <1>1 DEF FindCertificate
  <1>5. /\ CertLookup(c, certByReference[a], CertRow(a), r)
        /\ r \in CertRows \cup {None} /\ (r # None => r.ref = a)
        /\ r = None => certs[a] = None
    BY <1>2, <1>3, <1>4, LookupByReference
  <1>6. CASE r = None
    BY <1>2, <1>3, <1>4, <1>5, <1>6, AfterCerts DEF Looks, CertLookup
  <1>7. CASE r # None
    <2> DEFINE k == [call[c] EXCEPT !.pc = "certDelete", !.found = r]
    <2>1. call' = [call EXCEPT ![c] = k]
      BY <1>4, <1>7
    <2>2. /\ k \in CallStates /\ k.pc = "certDelete"
          /\ k.req = call[c].req /\ k.reply = call[c].reply /\ k.app = call[c].app
          /\ k.cert = call[c].cert /\ k.undo = call[c].undo /\ k.found = r
      BY <1>2, <1>5 DEF CallStates, CertSteps
    <2> HIDE DEF k
    <2>3. OnWay(k)
      BY <1>2, <2>2 DEF OnWay, CertWay, WayBack
    <2>4. InHand(k)
      BY <1>2, <1>7, <2>2 DEF InHand
    <2>5. Acts(c) /\ call'[c] = k
      BY <1>2, <1>3, <1>5, <2>1, <2>2, <2>3, <2>4, GoingOn DEF CertLookup
    <2> QED
      BY <1>2, <1>3, <1>5, <1>7, <2>2, <2>5 DEF Looks, CertLookup, Holds
  <1> QED
    BY <1>6, <1>7

-----------------------------------------------------------------------------
(* Steps that write.                                                       *)

\* What a writing step leaves alone, of the caches.
CachesStay == UNCHANGED <<appCaches, certCaches>>

\* A statement was applied and reported as failed.
Misreported(c) == lost' /\ tell' = tell

\* Caches that stay as they are stay well-typed.
LEMMA CachesStayKept ==
    ASSUME Base, CachesStay
    PROVE  CachesKept'
  BY DEF Base, CachesStay, CachesKept, appCaches, certCaches

\* A call that takes back its change of the certificate, if there is any.
RolledBack(c) ==
    \/ /\ call'[c].pc = "done" /\ call'[c].reply = "error"
       /\ call'[c].undo = call[c].undo
       /\ call[c].cert = None /\ call[c].req.cert = None
    \/ /\ call'[c].undo
       /\ call'[c].pc \in WayBack(call[c].cert, call[c].req.cert)
       /\ call'[c].pc \in {"certFind", "certByID", "certExists"}

\* A call whose row was not stored ends, or begins to take its change of the certificate back.
LEMMA RollsBack ==
    ASSUME NEW c \in Calls, Base, Started(c), call[c].pc = "store", Rollback(c),
           tell' \in [Calls -> Tellings], \A d \in Calls \ {c} : tell'[d] = tell[d],
           UNCHANGED <<before, seen>>
    PROVE  /\ Acts(c) /\ RolledBack(c)
           /\ call'[c].app = call[c].app /\ call'[c].cert = call[c].cert
  <1>1. /\ call[c] \in CallStates /\ CallKept(c) /\ call[c] # Idle
        /\ call[c].req \in Requests
        /\ OnWay(call[c]) /\ InHand(call[c])
    BY DEF Base, Idle, CallKept
  <1>2. /\ call[c].req.op \in {"create", "update"} /\ ~call[c].undo
        /\ call[c].req.op = "create" => call[c].cert = None
    BY <1>1 DEF OnWay, CertWay, WayBack, InHand
  <1> DEFINE back(pc) == [call[c] EXCEPT !.pc = pc, !.undo = TRUE]
  <1>3. CASE call[c].req.cert = None /\ call[c].cert = None
    <2>1. Acts(c) /\ call'[c] = [call[c] EXCEPT !.pc = "done", !.reply = "error"]
      BY <1>3, Answering DEF Replies, Rollback
    <2> QED
      BY <1>1, <1>3, <2>1 DEF RolledBack, CallStates
  <1>4. ASSUME NEW pc \in {"certFind", "certByID", "certExists"},
               pc \in WayBack(call[c].cert, call[c].req.cert),
               call' = [call EXCEPT ![c] = back(pc)]
        PROVE  /\ Acts(c) /\ RolledBack(c)
               /\ call'[c].app = call[c].app /\ call'[c].cert = call[c].cert
    <2> DEFINE k == back(pc)
    <2>1. /\ k \in CallStates /\ k.pc = pc
          /\ k.req = call[c].req /\ k.reply = call[c].reply /\ k.app = call[c].app
          /\ k.cert = call[c].cert /\ k.undo = TRUE
      BY <1>1 DEF CallStates, CertSteps
    <2>2. call' = [call EXCEPT ![c] = k]
      BY <1>4
    <2> HIDE DEF k, back
    <2>3. OnWay(k)
      BY <1>2, <1>4, <2>1 DEF OnWay, WayBack
    <2>4. InHand(k)
      BY <1>1, <1>2, <2>1 DEF InHand
    <2>5. Acts(c) /\ call'[c] = k
      BY <1>1, <2>1, <2>2, <2>3, <2>4, GoingOn
    <2> QED
      BY <1>4, <2>1, <2>5 DEF RolledBack
  <1>5. CASE ~(call[c].req.cert = None /\ call[c].cert = None)
    <2>1. \E pc \in {"certFind", "certByID", "certExists"} :
             /\ pc \in WayBack(call[c].cert, call[c].req.cert)
             /\ call' = [call EXCEPT ![c] = back(pc)]
      BY <1>5 DEF Rollback, WayBack
    <2> QED
      BY <1>4, <2>1
  <1> QED
    BY <1>3, <1>5

\* What is stored is a row of the join.
LEMMA StoredRows ==
    ASSUME NEW c \in Calls, Base, Stores(c)
    PROVE  /\ About(c) \in Ids
           /\ ClientID(c) \in Clients \cup {None}
           /\ Stored(c) \in AppRows
           /\ Stored(c).id = About(c) /\ Stored(c).name = call[c].req.name /\ Stored(c).by = c
           /\ ClientID(c) # None =>
                 /\ NewClient(c) \in ClientTable
                 /\ Stored(c).oauth = Client(NewClient(c)) /\ Stored(c).oauth \in ClientRows
           /\ ClientID(c) = None => Stored(c).oauth = None
           /\ call[c].req.name \in Names
  <1>1. call[c].req \in Requests /\ call[c].req.op \in {"create", "update"}
    BY DEF Base, CallKept, Stores, Started, Idle, Op
  <1>2. /\ About(c) \in Ids /\ call[c].req.name \in Names
        /\ ClientID(c) \in Clients \cup {None}
    BY <1>1, RequestFields, Values DEF About, ClientID
  <1>3. ClientID(c) # None => [client |-> ClientID(c), app |-> About(c), by |-> c] \in ClientRows
    BY <1>2, Values DEF ClientRows
  <1>4. Stored(c) \in AppRows
    BY <1>2, <1>3, Values DEF Stored, AppRows
  <1>5. ClientID(c) # None => NewClient(c) \in ClientTable
    BY <1>2, Values DEF NewClient, ClientTable
  <1> QED
    BY <1>2, <1>3, <1>4, <1>5 DEF Stored, NewClient, Client

\* A call that stores its application is past it, whatever it was told.
LEMMA StoreActs ==
    ASSUME NEW c \in Calls, Base, Store(c)
    PROVE  /\ Acts(c) /\ Stores(c) /\ call[c].pc = "store" /\ ~call[c].undo
           /\ tell[c] = Nothing
           /\ CachesStay /\ UNCHANGED certs
           /\ call'[c].app = call[c].app /\ call'[c].cert = call[c].cert
           /\ \/ /\ Refused(c) /\ Op(c) = "update"
                 /\ RolledBack(c) /\ UNCHANGED <<apps, clients, tell, lost>>
              \/ /\ \/ Op(c) = "create" /\ InsertRows(c)
                    \/ Op(c) = "update" /\ ~Refused(c) /\ UpdateRows(c)
                 /\ \/ RolledBack(c) /\ Misreported(c)
                    \/ /\ call'[c].pc = "done" /\ call'[c].reply = "ok"
                       /\ tell'[c] = Telling("app", IF Op(c) = "create" THEN None ELSE call[c].app,
                                             Stored(c))
                       /\ lost' = lost
  <1>1. At(c, "store") /\ UNCHANGED <<certs, certCaches, appCaches, before, seen>>
    BY DEF Store
  <1>2. /\ call[c] \in CallStates /\ call[c].pc = "store" /\ Started(c) /\ call[c].req \in Requests
        /\ OnWay(call[c]) /\ tell[c] = Nothing
    BY <1>1, AtStep
  <1>3. call[c].req.op \in {"create", "update"} /\ ~call[c].undo /\ Stores(c)
    BY <1>2 DEF OnWay, CertWay, WayBack, Stores, Op
  <1>4. tell \in [Calls -> Tellings] /\ CachesStay
    BY <1>1 DEF Base, CachesStay
  <1> DEFINE drop == IF Op(c) = "create" THEN None ELSE call[c].app
             told == Telling("app", drop, Stored(c))
  <1>5. told \in Tellings
    BY <1>2, <1>3, StoredRows DEF Telling, Tellings, CallStates
  <1> DEFINE rows == \/ Op(c) = "create" /\ InsertRows(c)
                     \/ Op(c) = "update" /\ ~Refused(c) /\ UpdateRows(c)
  <1>6. \/ Refused(c) /\ Op(c) = "update" /\ Rollback(c) /\ UNCHANGED <<apps, clients, tell, lost>>
        \/ rows /\ Rollback(c) /\ Misreported(c)
        \/ rows /\ Answer(c, "ok") /\ tell' = [tell EXCEPT ![c] = told] /\ lost' = lost
    BY <1>1 DEF Store, CreateApplication, UpdateApplication, Reported, Misreported, Op
  <1>7. Rollback(c) /\ tell' = tell =>
           /\ Acts(c) /\ RolledBack(c)
           /\ call'[c].app = call[c].app /\ call'[c].cert = call[c].cert
    BY <1>1, <1>2, <1>4, RollsBack
  <1> HIDE DEF rows
  <1>8. CASE rows /\ Answer(c, "ok") /\ tell' = [tell EXCEPT ![c] = told] /\ lost' = lost
    <2>1. /\ tell' \in [Calls -> Tellings] /\ \A d \in Calls \ {c} : tell'[d] = tell[d]
          /\ tell'[c] = told
      BY <1>4, <1>5, <1>8
    <2>2. Acts(c) /\ call'[c] = [call[c] EXCEPT !.pc = "done", !.reply = "ok"]
      BY <1>1, <1>2, <1>8, <2>1, Answering DEF Replies
    <2>3. /\ call'[c].pc = "done" /\ call'[c].reply = "ok"
          /\ call'[c].app = call[c].app /\ call'[c].cert = call[c].cert
      BY <1>2, <2>2 DEF CallStates
    <2> QED
      BY <1>1, <1>2, <1>3, <1>4, <1>8, <2>1, <2>2, <2>3 DEF rows
  <1>9. CASE Refused(c) /\ Op(c) = "update" /\ Rollback(c) /\ UNCHANGED <<apps, clients, tell, lost>>
    BY <1>1, <1>2, <1>3, <1>4, <1>7, <1>9
  <1>10. CASE rows /\ Rollback(c) /\ Misreported(c)
    BY <1>1, <1>2, <1>3, <1>4, <1>7, <1>10 DEF rows, Misreported
  <1> QED
    BY <1>6, <1>8, <1>9, <1>10

\* A deletion goes on to the certificate when the rows are removed.
LEMMA RemoveActs ==
    ASSUME NEW c \in Calls, Base, Remove(c)
    PROVE  /\ Acts(c) /\ Holds(c) /\ call[c].pc = "remove" /\ call[c].req.op = "delete"
           /\ tell[c] = Nothing /\ About(c) \in Ids
           /\ call[c].app # None
           /\ CachesStay /\ UNCHANGED certs
           /\ apps' = [apps EXCEPT ![About(c)] = None]
           /\ clients' = clients \ ClientsOf(About(c))
           /\ \/ call'[c].pc = "done" /\ call'[c].reply = "error" /\ Misreported(c)
              \/ /\ call'[c].pc = "certFind" /\ lost' = lost
                 /\ tell'[c] = Telling("app", call[c].app, None)
  <1>1. /\ At(c, "remove") /\ UNCHANGED <<certs, certCaches, appCaches, before, seen>>
        /\ apps' = [apps EXCEPT ![About(c)] = None]
        /\ clients' = clients \ ClientsOf(About(c))
        /\ Reported(c, Goto(c, "certFind"), Telling("app", call[c].app, None), Answer(c, "error"))
    BY DEF Remove
  <1>2. /\ call[c] \in CallStates /\ call[c].pc = "remove" /\ Started(c) /\ call[c].req \in Requests
        /\ OnWay(call[c]) /\ InHand(call[c]) /\ tell[c] = Nothing
    BY <1>1, AtStep
  <1>3. call[c].req.op = "delete" /\ ~call[c].undo /\ About(c) \in Ids /\ call[c].app # None
    BY <1>2, RequestFields DEF OnWay, CertWay, WayBack, About, InHand
  <1>4. tell \in [Calls -> Tellings] /\ CachesStay
    BY <1>1 DEF Base, CachesStay
  <1>5. CASE Answer(c, "error") /\ Misreported(c)
    <2>1. Acts(c) /\ call'[c] = [call[c] EXCEPT !.pc = "done", !.reply = "error"]
      BY <1>1, <1>2, <1>4, <1>5, Answering DEF Replies, Misreported
    <2>2. Holds(c) /\ call'[c].pc = "done" /\ call'[c].reply = "error"
      BY <1>2, <2>1 DEF CallStates, Holds
    <2> QED
      BY <1>1, <1>2, <1>3, <1>4, <1>5, <2>1, <2>2
  <1>6. CASE /\ Goto(c, "certFind") /\ lost' = lost
             /\ tell' = [tell EXCEPT ![c] = Telling("app", call[c].app, None)]
    <2>1. Telling("app", call[c].app, None) \in Tellings
      BY <1>2 DEF Telling, Tellings, CallStates
    <2>2. /\ tell' \in [Calls -> Tellings] /\ \A d \in Calls \ {c} : tell'[d] = tell[d]
          /\ tell'[c] = Telling("app", call[c].app, None)
      BY <1>4, <1>6, <2>1
    <2>3. OnWay(call[c]) => OnWay([call[c] EXCEPT !.pc = "certFind"])
      BY <1>2, <1>3 DEF OnWay, CallStates
    <2>4. Acts(c) /\ Holds(c) /\ call'[c].pc = "certFind"
      BY <1>1, <1>2, <1>6, <2>2, <2>3, Goes DEF CertSteps
    <2> QED
      BY <1>1, <1>2, <1>3, <1>4, <1>6, <2>2, <2>4
  <1> QED
    BY <1>1, <1>5, <1>6 DEF Reported, Misreported

\* A step about the certificate failed, or it is done.
CertFails(c) == call'[c].pc = "done" /\ call'[c].reply = "certError"

CertDone(c) ==
    IF call[c].undo THEN call'[c].pc = "done" /\ call'[c].reply = "error"
    ELSE IF call[c].req.op = "delete" THEN call'[c].pc = "done" /\ call'[c].reply = "ok"
    ELSE call'[c].pc = "store"

\* What becomes of the call when a statement about the certificate was applied.
LEMMA CertWritten ==
    ASSUME NEW c \in Calls, NEW t \in Tellings, Base, Started(c), tell[c] = Nothing,
           call[c].req.op \in {"create", "update", "delete"},
           call[c].pc \in {"certInsert", "certUpdate", "certDelete"},
           Reported(c, AfterCert(c), t, CertFailed(c)),
           UNCHANGED <<before, seen>>
    PROVE  /\ Acts(c) /\ Holds(c)
           /\ \/ CertFails(c) /\ Misreported(c)
              \/ CertDone(c) /\ lost' = lost /\ tell'[c] = t
  <1>1. call[c] \in CallStates /\ call[c].pc # "done" /\ tell \in [Calls -> Tellings]
    BY DEF Base
  <1>2. CASE CertFailed(c) /\ Misreported(c)
    <2>1. Acts(c) /\ call'[c] = [call[c] EXCEPT !.pc = "done", !.reply = "certError"]
      BY <1>1, <1>2, Answering DEF Replies, Misreported, CertFailed
    <2> QED
      BY <1>1, <1>2, <2>1 DEF CallStates, Holds, CertFails
  <1>3. CASE AfterCert(c) /\ tell' = [tell EXCEPT ![c] = t] /\ lost' = lost
    <2>1. /\ tell' \in [Calls -> Tellings] /\ \A d \in Calls \ {c} : tell'[d] = tell[d]
          /\ tell'[c] = t
      BY <1>1, <1>3
    <2> QED
      BY <1>3, <2>1, AfterCerts DEF CertDone
  <1> QED
    BY <1>2, <1>3 DEF Reported, Misreported

\* A statement about the certificate was not applied.
LEMMA CertNotWritten ==
    ASSUME NEW c \in Calls, Base, Started(c), call[c].pc # "done", CertFailed(c), UNCHANGED tell,
           UNCHANGED <<before, seen>>
    PROVE  Acts(c) /\ Holds(c) /\ CertFails(c)
  <1>1. call[c] \in CallStates /\ tell \in [Calls -> Tellings]
    BY DEF Base
  <1>2. Acts(c) /\ call'[c] = [call[c] EXCEPT !.pc = "done", !.reply = "certError"]
    BY <1>1, Answering DEF Replies, CertFailed
  <1> QED
    BY <1>1, <1>2 DEF CallStates, Holds, CertFails

\* The value that a call gives the certificate.
Value(c) == IF call[c].undo THEN call[c].cert.value ELSE call[c].req.cert

\* The insertion of a certificate, which the key of the table may refuse.
LEMMA CertInsertActs ==
    ASSUME NEW c \in Calls, Base, CertInsert(c), UNCHANGED appVars
    PROVE  /\ Acts(c) /\ Holds(c) /\ Stores(c) /\ call[c].pc = "certInsert"
           /\ tell[c] = Nothing /\ About(c) \in Ids /\ Value(c) \in CertValues
           /\ CachesStay /\ UNCHANGED <<apps, clients>>
           /\ \/ CertFails(c) /\ UNCHANGED <<certs, tell, lost>>
              \/ /\ certs[About(c)] = None
                 /\ certs' = [certs EXCEPT ![About(c)] = [id |-> c, value |-> Value(c)]]
                 /\ \/ CertFails(c) /\ Misreported(c)
                    \/ /\ CertDone(c) /\ lost' = lost
                       /\ tell'[c] = Telling("cert", None,
                                        [id |-> c, ref |-> About(c), value |-> Value(c)])
  <1>1. At(c, "certInsert") /\ UNCHANGED certCaches
    BY DEF CertInsert
  <1>2. /\ call[c] \in CallStates /\ call[c].pc = "certInsert" /\ Started(c) /\ call[c].req \in Requests
        /\ OnWay(call[c]) /\ tell[c] = Nothing /\ About(c) \in Ids
        /\ call[c].req.op \in {"create", "update", "delete"}
    BY <1>1, AtCertStep DEF CertSteps
  <1>3. Stores(c) /\ Value(c) \in CertValues
    <2>1. /\ call[c].req.op \in {"create", "update"}
          /\ call[c].undo => call[c].cert # None
          /\ ~call[c].undo => call[c].req.cert # None
      BY <1>2 DEF OnWay, CertWay, WayBack
    <2> QED
      BY <1>2, <2>1, RequestFields DEF CallStates, CertRows, Stores, Op, Value
  <1>4. UNCHANGED <<before, seen, apps, clients>> /\ CachesStay
    BY <1>1 DEF appVars, CachesStay
  <1> DEFINE new == [id |-> c, ref |-> About(c), value |-> Value(c)]
  <1>5. new \in CertRows /\ new = [Wanted(c) EXCEPT !.id = c]
        /\ Telling("cert", None, new) \in Tellings
    BY <1>2, <1>3, Values DEF CertRows, Wanted, Value, Telling, Tellings
  <1>6. \/ CertFailed(c) /\ UNCHANGED <<certs, tell, failures, lost>>
        \/ /\ certs[About(c)] = None
           /\ certs' = [certs EXCEPT ![About(c)] = [id |-> c, value |-> Value(c)]]
           /\ Reported(c, AfterCert(c), Telling("cert", None, new), CertFailed(c))
    <2>1. new.ref = About(c) /\ new.id = c /\ new.value = Value(c)
      OBVIOUS
    <2> HIDE DEF new
    <2> QED
      BY <1>5, <2>1 DEF CertInsert
  <1> HIDE DEF new
  <1>7. CASE CertFailed(c) /\ UNCHANGED <<certs, tell, failures, lost>>
    BY <1>2, <1>3, <1>4, <1>7, CertNotWritten
  <1>8. CASE /\ certs[About(c)] = None
             /\ certs' = [certs EXCEPT ![About(c)] = [id |-> c, value |-> Value(c)]]
             /\ Reported(c, AfterCert(c), Telling("cert", None, new), CertFailed(c))
    BY <1>2, <1>3, <1>4, <1>5, <1>8, CertWritten DEF new
  <1> QED
    BY <1>6, <1>7, <1>8

\* The update of a certificate that is there.
LEMMA CertUpdateActs ==
    ASSUME NEW c \in Calls, Base, CertUpdate(c), UNCHANGED appVars
    PROVE  /\ Acts(c) /\ Holds(c) /\ Stores(c) /\ Op(c) = "update" /\ call[c].pc = "certUpdate"
           /\ tell[c] = Nothing /\ About(c) \in Ids /\ Value(c) \in CertValues
           /\ call[c].cert # None /\ call[c].cert.id \in Ids /\ call[c].req.cert # None
           /\ CachesStay /\ UNCHANGED <<apps, clients>>
           /\ \/ CertFails(c) /\ UNCHANGED <<certs, tell, lost>>
              \/ /\ certs' = [certs EXCEPT ![About(c)] = [id |-> call[c].cert.id, value |-> Value(c)]]
                 /\ \/ CertFails(c) /\ Misreported(c)
                    \/ /\ CertDone(c) /\ lost' = lost
                       /\ \E new \in CertRows :
                             /\ new = [id |-> call[c].cert.id, ref |-> About(c), value |-> Value(c)]
                             /\ tell'[c] = Telling("cert", new, new)
  <1>1. At(c, "certUpdate") /\ UNCHANGED certCaches
    BY DEF CertUpdate
  <1>2. /\ call[c] \in CallStates /\ call[c].pc = "certUpdate" /\ Started(c) /\ call[c].req \in Requests
        /\ OnWay(call[c]) /\ tell[c] = Nothing /\ About(c) \in Ids
        /\ call[c].req.op \in {"create", "update", "delete"}
    BY <1>1, AtCertStep DEF CertSteps
  <1>3. call[c].req.op = "update" /\ call[c].cert # None /\ call[c].req.cert # None
    BY <1>2 DEF OnWay, CertWay, WayBack
  <1>4. Stores(c) /\ Value(c) \in CertValues /\ call[c].cert.id \in Ids
    BY <1>2, <1>3, RequestFields DEF CallStates, CertRows, Stores, Op, Value
  <1>5. UNCHANGED <<before, seen, apps, clients>> /\ CachesStay
    BY <1>1 DEF appVars, CachesStay
  <1> DEFINE new == [id |-> call[c].cert.id, ref |-> About(c), value |-> Value(c)]
  <1>6. new \in CertRows /\ new = Wanted(c) /\ Telling("cert", new, new) \in Tellings
    BY <1>2, <1>3, <1>4 DEF CertRows, Wanted, Value, Telling, Tellings
  <1>7. \/ CertFailed(c) /\ UNCHANGED <<certs, tell, failures, lost>>
        \/ /\ certs' = [certs EXCEPT ![About(c)] = [id |-> call[c].cert.id, value |-> Value(c)]]
           /\ Reported(c, AfterCert(c), Telling("cert", new, new), CertFailed(c))
    <2>1. new.ref = About(c) /\ new.id = call[c].cert.id /\ new.value = Value(c)
      OBVIOUS
    <2> HIDE DEF new
    <2> QED
      BY <1>6, <2>1 DEF CertUpdate
  <1> HIDE DEF new
  <1>8. CASE CertFailed(c) /\ UNCHANGED <<certs, tell, failures, lost>>
    BY <1>2, <1>3, <1>4, <1>5, <1>8, CertNotWritten DEF Op
  <1>9. CASE /\ certs' = [certs EXCEPT ![About(c)] = [id |-> call[c].cert.id, value |-> Value(c)]]
             /\ Reported(c, AfterCert(c), Telling("cert", new, new), CertFailed(c))
    <2>1. /\ Acts(c) /\ Holds(c)
          /\ \/ CertFails(c) /\ Misreported(c)
             \/ CertDone(c) /\ lost' = lost /\ tell'[c] = Telling("cert", new, new)
      BY <1>2, <1>5, <1>6, <1>9, CertWritten
    <2> QED
      BY <1>2, <1>3, <1>4, <1>5, <1>6, <1>9, <2>1 DEF new, Op
  <1> QED
    BY <1>7, <1>8, <1>9

\* The deletion of a certificate.
LEMMA CertDeleteActs ==
    ASSUME NEW c \in Calls, Base, CertDelete(c), UNCHANGED appVars
    PROVE  /\ Acts(c) /\ Holds(c) /\ call[c].pc = "certDelete"
           /\ call[c].req.op \in {"create", "update", "delete"}
           /\ tell[c] = Nothing /\ About(c) \in Ids /\ call[c].found \in CertRows
           /\ CachesStay /\ UNCHANGED <<apps, clients>>
           /\ certs' = [certs EXCEPT ![About(c)] = None]
           /\ \/ CertFails(c) /\ Misreported(c)
              \/ CertDone(c) /\ lost' = lost /\ tell'[c] = Telling("cert", call[c].found, None)
  <1>1. /\ At(c, "certDelete") /\ UNCHANGED certCaches
        /\ certs' = [certs EXCEPT ![About(c)] = None]
        /\ Reported(c, AfterCert(c), Telling("cert", call[c].found, None), CertFailed(c))
    BY DEF CertDelete
  <1>2. /\ call[c] \in CallStates /\ call[c].pc = "certDelete" /\ Started(c) /\ call[c].req \in Requests
        /\ OnWay(call[c]) /\ InHand(call[c]) /\ tell[c] = Nothing /\ About(c) \in Ids
        /\ call[c].req.op \in {"create", "update", "delete"}
    BY <1>1, AtCertStep DEF CertSteps
  <1>3. call[c].found \in CertRows
    BY <1>2 DEF InHand, CallStates
  <1>4. UNCHANGED <<before, seen, apps, clients>> /\ CachesStay
    BY <1>1 DEF appVars, CachesStay
  <1>5. Telling("cert", call[c].found, None) \in Tellings
    BY <1>3 DEF Telling, Tellings
  <1>6. /\ Acts(c) /\ Holds(c)
        /\ \/ CertFails(c) /\ Misreported(c)
           \/ CertDone(c) /\ lost' = lost /\ tell'[c] = Telling("cert", call[c].found, None)
    BY <1>1, <1>2, <1>4, <1>5, CertWritten
  <1> QED
    BY <1>1, <1>2, <1>3, <1>4, <1>6

\* A query or statement that fails ends the call, or makes it take back its change.
LEMMA FailsActs ==
    ASSUME NEW c \in Calls, Base, Fails(c)
    PROVE  /\ Acts(c) /\ TablesStay /\ CachesStay /\ tell' = tell /\ tell[c] = Nothing
           /\ call'[c].app = call[c].app /\ call'[c].cert = call[c].cert
           /\ \/ call[c].pc = "store" /\ RolledBack(c)
              \/ call[c].pc \in CertSteps /\ CertFails(c) /\ Holds(c)
              \/ /\ call[c].pc \notin CertSteps \cup {"store"}
                 /\ call'[c].pc = "done" /\ call'[c].reply = "error" /\ Holds(c)
  <1>1. /\ Running(c) /\ tell[c] = Nothing
        /\ UNCHANGED <<certs, certCaches, tell, lost, appVars>>
        /\ IF call[c].pc = "store" THEN Rollback(c)
           ELSE IF call[c].pc \in CertSteps THEN CertFailed(c)
           ELSE Answer(c, "error")
    BY DEF Fails
  <1>2. /\ Started(c) /\ call[c].pc # "done" /\ tell \in [Calls -> Tellings]
        /\ call[c] \in CallStates
        /\ TablesStay /\ CachesStay /\ tell' = tell /\ UNCHANGED <<before, seen>>
    BY <1>1 DEF Running, Ended, Base, TablesStay, CachesStay, appVars
  <1>3. CASE call[c].pc = "store"
    BY <1>1, <1>2, <1>3, RollsBack
  <1>4. CASE call[c].pc \in CertSteps /\ call[c].pc # "store"
    <2>1. Acts(c) /\ Holds(c) /\ CertFails(c)
      BY <1>1, <1>2, <1>4, CertNotWritten
    <2> QED
      BY <1>1, <1>2, <1>4, <2>1 DEF Holds
  <1>5. CASE call[c].pc \notin CertSteps \cup {"store"}
    <2>1. Acts(c) /\ call'[c] = [call[c] EXCEPT !.pc = "done", !.reply = "error"]
      BY <1>1, <1>2, <1>5, Answering DEF Replies
    <2> QED
      BY <1>1, <1>2, <1>5, <2>1 DEF Holds, CallStates
  <1> QED
    BY <1>3, <1>4, <1>5

\* What the caches are told is of the kind they keep.
LEMMA Tells ==
    ASSUME NEW c \in Calls, Base, TellCaches(c)
    PROVE  /\ tell[c] \in Tellings /\ tell[c] # Nothing
           /\ tell' = [tell EXCEPT ![c] = Nothing] /\ tell' \in [Calls -> Tellings]
           /\ UNCHANGED <<call, before, seen>> /\ TablesStay
           /\ \/ /\ tell[c].which = "cert" /\ TellCerts(tell[c]) /\ UNCHANGED appCaches
                 /\ {tell[c].drop, tell[c].put} \subseteq CertRows \cup {None}
              \/ /\ tell[c].which = "app" /\ TellApps(tell[c]) /\ UNCHANGED certCaches
                 /\ {tell[c].drop, tell[c].put} \subseteq AppRows \cup {None}
              \/ /\ tell[c].which = "client" /\ TellClients(tell[c]) /\ UNCHANGED certCaches
                 /\ tell[c].drop = None /\ tell[c].put \in ClientRows
  <1>1. tell \in [Calls -> Tellings] /\ tell[c] \in Tellings /\ tell[c] # Nothing
    BY DEF Base, TellCaches
  <1>2. Nothing \in Tellings
    BY DEF Tellings
  <1>3. /\ tell[c].which = "cert" => {tell[c].drop, tell[c].put} \subseteq CertRows \cup {None}
        /\ tell[c].which = "app" => {tell[c].drop, tell[c].put} \subseteq AppRows \cup {None}
        /\ tell[c].which = "client" => tell[c].drop = None /\ tell[c].put \in ClientRows
    BY <1>1 DEF Tellings
  <1>4. /\ tell' = [tell EXCEPT ![c] = Nothing]
        /\ UNCHANGED <<call, before, seen>> /\ TablesStay
    BY DEF TellCaches, TablesStay
  <1>5. tell' \in [Calls -> Tellings]
    BY <1>1, <1>2, <1>4
  <1> QED
    BY <1>1, <1>3, <1>4, <1>5 DEF TellCaches

\* Telling the caches puts rows under their own keys only.
LEMMA TellsCachesKept ==
    ASSUME NEW c \in Calls, Base, TellCaches(c)
    PROVE  CachesKept'
  <1> DEFINE t == tell[c]
  <1>1. CachesKept
    BY DEF Base
  <1>2. CASE TellCerts(t) /\ UNCHANGED appCaches /\ {t.drop, t.put} \subseteq CertRows \cup {None}
    <2>1. /\ certByID' \in [Ids -> CertRows \cup {None}]
          /\ \A i \in Ids : certByID'[i] # None => certByID'[i].id = i
      BY <1>1, <1>2 DEF TellCerts, CachesKept
    <2>2. /\ certByReference' \in [Ids -> CertRows \cup {None}]
          /\ \A a \in Ids : certByReference'[a] # None => certByReference'[a].ref = a
      BY <1>1, <1>2 DEF TellCerts, CachesKept
    <2> QED
      BY <1>1, <1>2, <2>1, <2>2 DEF CachesKept, appCaches
  <1>3. CASE TellApps(t) /\ UNCHANGED certCaches /\ {t.drop, t.put} \subseteq AppRows \cup {None}
    <2>1. /\ appByID' \in [Ids -> AppRows \cup {None}]
          /\ \A a \in Ids : appByID'[a] # None => appByID'[a].id = a
      BY <1>1, <1>3 DEF TellApps, CachesKept
    <2>2. /\ appByName' \in [Names -> AppRows \cup {None}]
          /\ \A n \in Names : appByName'[n] # None => appByName'[n].name = n
      BY <1>1, <1>3 DEF TellApps, CachesKept
    <2>3. /\ oauthApp' \in [Clients -> ClientRows \cup {None}]
          /\ \A x \in Clients : oauthApp'[x] # None => oauthApp'[x].client = x
      <3>1. OAuthOf(t.put) # None => t.put.oauth \in ClientRows
        BY <1>3 DEF OAuthOf, AppRows
      <3>2. oauthApp' = [x \in Clients |->
              IF OAuthOf(t.put) # None /\ t.put.oauth.client = x THEN t.put.oauth
              ELSE IF OAuthOf(t.drop) # None /\ t.drop.oauth.client = x THEN None ELSE oauthApp[x]]
        BY <1>3 DEF TellApps
      <3> QED
        BY <1>1, <3>1, <3>2 DEF CachesKept
    <2> QED
      BY <1>1, <1>3, <2>1, <2>2, <2>3 DEF CachesKept, certCaches
  <1>4. CASE TellClients(t) /\ UNCHANGED certCaches /\ t.put \in ClientRows
    <2>1. t.put.client \in Clients
      BY <1>4 DEF ClientRows
    <2>2. /\ oauthApp' = [oauthApp EXCEPT ![t.put.client] = t.put]
          /\ UNCHANGED <<appByID, appByName>>
      BY <1>4 DEF TellClients
    <2> HIDE DEF t
    <2> QED
      BY <1>1, <1>4, <2>1, <2>2 DEF CachesKept, certCaches
  <1> QED
    BY <1>2, <1>3, <1>4, Tells

\* A call begins with nothing in hand, and is shown what there is of its application.
LEMMA Begins ==
    ASSUME NEW c \in Calls, NEW r \in Requests, Base, Begin(c, r)
    PROVE  /\ ~Started(c)
           /\ call' \in [Calls -> CallStates] /\ tell' = tell /\ tell[c] = Nothing
           /\ \A d \in Calls \ {c} : call'[d] = call[d]
           /\ call'[c].req = r /\ call'[c].app = None /\ call'[c].cert = None
           /\ call'[c].pc = FirstStep(r.op) /\ ~call'[c].undo
           /\ call'[c].reply = None
           /\ call'[c].pc \in {"byName", "byID", "find", "byClient"}
           /\ CallKept(c)'
           /\ \A d \in Calls \ {c} : before'[d] = before[d] /\ seen'[d] = seen[d]
           /\ DOMAIN before' = Calls /\ DOMAIN seen' = Calls
           /\ before'[c] = {d \in Calls : Ended(d)}
           /\ r.op \in {"update", "delete"} =>
                 /\ seen'[c] = [app |-> apps[r.app], clients |-> ClientsOf(r.app), cert |-> certs[r.app]]
                 /\ r.app \in Ids
           /\ r.op \notin {"update", "delete"} => seen'[c] = None
           /\ r.op \notin {"create", "getClient"} => Known(r.app)
           /\ r.op \notin {"delete", "get"} => Known(r.client)
           /\ TablesStay /\ CachesStay
  <1>1. /\ ~Started(c)
        /\ r.op \notin {"create", "getClient"} => Known(r.app)
        /\ r.op \notin {"delete", "get"} => Known(r.client)
        /\ call' = [call EXCEPT ![c].pc = FirstStep(r.op), ![c].req = r]
        /\ before' = [before EXCEPT ![c] = {d \in Calls : Ended(d)}]
        /\ seen' = [seen EXCEPT ![c] =
              IF r.op \in {"update", "delete"}
              THEN [app |-> apps[r.app], clients |-> ClientsOf(r.app), cert |-> certs[r.app]]
              ELSE None]
        /\ tell' = tell /\ TablesStay /\ CachesStay
    BY DEF Begin, TablesStay, CachesStay
  <1>2. call[c] = Idle /\ tell[c] = Nothing
    BY <1>1 DEF Base, CallKept, Started
  <1>3. r.op \in {"create", "update", "delete", "get", "getClient"}
        /\ (r.op \in {"update", "delete"} => r.app \in Ids)
    BY RequestFields
  <1>4. /\ r.op = "create" => FirstStep(r.op) = "byName"
        /\ r.op \in {"update", "get"} => FirstStep(r.op) = "byID"
        /\ r.op = "delete" => FirstStep(r.op) = "find"
        /\ r.op = "getClient" => FirstStep(r.op) = "byClient"
    BY <1>3 DEF FirstStep
  <1> DEFINE k == [call[c] EXCEPT !.pc = FirstStep(r.op), !.req = r]
  <1>5. /\ k \in CallStates /\ k.pc = FirstStep(r.op) /\ k.req = r /\ k.app = None /\ k.cert = None
        /\ ~k.undo /\ k.reply = None
    <2>1. FirstStep(r.op) \in {"byName", "byID", "find", "byClient"}
      BY <1>3, <1>4
    <2>2. k = [Idle EXCEPT !.pc = FirstStep(r.op), !.req = r]
      BY <1>2
    <2>3. Idle \in CallStates
      BY DEF Idle, CallStates
    <2> QED
      BY <2>1, <2>2, <2>3 DEF Idle, CallStates
  <1>6. call' = [call EXCEPT ![c] = k]
    BY <1>1
  <1> HIDE DEF k
  <1>7. call'[c] = k /\ call' \in [Calls -> CallStates] /\ \A d \in Calls \ {c} : call'[d] = call[d]
    BY <1>5, <1>6 DEF Base
  <1>8. CallKept(c)'
    <2>1. OnWay(k)
      BY <1>3, <1>4, <1>5 DEF OnWay
    <2>2. InHand(k)
      BY <1>3, <1>4, <1>5 DEF InHand
    <2> QED
      BY <1>3, <1>4, <1>5, <1>7, <2>1, <2>2 DEF CallKept
  <1>9. /\ \A d \in Calls \ {c} : before'[d] = before[d] /\ seen'[d] = seen[d]
        /\ DOMAIN before' = Calls /\ DOMAIN seen' = Calls
        /\ before'[c] = {d \in Calls : Ended(d)}
        /\ seen'[c] = IF r.op \in {"update", "delete"}
              THEN [app |-> apps[r.app], clients |-> ClientsOf(r.app), cert |-> certs[r.app]]
              ELSE None
    BY <1>1 DEF Base
  <1> QED
    BY <1>1, <1>2, <1>3, <1>4, <1>5, <1>7, <1>8, <1>9

\* The server stops and starts again with empty caches.
LEMMA Restarts ==
    ASSUME Base, Restart
    PROVE  /\ call' \in [Calls -> CallStates] /\ tell' = [c \in Calls |-> Nothing]
           /\ \A c \in Calls :
                 IF Running(c)
                 THEN /\ call'[c].pc = "done" /\ call'[c].reply = "stopped" /\ Holds(c)
                      /\ call'[c].req = call[c].req
                 ELSE call'[c] = call[c] /\ tell[c] = Nothing
           /\ \A c \in Calls : CallKept(c)'
           /\ TablesStay /\ UNCHANGED <<before, seen>>
           /\ CachesKept'
           /\ appByID' = [a \in Ids |-> None] /\ appByName' = [n \in Names |-> None]
           /\ oauthApp' = [x \in Clients |-> None]
           /\ certByID' = [i \in Ids |-> None] /\ certByReference' = [a \in Ids |-> None]
  <1>1. /\ call' = [c \in Calls |->
              IF Running(c) THEN [call[c] EXCEPT !.pc = "done", !.reply = "stopped"] ELSE call[c]]
        /\ tell' = [c \in Calls |-> Nothing]
        /\ appByID' = [a \in Ids |-> None] /\ appByName' = [n \in Names |-> None]
        /\ oauthApp' = [x \in Clients |-> None]
        /\ certByID' = [i \in Ids |-> None] /\ certByReference' = [a \in Ids |-> None]
        /\ TablesStay /\ UNCHANGED <<before, seen>>
    BY DEF Restart, TablesStay
  <1>2. ASSUME NEW c \in Calls
        PROVE  /\ call'[c] \in CallStates
               /\ CallKept(c)'
               /\ IF Running(c)
                  THEN /\ call'[c].pc = "done" /\ call'[c].reply = "stopped" /\ Holds(c)
                       /\ call'[c].req = call[c].req
                  ELSE call'[c] = call[c] /\ tell[c] = Nothing
    <2>1. call[c] \in CallStates /\ CallKept(c)
      BY DEF Base
    <2>2. CASE Running(c)
      <3>1. call'[c] = [call[c] EXCEPT !.pc = "done", !.reply = "stopped"]
        BY <1>1, <2>2
      <3>2. /\ call'[c] \in CallStates /\ call'[c].pc = "done" /\ call'[c].reply = "stopped"
            /\ call'[c].req = call[c].req /\ Holds(c)
        BY <2>1, <3>1 DEF CallStates, Replies, Holds
      <3>3. call[c].req \in Requests /\ InHand(call[c])
        BY <2>1, <2>2 DEF CallKept, Running, Started, Idle
      <3>4. OnWay(call'[c])
        BY <3>2 DEF OnWay
      <3>5. InHand(call'[c])
        BY <3>2, <3>3 DEF InHand, Holds
      <3> QED
        BY <2>2, <3>2, <3>3, <3>4, <3>5 DEF CallKept
    <2>3. CASE ~Running(c)
      <3>1. call'[c] = call[c] /\ tell'[c] = Nothing
        BY <1>1, <2>3
      <3>2. tell[c] = Nothing
        BY <2>1, <2>3 DEF Running, Ended, Started, CallKept
      <3> QED
        BY <2>1, <2>3, <3>1, <3>2 DEF CallKept
    <2> QED
      BY <2>2, <2>3
  <1>3. call' \in [Calls -> CallStates]
    BY <1>1, <1>2
  <1>4. CachesKept'
    BY <1>1 DEF CachesKept
  <1> QED
    BY <1>1, <1>2, <1>3, <1>4

-----------------------------------------------------------------------------
(* What every step leaves as it was.                                       *)

\* Calls that have begun stay what they are, with what they have in hand.
Persists ==
    /\ \A c \in Calls :
          /\ Started(c) => /\ Started(c)'
                           /\ call'[c].req = call[c].req
                           /\ before'[c] = before[c] /\ seen'[c] = seen[c]
          /\ call[c].app # None => call'[c].app = call[c].app
          /\ call[c].cert # None => call'[c].cert = call[c].cert
          /\ Past(c) => Past(c)'
          /\ Ended(c) => Ended(c)' /\ call'[c] = call[c]
    /\ lost => lost'

\* The step of one call, in what it leaves to the others.
LEMMA ActsPersists ==
    ASSUME NEW c \in Calls, Base, Acts(c), lost => lost'
    PROVE  Persists
  <1>1. \A d \in Calls \ {c} : call'[d] = call[d] /\ tell'[d] = tell[d]
    BY DEF Acts
  <1>2. /\ Started(c)' /\ call'[c].req = call[c].req /\ UNCHANGED <<before, seen>>
        /\ call[c].app # None => call'[c].app = call[c].app
        /\ call[c].cert # None => call'[c].cert = call[c].cert
        /\ Past(c) => Past(c)'
        /\ ~Ended(c)
    BY DEF Acts, Started, Past, Ended
  <1>3. \A d \in Calls \ {c} : /\ Started(d) => Started(d)'
                               /\ Past(d) => Past(d)'
                               /\ Ended(d) => Ended(d)'
    BY <1>1 DEF Started, Past, Ended
  <1> QED
    BY <1>1, <1>2, <1>3 DEF Persists

\* A goroutine that tells the caches changes no call.
LEMMA TellsPersists ==
    ASSUME NEW c \in Calls, Base, TellCaches(c)
    PROVE  Persists
  <1>1. /\ call' = call /\ UNCHANGED <<before, seen>> /\ tell[c] # Nothing
        /\ \A d \in Calls \ {c} : tell'[d] = tell[d]
        /\ lost' = lost
    BY Tells DEF TablesStay, Base
  <1> QED
    BY <1>1 DEF Persists, Started, Past, Ended

\* A call that begins changes no other.
LEMMA BeginsPersists ==
    ASSUME NEW c \in Calls, NEW r \in Requests, Base, Begin(c, r)
    PROVE  Persists
  <1>1. /\ ~Started(c) /\ tell' = tell
        /\ \A d \in Calls \ {c} :
              call'[d] = call[d] /\ before'[d] = before[d] /\ seen'[d] = seen[d]
        /\ lost' = lost
    BY Begins DEF TablesStay
  <1>2. call[c] = Idle
    BY <1>1 DEF Base, CallKept, Started
  <1> QED
    BY <1>1, <1>2 DEF Persists, Started, Past, Ended, Idle

\* A restart ends calls, and changes nothing of those that have ended.
LEMMA RestartPersists ==
    ASSUME Base, Restart
    PROVE  Persists
  <1>1. /\ \A c \in Calls : /\ Running(c) => /\ call'[c].pc = "done" /\ Holds(c)
                                             /\ call'[c].req = call[c].req
                            /\ ~Running(c) => call'[c] = call[c]
                            /\ tell'[c] = Nothing
        /\ UNCHANGED <<before, seen, lost>>
    BY Restarts DEF TablesStay
  <1>2. \A c \in Calls : Ended(c) => ~Running(c)
    BY DEF Running
  <1> QED
    BY <1>1, <1>2 DEF Persists, Started, Past, Ended, Holds

\* What a call is about, and what it writes, is settled when it begins.
LEMMA Settled ==
    ASSUME Persists
    PROVE  \A c \in Calls : Started(c) =>
              /\ Started(c)' /\ Op(c)' = Op(c)
              /\ About(c)' = About(c) /\ ClientID(c)' = ClientID(c)
              /\ Stores(c)' = Stores(c) /\ Writes(c)' = Writes(c)
  <1> SUFFICES ASSUME NEW c \in Calls, Started(c)
               PROVE  /\ Started(c)' /\ Op(c)' = Op(c)
                      /\ About(c)' = About(c) /\ ClientID(c)' = ClientID(c)
                      /\ Stores(c)' = Stores(c) /\ Writes(c)' = Writes(c)
    OBVIOUS
  <1>1. Started(c)' /\ call'[c].req = call[c].req
    BY DEF Persists
  <1> QED
    BY <1>1 DEF Op, About, ClientID, Stores, Writes

\* What calls remember of their beginning stays true.
LEMMA HistoryStays ==
    ASSUME Base, Persists, UNCHANGED <<before, seen>>,
           \A c \in Calls : Started(c)' => Started(c)
    PROVE  \A c \in Calls : HistoryKept(c)'
  <1> SUFFICES ASSUME NEW c \in Calls PROVE HistoryKept(c)'
    OBVIOUS
  <1>1. HistoryKept(c) /\ before' = before /\ seen' = seen
    BY DEF Base
  <1>2. \A d \in before'[c] : Ended(d)'
    BY <1>1 DEF HistoryKept, Persists
  <1>3. Started(c)' <=> Started(c)
    BY DEF Persists
  <1>4. Started(c) => call'[c].req = call[c].req
    BY DEF Persists
  <1>5. \A i : Given(c, i) => Given(c, i)'
    BY <1>1 DEF Given, Persists
  <1> QED
    BY <1>1, <1>2, <1>3, <1>4, <1>5 DEF HistoryKept, Op

\* What is recorded of the calls before a call is true when it begins.
LEMMA HistoryBegins ==
    ASSUME NEW c \in Calls, NEW r \in Requests, Base, Begin(c, r)
    PROVE  \A d \in Calls : HistoryKept(d)'
  <1>1. /\ ~Started(c)
        /\ \A d \in Calls \ {c} : call'[d] = call[d]
        /\ call'[c].req = r /\ call'[c].pc # "idle"
        /\ \A d \in Calls \ {c} : before'[d] = before[d] /\ seen'[d] = seen[d]
        /\ before'[c] = {d \in Calls : Ended(d)}
        /\ r.op \notin {"create", "getClient"} => Known(r.app)
        /\ r.op \notin {"delete", "get"} => Known(r.client)
    BY Begins
  <1>2. Persists
    BY BeginsPersists
  <1>3. seen'[c] \in Shots \cup {None} /\ (seen'[c] # None <=> r.op \in {"update", "delete"})
    <2>1. CASE r.op \in {"update", "delete"}
      <3>1. /\ seen'[c] = [app |-> apps[r.app], clients |-> ClientsOf(r.app), cert |-> certs[r.app]]
            /\ r.app \in Ids
        BY <2>1, Begins
      <3>2. seen'[c] \in Shots
        BY <3>1 DEF Base, TablesKept, ClientsOf, Shots
      <3> QED
        BY <2>1, <3>2, Values
    <2>2. CASE r.op \notin {"update", "delete"}
      BY <2>2, Begins
    <2> QED
      BY <2>1, <2>2
  <1>4. ASSUME NEW i, Known(i)
        PROVE  Given(c, i)'
    <2>1. i \in Calls => i # c /\ c \notin before[i]
      BY <1>1, <1>4 DEF Known, Base, HistoryKept, Ended, Started
    <2> QED
      BY <1>1, <1>2, <1>4, <2>1 DEF Given, Known, Persists
  <1>5. HistoryKept(c)'
    <2>1. before'[c] \subseteq Calls /\ \A d \in before'[c] : Ended(d)'
      BY <1>1, <1>2 DEF Persists
    <2> QED
      BY <1>1, <1>3, <1>4, <2>1 DEF HistoryKept, Op, Started
  <1>6. ASSUME NEW d \in Calls \ {c}
        PROVE  HistoryKept(d)'
    <2>1. /\ HistoryKept(d) /\ call'[d] = call[d] /\ before'[d] = before[d] /\ seen'[d] = seen[d]
      BY <1>1 DEF Base
    <2>2. \A e \in before'[d] : Ended(e)'
      BY <1>2, <2>1 DEF HistoryKept, Persists
    <2>3. \A i : Given(d, i) => Given(d, i)'
      BY <1>2 DEF Given, Persists
    <2> QED
      BY <2>1, <2>2, <2>3 DEF HistoryKept, Op, Started
  <1> QED
    BY <1>5, <1>6

-----------------------------------------------------------------------------
(* The rows and who wrote them.                                            *)

\* Rows that stay stay signed by the calls that wrote them.
LEMMA RowsStay ==
    ASSUME Base, Persists, UNCHANGED <<apps, clients>>,
           \A c \in Calls : certs'[c] # None => Started(c)'
    PROVE  RowsSigned'
  <1>1. RowsSigned
    BY DEF Base
  <1>2. \A d, a : d \in Calls /\ Signed(d, a) =>
           /\ Signed(d, a)' /\ call'[d].req = call[d].req
           /\ ClientID(d)' = ClientID(d) /\ Op(d)' = Op(d)
    BY Settled DEF Signed, Stores, Persists
  <1>3. ASSUME NEW a \in Ids, apps[a] # None
        PROVE  IF apps[a].by = First THEN a = First
               ELSE Signed(apps[a].by, a)' /\ call'[apps[a].by].req.name = apps[a].name
    <2>1. apps[a].by \in Ids
      BY <1>3 DEF Base, TablesKept, Apps
    <2> QED
      BY <1>1, <1>2, <1>3, <2>1 DEF RowsSigned, Ids
  <1>4. ASSUME NEW r \in clients
        PROVE  /\ IF r.by = First THEN r.app = First /\ r.client \notin Calls
                  ELSE Signed(r.by, r.app)' /\ ClientID(r.by)' = r.client
               /\ IF r.row = First THEN r.app = First ELSE Signed(r.row, r.app)'
    <2>1. r.by \in Ids /\ r.row \in Ids
      BY DEF Base, TablesKept, ClientTable
    <2> QED
      BY <1>1, <1>2, <2>1 DEF RowsSigned, Ids
  <1>5. \A c \in Calls : apps[c] # None => Stores(c)' /\ Op(c)' = "create" /\ Past(c)'
    BY <1>1, Settled DEF RowsSigned, Stores, Persists
  <1> QED
    BY <1>1, <1>3, <1>4, <1>5 DEF RowsSigned

\* The row of a client is updated, rather than inserted.
Renewed(c) == Op(c) = "update" /\ OAuthOf(call[c].app) # None /\ ClientID(c) # None

\* What a call that stores writes into the tables.
LEMMA StoredTables ==
    ASSUME NEW c \in Calls, Base, Stores(c), call[c].pc = "store", ~call[c].undo,
           \/ Op(c) = "create" /\ InsertRows(c)
           \/ Op(c) = "update" /\ ~Refused(c) /\ UpdateRows(c)
    PROVE  LET a == About(c)
               renewal(s) == [NewClient(c) EXCEPT !.row = s.row]
           IN  /\ apps' \in [Ids -> Apps \cup {None}] /\ clients' \subseteq ClientTable
               /\ \A b \in Ids \ {a} : apps'[b] = apps[b]
               /\ apps'[a] = IF Op(c) = "update" /\ apps[a] = None THEN None
                              ELSE [name |-> call[c].req.name, by |-> c]
               /\ \A r \in clients' :
                     \/ r \in clients /\ (Renewed(c) => r.app # a)
                     \/ Renewed(c) /\ \E s \in clients : s.app = a /\ r = renewal(s)
                     \/ /\ ~Renewed(c) /\ r = NewClient(c) /\ ClientID(c) # None
                        /\ apps'[a] # None
                        /\ Op(c) = "update" => OAuthOf(call[c].app) = None
  <1> DEFINE a == About(c)
             old == OAuthOf(call[c].app)
             renewal(s) == [NewClient(c) EXCEPT !.row = s.row]
             row == [name |-> call[c].req.name, by |-> c]
  <1>1. /\ apps \in [Ids -> Apps \cup {None}] /\ clients \subseteq ClientTable
        /\ a \in Ids /\ row \in Apps /\ row # None
        /\ ClientID(c) # None => NewClient(c) \in ClientTable
    BY StoredRows, Values DEF Base, TablesKept, Apps
  <1>2. CASE Op(c) = "create" /\ InsertRows(c)
    <2>1. a = c
      BY <1>2 DEF About, Op
    <2> QED
      BY <1>1, <1>2, <2>1 DEF InsertRows, Renewed
  <1>3. CASE Op(c) = "update" /\ ~Refused(c) /\ UpdateRows(c)
    <2>1. apps' = IF apps[a] = None THEN apps ELSE [apps EXCEPT ![a] = row]
      BY <1>3 DEF UpdateRows
    <2>2. clients' = IF old # None /\ ClientID(c) # None
                     THEN {IF r.app = a THEN renewal(r) ELSE r : r \in clients}
                     ELSE IF old # None THEN {r \in clients : r.client # old.client}
                     ELSE IF ClientID(c) # None THEN clients \cup {NewClient(c)} ELSE clients
      BY <1>3 DEF UpdateRows
    <2>3. /\ apps' \in [Ids -> Apps \cup {None}]
          /\ \A b \in Ids \ {a} : apps'[b] = apps[b]
          /\ apps'[a] = IF Op(c) = "update" /\ apps[a] = None THEN None ELSE row
      BY <1>1, <1>3, <2>1
    <2>4. CASE old # None /\ ClientID(c) # None
      <3>1. \A s \in clients : renewal(s) \in ClientTable
        BY <1>1, <2>4 DEF ClientTable
      <3>2. \A r \in clients' : \/ r \in clients /\ r.app # a
                                \/ \E s \in clients : s.app = a /\ r = renewal(s)
        BY <2>2, <2>4
      <3>3. Renewed(c)
        BY <1>3, <2>4 DEF Renewed
      <3>4. clients' \subseteq ClientTable
        BY <1>1, <3>1, <3>2
      <3> QED
        BY <2>3, <3>2, <3>3, <3>4
    <2>5. CASE old # None /\ ClientID(c) = None
      BY <1>1, <2>2, <2>3, <2>5 DEF Renewed
    <2>6. CASE old = None /\ ClientID(c) # None
      <3>1. apps[a] # None
        BY <1>3, <2>6 DEF Refused
      <3>2. clients' = clients \cup {NewClient(c)}
        BY <2>2, <2>6
      <3> QED
        BY <1>1, <2>1, <2>3, <2>6, <3>1, <3>2 DEF Renewed
    <2>7. CASE old = None /\ ClientID(c) = None
      BY <1>1, <2>2, <2>3, <2>7 DEF Renewed
    <2> QED
      BY <2>4, <2>5, <2>6, <2>7
  <1> QED
    BY <1>2, <1>3

\* The rows that a call stores are signed by it, which is past it then.
LEMMA RowsStored ==
    ASSUME NEW c \in Calls, Base, Store(c)
    PROVE  TablesKept' /\ RowsSigned'
  <1>0. PICK a : a = About(c)
    OBVIOUS
  <1> DEFINE renewal(s) == [NewClient(c) EXCEPT !.row = s.row]
  <1>1. /\ Acts(c) /\ Stores(c) /\ call[c].pc = "store" /\ ~call[c].undo
        /\ UNCHANGED certs /\ Past(c)' /\ (lost => lost')
    BY StoreActs DEF RolledBack, Misreported, Past
  <1>2. Persists
    BY <1>1, ActsPersists
  <1>3. \A d \in Calls : certs'[d] # None => Started(d)'
    BY <1>1, <1>2 DEF Base, RowsSigned, Persists
  <1>4. CASE UNCHANGED <<apps, clients>>
    BY <1>1, <1>2, <1>3, <1>4, RowsStay DEF Base, TablesKept
  <1>5. CASE \/ Op(c) = "create" /\ InsertRows(c)
             \/ Op(c) = "update" /\ ~Refused(c) /\ UpdateRows(c)
    <2>1. /\ apps' \in [Ids -> Apps \cup {None}] /\ clients' \subseteq ClientTable
          /\ \A b \in Ids \ {a} : apps'[b] = apps[b]
          /\ apps'[a] = IF Op(c) = "update" /\ apps[a] = None THEN None
                         ELSE [name |-> call[c].req.name, by |-> c]
          /\ \A r \in clients' :
                \/ r \in clients /\ (Renewed(c) => r.app # a)
                \/ Renewed(c) /\ \E s \in clients : s.app = a /\ r = renewal(s)
                \/ /\ ~Renewed(c) /\ r = NewClient(c) /\ ClientID(c) # None
                   /\ apps'[a] # None
      BY <1>0, <1>1, <1>5, StoredTables
    <2>2. /\ a \in Ids /\ About(c)' = a /\ Signed(c, a)' /\ ClientID(c)' = ClientID(c)
          /\ call'[c].req = call[c].req /\ Op(c)' = Op(c) /\ c \in Ids /\ c # First
          /\ [name |-> call[c].req.name, by |-> c] \in Apps
      BY <1>0, <1>1, <1>2, Settled, StoredRows, Values DEF Signed, Stores, Acts, Apps
    <2>3. RowsSigned
      BY DEF Base
    <2>4. \A d, b : d \in Calls /\ Signed(d, b) =>
             /\ Signed(d, b)' /\ call'[d].req = call[d].req
             /\ ClientID(d)' = ClientID(d) /\ Op(d)' = Op(d)
      BY <1>2, Settled DEF Signed, Stores, Persists
    <2>5. NewClient(c).row = c /\ NewClient(c).app = a /\ NewClient(c).by = c
          /\ NewClient(c).client = ClientID(c)
      BY <1>0 DEF NewClient
    <2>6. \A s : /\ renewal(s).row = s.row /\ renewal(s).app = a /\ renewal(s).by = c
                 /\ renewal(s).client = ClientID(c)
      BY <1>0 DEF NewClient
    <2> HIDE DEF renewal
    <2>7. \A r \in clients : /\ r.row \in Ids /\ r.by \in Ids /\ r.app \in Ids
                             /\ r.row # c
      BY <1>1, <2>2, <2>3 DEF Base, TablesKept, ClientTable, RowsSigned, Signed, Past
    <2>8. ASSUME NEW b \in Ids, apps'[b] # None
          PROVE  (IF apps[b].by = First THEN b = First
                  ELSE Signed(apps[b].by, b) /\ call[apps[b].by].req.name = apps[b].name)'
      <3>1. CASE apps'[b] = apps[b]
        <4>1. PICK d : d = apps[b].by
          OBVIOUS
        <4>2. d \in Ids
          BY <2>8, <3>1, <4>1 DEF Base, TablesKept, Apps
        <4>3. IF d = First THEN b = First ELSE Signed(d, b)' /\ call'[d].req.name = apps'[b].name
          BY <2>3, <2>4, <2>8, <3>1, <4>1, <4>2 DEF RowsSigned, Ids
        <4>4. apps'[b].by = d
          BY <3>1, <4>1
        <4> QED
          BY <4>3, <4>4 DEF Signed, Stores, Started, Op, Past, About
      <3>2. CASE b = a /\ apps'[a] = [name |-> call[c].req.name, by |-> c]
        <4>1. apps'[b].by = c /\ apps'[b].name = call'[c].req.name
          BY <2>2, <3>2
        <4> QED
          BY <2>2, <3>2, <4>1 DEF Signed, Stores, Started, Op, Past, About
      <3> QED
        BY <2>1, <3>1, <3>2
    <2>9. ASSUME NEW r \in clients
          PROVE  /\ IF r.by = First THEN r.app = First /\ r.client \notin Calls
                    ELSE Signed(r.by, r.app)' /\ ClientID(r.by)' = r.client
                 /\ IF r.row = First THEN r.app = First ELSE Signed(r.row, r.app)'
      BY <2>3, <2>4, <2>7 DEF RowsSigned, Ids
    <2>10. ASSUME NEW r \in clients'
           PROVE  /\ IF r.by = First THEN r.app = First /\ r.client \notin Calls
                     ELSE Signed(r.by, r.app)' /\ ClientID(r.by)' = r.client
                  /\ IF r.row = First THEN r.app = First ELSE Signed(r.row, r.app)'
                  /\ apps'[r.app] # None
      <3>1. \A b \in Ids : apps[b] # None => apps'[b] # None
        BY <2>1, <2>2, Values
      <3>2. CASE r \in clients
        BY <2>3, <2>7, <2>9, <3>1, <3>2 DEF RowsSigned
      <3>3. CASE \E s \in clients : s.app = a /\ r = renewal(s)
        <4>1. PICK s \in clients : s.app = a /\ r = renewal(s)
          BY <3>3
        <4>2. IF s.row = First THEN a = First ELSE Signed(s.row, a)'
          BY <2>9, <4>1
        <4>3. apps'[a] # None
          BY <2>3, <2>7, <3>1, <4>1 DEF RowsSigned
        <4> QED
          BY <2>2, <2>6, <4>1, <4>2, <4>3
      <3>4. CASE r = NewClient(c) /\ apps'[a] # None
        BY <2>2, <2>5, <3>4
      <3> QED
        BY <2>1, <3>2, <3>3, <3>4
    <2>11. ASSUME NEW r \in clients', NEW s \in clients', r.row = s.row
           PROVE  r = s
      <3>1. CASE Renewed(c)
        <4>1. \A q \in clients' : \/ q \in clients /\ q.app # a
                                  \/ \E t \in clients : t.app = a /\ q = renewal(t)
          BY <2>1, <3>1
        <4>2. \A q \in clients, t \in clients : q.row = t.row => q = t
          BY <2>3 DEF RowsSigned
        <4>3. CASE r \in clients /\ r.app # a
          BY <2>6, <2>11, <4>1, <4>2, <4>3
        <4>4. CASE \E t \in clients : t.app = a /\ r = renewal(t)
          BY <2>6, <2>11, <4>1, <4>2, <4>4
        <4> QED
          BY <4>1, <4>3, <4>4
      <3>2. CASE ~Renewed(c)
        <4>1. \A q \in clients' : q \in clients \/ q = NewClient(c)
          BY <2>1, <3>2
        <4> QED
          BY <2>3, <2>5, <2>7, <2>11, <4>1 DEF RowsSigned
      <3> QED
        BY <3>1, <3>2
    <2>12. ASSUME NEW d \in Calls, apps'[d] # None
           PROVE  Stores(d)' /\ Op(d)' = "create" /\ Past(d)'
      <3>1. CASE apps[d] # None
        BY <1>2, <2>3, <3>1, Settled DEF RowsSigned, Stores, Persists
      <3>2. CASE apps[d] = None
        <4>1. d = a /\ Op(c) = "create"
          <5>1. d \in Ids /\ d = a
            BY <2>1, <2>12, <3>2 DEF Ids
          <5> QED
            BY <2>1, <2>12, <3>2, <1>1, <5>1 DEF Stores
        <4>2. d = c
          BY <1>0, <4>1 DEF About, Op
        <4> QED
          BY <1>1, <1>2, <2>2, <4>1, <4>2, Settled DEF Stores
      <3> QED
        BY <3>1, <3>2
    <2>13. TablesKept'
      BY <1>1, <2>1 DEF TablesKept, Base
    <2> QED
      BY <1>3, <2>8, <2>10, <2>11, <2>12, <2>13 DEF RowsSigned
  <1> QED
    BY <1>4, <1>5, StoreActs

\* A deletion leaves rows that are signed by the calls that wrote them.
LEMMA RowsRemoved ==
    ASSUME NEW c \in Calls, Base, Remove(c)
    PROVE  TablesKept' /\ RowsSigned'
  <1>1. /\ Acts(c) /\ UNCHANGED certs /\ About(c) \in Ids
        /\ apps' = [apps EXCEPT ![About(c)] = None]
        /\ clients' = clients \ ClientsOf(About(c))
        /\ lost => lost'
    BY RemoveActs DEF Misreported
  <1>2. Persists
    BY <1>1, ActsPersists
  <1>3. \A d \in Calls : certs'[d] # None => Started(d)'
    BY <1>1, <1>2 DEF Base, RowsSigned, Persists
  <1>4. RowsSigned /\ TablesKept
    BY DEF Base
  <1>5. /\ \A a \in Ids : apps'[a] # None => a # About(c) /\ apps'[a] = apps[a]
        /\ \A r \in clients' : r \in clients /\ r.app # About(c)
        /\ \A r \in clients : r.app \in Ids /\ r.by \in Ids /\ r.row \in Ids
    BY <1>1, <1>4 DEF ClientsOf, TablesKept, ClientTable
  <1>6. \A d, b : d \in Calls /\ Signed(d, b) =>
           /\ Signed(d, b)' /\ call'[d].req = call[d].req
           /\ ClientID(d)' = ClientID(d) /\ Op(d)' = Op(d)
    BY <1>2, Settled DEF Signed, Stores, Persists
  <1>7. ASSUME NEW b \in Ids, apps'[b] # None
        PROVE  (IF apps[b].by = First THEN b = First
                ELSE Signed(apps[b].by, b) /\ call[apps[b].by].req.name = apps[b].name)'
    <2>1. PICK d : d = apps[b].by
      OBVIOUS
    <2>2. d \in Ids /\ apps'[b] = apps[b] /\ apps[b] # None
      BY <1>4, <1>5, <1>7, <2>1 DEF TablesKept, Apps
    <2>3. IF d = First THEN b = First ELSE Signed(d, b)' /\ call'[d].req.name = apps'[b].name
      BY <1>4, <1>6, <2>1, <2>2 DEF RowsSigned, Ids
    <2> QED
      BY <2>1, <2>2, <2>3 DEF Signed, Stores, Started, Op, Past, About
  <1>8. ASSUME NEW r \in clients'
        PROVE  /\ IF r.by = First THEN r.app = First /\ r.client \notin Calls
                  ELSE Signed(r.by, r.app)' /\ ClientID(r.by)' = r.client
               /\ IF r.row = First THEN r.app = First ELSE Signed(r.row, r.app)'
    BY <1>4, <1>5, <1>6 DEF RowsSigned, Ids
  <1>9. \A r \in clients' : apps'[r.app] # None
    BY <1>1, <1>4, <1>5 DEF RowsSigned, TablesKept
  <1>10. \A d \in Calls : apps'[d] # None => Stores(d)' /\ Op(d)' = "create" /\ Past(d)'
    BY <1>2, <1>4, <1>5, Settled, Values DEF RowsSigned, Stores, Persists
  <1>11. \A r, s \in clients' : r.row = s.row => r = s
    BY <1>4, <1>5 DEF RowsSigned
  <1>12. TablesKept'
    BY <1>1, <1>4 DEF TablesKept
  <1> QED
    BY <1>3, <1>7, <1>8, <1>9, <1>10, <1>11, <1>12 DEF RowsSigned

-----------------------------------------------------------------------------
(* The base of the invariant.                                              *)

\* The base of the invariant is kept by a step of a call that keeps tables and caches.
LEMMA BaseActs ==
    ASSUME NEW c \in Calls, Base, Acts(c), lost => lost', TablesKept', CachesKept', RowsSigned'
    PROVE  Base' /\ Persists
  <1>1. Persists
    BY ActsPersists
  <1>2. /\ call' \in [Calls -> CallStates] /\ tell' \in [Calls -> Tellings]
        /\ \A d \in Calls \ {c} : call'[d] = call[d] /\ tell'[d] = tell[d]
        /\ CallKept(c)' /\ UNCHANGED <<before, seen>> /\ Started(c)
    BY DEF Acts
  <1>3. \A d \in Calls : CallKept(d)'
    BY <1>2 DEF Base, CallKept
  <1>4. \A d \in Calls : Started(d)' => Started(d)
    BY <1>2 DEF Started
  <1>5. \A d \in Calls : HistoryKept(d)'
    BY <1>1, <1>2, <1>4, HistoryStays
  <1> QED
    BY <1>1, <1>2, <1>3, <1>5 DEF Base

\* Rows stay signed when no application and no client changes.
LEMMA BaseCerts ==
    ASSUME NEW c \in Calls, Base, Acts(c), lost => lost', CachesKept', UNCHANGED <<apps, clients>>,
           certs' \in [Ids -> Certs \cup {None}],
           \A d \in Calls : certs'[d] # None => certs[d] # None \/ (d = About(c) /\ Op(c) # "getClient")
    PROVE  Base' /\ Persists
  <1>1. Persists
    BY ActsPersists
  <1>2. TablesKept'
    BY DEF Base, TablesKept
  <1>3. ASSUME NEW d \in Calls, certs'[d] # None
        PROVE  Started(d)'
    <2>1. CASE certs[d] # None
      BY <1>1, <2>1 DEF Base, RowsSigned, Persists
    <2>2. CASE d = About(c) /\ Op(c) # "getClient"
      <3>1. Started(d)
        BY <2>2 DEF Acts, Base, HistoryKept, Given, About, Op
      <3> QED
        BY <1>1, <3>1 DEF Persists
    <2> QED
      BY <1>3, <2>1, <2>2
  <1>4. RowsSigned'
    BY <1>1, <1>3, RowsStay
  <1> QED
    BY <1>2, <1>4, BaseActs

\* The base of the invariant is kept by a call that only reads.
LEMMA BaseLooks ==
    ASSUME NEW c \in Calls, Base, Looks(c)
    PROVE  Base' /\ Persists
  <1>1. Acts(c) /\ TablesStay /\ CachesKept'
    BY DEF Looks, Forgetting
  <1> QED
    BY <1>1, BaseCerts DEF TablesStay, Base, TablesKept

\* The base holds at the start.
LEMMA BaseInit ==
    ASSUME Init
    PROVE  Base
  <1>1. PICK t \in InitialTables : apps = t.apps /\ clients = t.clients /\ certs = t.certs
    BY DEF Init
  <1>2. /\ certByReference = [a \in Ids |-> CertRow(a)]
        /\ certByID = [i \in Ids |-> CertRowByID(i)]
        /\ appByID = [a \in Ids |-> AppRow(a)]
        /\ appByName = [n \in Names |->
              IF Named(n) = {} THEN None ELSE AppRow(CHOOSE a \in Named(n) : TRUE)]
        /\ oauthApp = [x \in Clients |->
              IF \A r \in clients : r.client # x THEN None
              ELSE Client(CHOOSE r \in clients : r.client = x)]
        /\ call = [c \in Calls |-> Idle]
        /\ tell = [c \in Calls |-> Nothing]
        /\ before = [c \in Calls |-> {}]
        /\ seen = [c \in Calls |-> None]
    BY DEF Init
  <1>3. /\ apps \in [Ids -> Apps \cup {None}]
        /\ certs \in [Ids -> Certs \cup {None}]
        /\ clients \subseteq ClientTable
        /\ \A c \in Calls : apps[c] = None /\ certs[c] = None
        /\ apps[First] # None => apps[First].by = First
        /\ \A r \in clients :
              /\ r.row = First /\ r.app = First /\ r.by = First /\ r.client \notin Calls
              /\ apps[First] # None
        /\ \A r, s \in clients : r = s
    BY <1>1, TablesAssumption
  <1>4. TablesKept
    BY <1>3 DEF TablesKept
  <1>5. RowsSigned
    BY <1>3 DEF RowsSigned, Ids
  <1>6. call \in [Calls -> CallStates] /\ tell \in [Calls -> Tellings]
    <2>1. Idle \in CallStates /\ Nothing \in Tellings
      BY DEF Idle, CallStates, Tellings
    <2> QED
      BY <1>2, <2>1
  <1>7. CachesKept
    <2>1. \A a \in Ids : /\ AppRow(a) \in AppRows \cup {None}
                         /\ AppRow(a) # None => AppRow(a).id = a
                         /\ AppRow(a) # None => AppRow(a).name = apps[a].name
                         /\ AppRow(a) = None <=> apps[a] = None
      BY <1>4, AppRows1, Joins
    <2>2. /\ appByID \in [Ids -> AppRows \cup {None}]
          /\ \A a \in Ids : appByID[a] # None => appByID[a].id = a
      BY <1>2, <2>1
    <2>3. ASSUME NEW n \in Names
          PROVE  /\ appByName[n] \in AppRows \cup {None}
                 /\ appByName[n] # None => appByName[n].name = n
      BY <1>2, <2>1 DEF Named
    <2>4. ASSUME NEW x \in Clients
          PROVE  /\ oauthApp[x] \in ClientRows \cup {None}
                 /\ oauthApp[x] # None => oauthApp[x].client = x
      <3>1. \A r \in clients : Client(r) \in ClientRows /\ Client(r).client = r.client
        BY <1>3 DEF ClientTable, ClientRows, Client
      <3> QED
        BY <1>2, <3>1
    <2>5. \A a \in Ids : certs[a] # None =>
             [id |-> certs[a].id, ref |-> a, value |-> certs[a].value] \in CertRows
      BY <1>3 DEF Certs, CertRows
    <2>6. \A a \in Ids : CertRow(a) \in CertRows \cup {None} /\ (CertRow(a) # None => CertRow(a).ref = a)
      BY <2>5 DEF CertRow
    <2>7. \A i \in Ids : /\ CertRowByID(i) \in CertRows \cup {None}
                         /\ CertRowByID(i) # None => CertRowByID(i).id = i
      <3> SUFFICES ASSUME NEW i \in Ids, \E a \in Ids : certs[a] # None /\ certs[a].id = i
                   PROVE  CertRowByID(i) \in CertRows /\ CertRowByID(i).id = i
        BY DEF CertRowByID
      <3>1. PICK a \in Ids : a = CHOOSE b \in Ids : certs[b] # None /\ certs[b].id = i
        OBVIOUS
      <3>2. certs[a] # None /\ certs[a].id = i
        BY <3>1
      <3>3. CertRowByID(i) = CertRow(a)
        BY <3>1 DEF CertRowByID
      <3> QED
        BY <2>5, <3>2, <3>3 DEF CertRow
    <2> QED
      BY <1>2, <2>2, <2>3, <2>4, <2>6, <2>7 DEF CachesKept
  <1>8. ASSUME NEW c \in Calls PROVE CallKept(c) /\ HistoryKept(c)
    BY <1>2 DEF CallKept, HistoryKept, Started, Idle
  <1> QED
    BY <1>2, <1>4, <1>5, <1>6, <1>7, <1>8 DEF Base

\* Every step keeps the base, and what has begun.
LEMMA BaseStep ==
    ASSUME Base, [Next]_vars
    PROVE  Base' /\ Persists
  <1>1. CASE UNCHANGED vars
    <2>1. UNCHANGED <<certs, certByID, certByReference, call, tell, failures, lost, apps, clients,
                      appByID, appByName, oauthApp, before, seen>>
      BY <1>1 DEF vars, certVars, appVars, certCaches, appCaches
    <2>2. Persists
      BY <2>1 DEF Persists, Started, Past, Ended
    <2>3. \A c \in Calls : CallKept(c)' /\ HistoryKept(c)'
      BY <2>1 DEF Base, CallKept, HistoryKept, Ended, Started, Given, Op
    <2>4. TablesKept' /\ CachesKept'
      BY <2>1 DEF Base, TablesKept, CachesKept
    <2>5. RowsSigned'
      BY <2>1, <2>2, RowsStay DEF Base, RowsSigned, Started
    <2> QED
      BY <2>1, <2>2, <2>3, <2>4, <2>5 DEF Base
  <1>2. ASSUME NEW c \in Calls, NEW r \in Requests, Begin(c, r)
        PROVE  Base' /\ Persists
    <2>1. Persists
      BY <1>2, BeginsPersists
    <2>2. /\ call' \in [Calls -> CallStates] /\ tell' = tell
          /\ \A d \in Calls \ {c} : call'[d] = call[d]
          /\ CallKept(c)'
          /\ DOMAIN before' = Calls /\ DOMAIN seen' = Calls
          /\ TablesStay /\ CachesStay
      BY <1>2, Begins
    <2>3. \A d \in Calls : CallKept(d)'
      BY <2>2 DEF Base, CallKept
    <2>4. \A d \in Calls : HistoryKept(d)'
      BY <1>2, HistoryBegins
    <2>5. RowsSigned'
      BY <2>1, <2>2, RowsStay DEF Base, RowsSigned, TablesStay, Persists
    <2>6. TablesKept' /\ CachesKept'
      BY <2>2, CachesStayKept DEF Base, TablesKept, TablesStay
    <2> QED
      BY <2>1, <2>2, <2>3, <2>4, <2>5, <2>6 DEF Base
  <1>3. ASSUME NEW c \in Calls,
               ByName(c) \/ ByClient(c) \/ ByID(c) \/ CertOf(c) \/ Find(c)
               \/ ((CertExists(c) \/ CertByID(c) \/ CertFind(c)) /\ UNCHANGED appVars)
        PROVE  Base' /\ Persists
    <2>1. Looks(c)
      BY <1>3, ByNameLooks, ByClientLooks, ByIDLooks, CertOfLooks, FindLooks,
         CertExistsLooks, CertByIDLooks, CertFindLooks
    <2> QED
      BY <2>1, BaseLooks
  <1>4. ASSUME NEW c \in Calls, Store(c)
        PROVE  Base' /\ Persists
    <2>1. Acts(c) /\ CachesStay /\ (lost => lost')
      BY <1>4, StoreActs DEF Misreported
    <2> QED
      BY <1>4, <2>1, RowsStored, CachesStayKept, BaseActs
  <1>5. ASSUME NEW c \in Calls, Remove(c)
        PROVE  Base' /\ Persists
    <2>1. Acts(c) /\ CachesStay /\ (lost => lost')
      BY <1>5, RemoveActs DEF Misreported
    <2> QED
      BY <1>5, <2>1, RowsRemoved, CachesStayKept, BaseActs
  <1>6. ASSUME NEW c \in Calls, CertInsert(c), UNCHANGED appVars
        PROVE  Base' /\ Persists
    <2>1. /\ Acts(c) /\ CachesStay /\ UNCHANGED <<apps, clients>> /\ (lost => lost')
          /\ Stores(c) /\ About(c) \in Ids /\ Value(c) \in CertValues
          /\ certs' = certs \/ certs' = [certs EXCEPT ![About(c)] = [id |-> c, value |-> Value(c)]]
      BY <1>6, CertInsertActs DEF Misreported
    <2>2. /\ certs \in [Ids -> Certs \cup {None}]
          /\ [id |-> c, value |-> Value(c)] \in Certs
      BY <2>1, Values DEF Base, TablesKept, Certs
    <2>3. /\ certs' \in [Ids -> Certs \cup {None}]
          /\ \A d \in Calls : certs'[d] # None => certs[d] # None \/ d = About(c)
      BY <2>1, <2>2 DEF Ids
    <2> QED
      BY <2>1, <2>3, CachesStayKept, BaseCerts DEF Stores
  <1>7. ASSUME NEW c \in Calls, CertUpdate(c), UNCHANGED appVars
        PROVE  Base' /\ Persists
    <2>1. /\ Acts(c) /\ CachesStay /\ UNCHANGED <<apps, clients>> /\ (lost => lost')
          /\ Stores(c) /\ About(c) \in Ids /\ Value(c) \in CertValues /\ call[c].cert.id \in Ids
          /\ \/ certs' = certs
             \/ certs' = [certs EXCEPT ![About(c)] = [id |-> call[c].cert.id, value |-> Value(c)]]
      BY <1>7, CertUpdateActs DEF Misreported
    <2>2. /\ certs \in [Ids -> Certs \cup {None}]
          /\ [id |-> call[c].cert.id, value |-> Value(c)] \in Certs
      BY <2>1 DEF Base, TablesKept, Certs
    <2>3. /\ certs' \in [Ids -> Certs \cup {None}]
          /\ \A d \in Calls : certs'[d] # None => certs[d] # None \/ d = About(c)
      BY <2>1, <2>2 DEF Ids
    <2> QED
      BY <2>1, <2>3, CachesStayKept, BaseCerts DEF Stores
  <1>8. ASSUME NEW c \in Calls, CertDelete(c), UNCHANGED appVars
        PROVE  Base' /\ Persists
    <2>1. /\ Acts(c) /\ CachesStay /\ UNCHANGED <<apps, clients>> /\ (lost => lost')
          /\ About(c) \in Ids
          /\ certs' = [certs EXCEPT ![About(c)] = None]
      BY <1>8, CertDeleteActs DEF Misreported
    <2>2. certs \in [Ids -> Certs \cup {None}]
      BY DEF Base, TablesKept
    <2>3. /\ certs' \in [Ids -> Certs \cup {None}]
          /\ \A d \in Calls : certs'[d] # None => certs[d] # None
      BY <2>1, <2>2 DEF Ids
    <2> QED
      BY <2>1, <2>3, CachesStayKept, BaseCerts
  <1>9. ASSUME NEW c \in Calls, TellCaches(c)
        PROVE  Base' /\ Persists
    <2>1. Persists /\ CachesKept'
      BY <1>9, TellsPersists, TellsCachesKept
    <2>2. /\ call' = call /\ tell' \in [Calls -> Tellings] /\ UNCHANGED <<before, seen>>
          /\ tell' = [tell EXCEPT ![c] = Nothing]
          /\ TablesStay
      BY <1>9, Tells
    <2>3. \A d \in Calls : CallKept(d)'
      BY <2>2 DEF Base, CallKept
    <2>4. \A d \in Calls : HistoryKept(d)'
      BY <2>1, <2>2, HistoryStays DEF Started
    <2>5. RowsSigned'
      BY <2>1, <2>2, RowsStay DEF Base, RowsSigned, TablesStay, Persists
    <2> QED
      BY <2>1, <2>2, <2>3, <2>4, <2>5 DEF Base, TablesKept, TablesStay
  <1>10. ASSUME NEW c \in Calls, Fails(c)
         PROVE  Base' /\ Persists
    <2>1. Acts(c) /\ TablesStay /\ CachesStay
      BY <1>10, FailsActs
    <2> QED
      BY <2>1, CachesStayKept, BaseCerts DEF TablesStay, Base, TablesKept
  <1>11. CASE Restart
    <2>1. Persists
      BY <1>11, RestartPersists
    <2>2. /\ call' \in [Calls -> CallStates] /\ tell' = [c \in Calls |-> Nothing]
          /\ \A c \in Calls : CallKept(c)'
          /\ TablesStay /\ UNCHANGED <<before, seen>> /\ CachesKept'
      BY <1>11, Restarts
    <2>3. \A d \in Calls : Started(d)' => Started(d)
      BY <1>11, Restarts DEF Running, Started
    <2>4. \A d \in Calls : HistoryKept(d)'
      BY <2>1, <2>2, <2>3, HistoryStays
    <2>5. RowsSigned'
      BY <2>1, <2>2, RowsStay DEF Base, RowsSigned, TablesStay, Persists
    <2>6. tell' \in [Calls -> Tellings]
      BY <2>2 DEF Tellings
    <2> QED
      BY <2>1, <2>2, <2>4, <2>5, <2>6 DEF Base, TablesKept, TablesStay
  <1> QED
    BY <1>1, <1>2, <1>3, <1>4, <1>5, <1>6, <1>7, <1>8, <1>9, <1>10, <1>11 DEF Next, CertService

-----------------------------------------------------------------------------
(* Calls that met have met.                                                *)

\* Two calls that are running overlap.
LEMMA RunningOverlap ==
    ASSUME Base, NEW c \in Calls, NEW d \in Calls, c # d,
           Started(c), ~Ended(c), Started(d), ~Ended(d)
    PROVE  Overlap(c, d)
  BY DEF Base, HistoryKept, Overlap

\* Calls that overlap have overlapped ever after.
LEMMA OverlapLasts ==
    ASSUME Persists
    PROVE  \A c, d : Overlap(c, d) => Overlap(c, d)'
  BY DEF Persists, Overlap

\* A call that decided on a stale copy has done so ever after.
LEMMA StaleLasts ==
    ASSUME Base, Persists
    PROVE  \A c : Stale(c) => Stale(c)'
  <1> SUFFICES ASSUME NEW c, Stale(c) PROVE Stale(c)'
    OBVIOUS
  <1>1. c \in Calls /\ seen[c] # None
    BY DEF Stale
  <1>2. Started(c)
    BY <1>1 DEF Base, HistoryKept
  <1>3. seen'[c] = seen[c]
    BY <1>1, <1>2 DEF Persists
  <1>4. CASE /\ call[c].app # None
             /\ \/ seen[c].app # [name |-> call[c].app.name, by |-> call[c].app.by]
                \/ call[c].app.oauth = None /\ seen[c].clients # {}
                \/ call[c].app.oauth # None /\ call[c].app.oauth \notin {Client(r) : r \in seen[c].clients}
    <2>1. call'[c].app = call[c].app
      BY <1>1, <1>4 DEF Persists
    <2> QED
      BY <1>1, <1>3, <1>4, <2>1 DEF Stale, Client
  <1>5. CASE /\ call[c].cert # None
             /\ seen[c].cert # [id |-> call[c].cert.id, value |-> call[c].cert.value]
    <2>1. call'[c].cert = call[c].cert
      BY <1>1, <1>5 DEF Persists
    <2> QED
      BY <1>1, <1>3, <1>5, <2>1 DEF Stale
  <1> QED
    BY <1>4, <1>5 DEF Stale

\* A call that asked for a name or a client ID asked for it ever after.
LEMMA AskingLasts ==
    ASSUME Persists
    PROVE  /\ \A c, a, n : c \in Asking(a, n) => c \in Asking(a, n)'
           /\ \A c, a, x : c \in AskingClient(a, x) => c \in AskingClient(a, x)'
  <1>1. \A c \in Calls : Stores(c) =>
           /\ Stores(c)' /\ call'[c].req = call[c].req
           /\ About(c)' = About(c) /\ ClientID(c)' = ClientID(c)
    BY Settled DEF Stores, Persists
  <1> QED
    BY <1>1 DEF Asking, AskingClient

\* Calls that met, for a name, a client ID or a row, have met ever after.
LEMMA MeetLasts ==
    ASSUME Base, Persists
    PROVE  /\ \A a, b, n : Meet(Asking(a, n), Asking(b, n)) => Meet(Asking(a, n), Asking(b, n))'
           /\ \A a, b, x : Meet(AskingClient(a, x), AskingClient(b, x)) =>
                              Meet(AskingClient(a, x), AskingClient(b, x))'
           /\ \A i, j : Meet({i}, {j}) => Meet({i}, {j})'
  <1>1. \A c, d : Overlap(c, d) => Overlap(c, d)'
    BY OverlapLasts
  <1>2. \A c : Stale(c) => Stale(c)'
    BY StaleLasts
  <1>3. ASSUME NEW a, NEW b, NEW n, Meet(Asking(a, n), Asking(b, n))
        PROVE  Meet(Asking(a, n), Asking(b, n))'
    BY <1>1, <1>2, <1>3, AskingLasts DEF Meet
  <1>4. ASSUME NEW a, NEW b, NEW x, Meet(AskingClient(a, x), AskingClient(b, x))
        PROVE  Meet(AskingClient(a, x), AskingClient(b, x))'
    BY <1>1, <1>2, <1>4, AskingLasts DEF Meet
  <1>5. ASSUME NEW i, NEW j, Meet({i}, {j})
        PROVE  Meet({i}, {j})'
    BY <1>1, <1>2, <1>5 DEF Meet
  <1> QED
    BY <1>3, <1>4, <1>5

-----------------------------------------------------------------------------
(* Registrations differ.                                                   *)

\* The invariant is the property, by the name and the client that rows have.
LEMMA DifferMeans ==
    ASSUME Base, Differ
    PROVE  RegistrationsDiffer
  <1>1. \A a \in Ids : apps[a] # None => apps[a].name \in Names
    BY DEF Base, TablesKept, Apps
  <1>2. \A a : Naming(a) = Asking(a, apps[a].name)
    BY DEF Naming, Asking, Writes, Stores, Op
  <1>3. \A r : Registering(r) = AskingClient(r.app, r.client)
    BY DEF Registering, AskingClient, Writes, Stores, Op
  <1>4. ASSUME NEW a \in Ids, NEW b \in Ids,
               a # b, apps[a] # None, apps[b] # None, apps[a].name = apps[b].name
        PROVE  Meet(Naming(a), Naming(b))
    BY <1>1, <1>2, <1>4 DEF Differ
  <1>5. ASSUME NEW r \in clients, NEW s \in clients, r.app # s.app, r.client = s.client
        PROVE  Meet(Registering(r), Registering(s))
    BY <1>3, <1>5 DEF Differ
  <1> QED
    BY <1>4, <1>5 DEF Differ, RegistrationsDiffer

\* Rows that differ differ as long as the tables stay.
LEMMA DifferStays ==
    ASSUME Base, Persists, UNCHANGED <<apps, clients>>, Differ
    PROVE  Differ'
  <1>1. ASSUME NEW a \in Ids, NEW b \in Ids, NEW n \in Names,
               a # b, apps'[a] # None, apps'[b] # None, apps'[a].name = n, apps'[b].name = n
        PROVE  Meet(Asking(a, n), Asking(b, n))'
    BY <1>1, MeetLasts DEF Differ
  <1>2. ASSUME NEW r \in clients', NEW s \in clients', r # s, r.app = s.app
        PROVE  Meet({r.row}, {s.row})'
    BY <1>2, MeetLasts DEF Differ
  <1>3. ASSUME NEW r \in clients', NEW s \in clients', r.app # s.app, r.client = s.client
        PROVE  Meet(AskingClient(r.app, r.client), AskingClient(s.app, r.client))'
    <2>1. Meet(AskingClient(r.app, r.client), AskingClient(s.app, r.client))
      BY <1>3 DEF Differ
    <2> QED
      BY <2>1, MeetLasts
  <1> QED
    BY <1>1, <1>2, <1>3 DEF Differ

\* A call that relied on a stale copy met whoever asked for the same.
LEMMA StaleMeets ==
    ASSUME NEW d \in Calls, Stores(d), Stale(d)
    PROVE  /\ \A a, b, n : b = About(d) /\ n = call[d].req.name => Meet(Asking(a, n), Asking(b, n))
           /\ \A a, b, x : b = About(d) /\ x = ClientID(d) => Meet(AskingClient(a, x), AskingClient(b, x))
           /\ \A i : Meet({i}, {d})
  BY DEF Meet, Asking, AskingClient

\* The copy of an application that is not stale has the name and the client that there were.
LEMMA FreshCopy ==
    ASSUME NEW d \in Calls, Base, Stores(d), call[d].app # None, ~Stale(d)
    PROVE  /\ seen[d] # None /\ seen[d].app # None /\ seen[d].app.name = call[d].app.name
           /\ call[d].app.oauth = None => seen[d].clients = {}
           /\ call[d].app.oauth # None =>
                 \E r \in seen[d].clients : r.client = call[d].app.oauth.client
  <1>1. call[d] # Idle /\ call[d] \in CallStates
    BY DEF Idle, Stores, Started, Base
  <1>2. Op(d) = "update"
    BY <1>1 DEF Base, CallKept, InHand, Stores, Op
  <1>3. seen[d] # None
    BY <1>2 DEF Base, HistoryKept, Stores
  <1>4. /\ seen[d].app = [name |-> call[d].app.name, by |-> call[d].app.by]
        /\ call[d].app.oauth = None => seen[d].clients = {}
        /\ call[d].app.oauth # None => call[d].app.oauth \in {Client(r) : r \in seen[d].clients}
    BY <1>3 DEF Stale
  <1>5. call[d].app \in AppRows
    BY <1>1 DEF CallStates
  <1>6. seen[d].app \in Apps
    BY <1>4, <1>5 DEF AppRows, Apps
  <1> QED
    BY <1>3, <1>4, <1>6, Values DEF Client

\* So it is after a step.
LEMMA FreshCopyNext ==
    ASSUME NEW d \in Calls, Base', Stores(d)', call'[d].app # None, ~Stale(d)'
    PROVE  /\ seen'[d] # None /\ seen'[d].app # None /\ seen'[d].app.name = call'[d].app.name
           /\ call'[d].app.oauth = None => seen'[d].clients = {}
           /\ call'[d].app.oauth # None =>
                 \E r \in seen'[d].clients : r.client = call'[d].app.oauth.client
  <1>1. call'[d] # Idle /\ call'[d] \in CallStates
    BY DEF Idle, Stores, Started, Base
  <1>2. Op(d)' = "update"
    BY <1>1 DEF Base, CallKept, InHand, Stores, Op
  <1>3. seen'[d] # None
    BY <1>2 DEF Base, HistoryKept, Stores
  <1>4. /\ seen'[d].app = [name |-> call'[d].app.name, by |-> call'[d].app.by]
        /\ call'[d].app.oauth = None => seen'[d].clients = {}
        /\ call'[d].app.oauth # None => call'[d].app.oauth \in {Client(r) : r \in seen'[d].clients}
    BY <1>3 DEF Stale, Client
  <1>5. call'[d].app \in AppRows
    BY <1>1 DEF CallStates
  <1>6. seen'[d].app \in Apps
    BY <1>4, <1>5 DEF AppRows, Apps
  <1> QED
    BY <1>3, <1>4, <1>6, Values DEF Client

\* What a call knows after a step that changes no row: what it knew before, or has
\* looked up, or has from its copy of the application.
LEMMA RulesPass ==
    ASSUME Base, Base', Persists, UNCHANGED <<apps, clients>>, NEW d \in Calls, Started(d), RulesOf(d),
           \/ call'[d].pc \in {"byID", "byName"}
           \/ call[d].pc \notin {"byID", "byName"}
           \/ Named(call[d].req.name) = {}
           \/ call'[d].app # None /\ call'[d].app.name = call[d].req.name,
           \/ call'[d].pc \in {"byID", "byName", "byClient"}
           \/ call[d].pc \notin {"byID", "byName", "byClient"}
           \/ call[d].req.client \in {None, "new"}
           \/ \A r \in clients : r.client # call[d].req.client
           \/ /\ call'[d].app # None /\ call'[d].app.oauth # None
              /\ call'[d].app.oauth.client = call[d].req.client
    PROVE  RulesOf(d)'
  <1>1. /\ Stores(d)' <=> Stores(d)
        /\ Past(d) => Past(d)'
        /\ About(d)' = About(d) /\ ClientID(d)' = ClientID(d)
        /\ call'[d].req = call[d].req /\ seen'[d] = seen[d]
    BY Settled DEF Persists
  <1>2. NameRule(d)'
    <2> SUFFICES ASSUME Stores(d), ~Past(d)', ~Past(d),
                        \/ call'[d].pc \notin {"byID", "byName"}
                        \/ /\ seen[d] # None /\ seen[d].app # None
                           /\ seen[d].app.name = call[d].req.name,
                        NEW a \in Ids, NEW b \in Ids, NEW n \in Names,
                        b = About(d), a # b, n = call[d].req.name,
                        apps[a] # None, apps[a].name = n
                 PROVE  Meet(Asking(a, n), Asking(b, n))'
      BY <1>1 DEF NameRule
    <2>1. CASE \/ call[d].pc \notin {"byID", "byName"}
               \/ /\ seen[d] # None /\ seen[d].app # None
                  /\ seen[d].app.name = call[d].req.name
      <3>1. Meet(Asking(a, n), Asking(b, n))
        BY <2>1 DEF RulesOf, NameRule
      <3> QED
        BY <3>1, MeetLasts
    <2>2. CASE Named(call[d].req.name) = {}
      BY <2>2 DEF Named
    <2>3. CASE /\ call'[d].app # None /\ call'[d].app.name = n
      <3>1. CASE Stale(d)'
        <4>1. Stores(d)' /\ b = About(d)' /\ n = call'[d].req.name
          BY <1>1
        <4> QED
          BY <3>1, <4>1 DEF Meet, Asking
      <3>2. CASE ~Stale(d)'
        <4>1. /\ seen'[d] # None /\ seen'[d].app # None /\ seen'[d].app.name = call'[d].app.name
          BY <1>1, <2>3, <3>2, FreshCopyNext
        <4> QED
          BY <1>1, <2>1, <2>3, <4>1
      <3> QED
        BY <3>1, <3>2
    <2> QED
      BY <2>1, <2>2, <2>3
  <1>3. ClientRule(d)'
    <2> SUFFICES ASSUME Stores(d), ~Past(d)', ~Past(d), call[d].req.client \notin {None, "new"},
                        \/ call'[d].pc \notin {"byID", "byName", "byClient"}
                        \/ seen[d] # None /\ \E s \in seen[d].clients : s.client = call[d].req.client,
                        NEW r \in clients, NEW b \in Ids,
                        b = About(d), r.app # b, r.client = call[d].req.client
                 PROVE  Meet(AskingClient(r.app, r.client), AskingClient(b, r.client))'
      BY <1>1 DEF ClientRule
    <2>1. CASE \/ call[d].pc \notin {"byID", "byName", "byClient"}
               \/ seen[d] # None /\ \E s \in seen[d].clients : s.client = call[d].req.client
      <3>1. Meet(AskingClient(r.app, r.client), AskingClient(b, r.client))
        BY <2>1 DEF RulesOf, ClientRule
      <3> QED
        BY <3>1, MeetLasts
    <2>2. CASE /\ call'[d].app # None /\ call'[d].app.oauth # None
               /\ call'[d].app.oauth.client = call[d].req.client
      <3>1. CASE Stale(d)'
        <4>1. Stores(d)' /\ b = About(d)' /\ r.client = ClientID(d)'
          BY <1>1 DEF ClientID
        <4> QED
          BY <3>1, <4>1 DEF Meet, AskingClient
      <3>2. CASE ~Stale(d)'
        <4>1. seen'[d] # None /\ \E s \in seen'[d].clients : s.client = call'[d].app.oauth.client
          BY <1>1, <2>2, <3>2, FreshCopyNext
        <4> QED
          BY <1>1, <2>1, <2>2, <4>1
      <3> QED
        BY <3>1, <3>2
    <2> QED
      BY <2>1, <2>2
  <1>4. RowRule(d)'
    <2>1. RowRule(d)
      BY DEF RulesOf
    <2> QED
      BY <1>1, <2>1, OverlapLasts DEF RowRule, ClientsOf
  <1> QED
    BY <1>2, <1>3, <1>4 DEF RulesOf

\* A call that a step leaves alone knows what it knew.
LEMMA RulesStay ==
    ASSUME Base, Base', Persists, UNCHANGED <<apps, clients>>, NEW d \in Calls, RulesOf(d),
           call'[d] = call[d] \/ Past(d)' \/ ~Stores(d)'
    PROVE  RulesOf(d)'
  <1>1. CASE Past(d)' \/ ~Stores(d)'
    BY <1>1 DEF RulesOf, NameRule, ClientRule, RowRule
  <1>2. CASE call'[d] = call[d] /\ Started(d)
    BY <1>2, RulesPass
  <1>3. CASE call'[d] = call[d] /\ ~Started(d)
    <2>1. ~Stores(d)'
      BY <1>3 DEF Stores, Started
    <2> QED
      BY <1>1, <2>1
  <1> QED
    BY <1>1, <1>2, <1>3

\* It does not matter who is named first.
LEMMA MeetEither ==
    ASSUME NEW C, NEW D, Meet(C, D)
    PROVE  Meet(D, C)
  BY DEF Meet, Overlap

\* At the start there is at most one application, with at most one client.
LEMMA RegistersInit ==
    ASSUME Init
    PROVE  Differ /\ Rules
  <1>1. PICK t \in InitialTables : apps = t.apps /\ clients = t.clients
    BY DEF Init
  <1>2. /\ \A c \in Calls : apps[c] = None
        /\ \A r, s \in clients : r = s
    BY <1>1, TablesAssumption
  <1>3. \A a \in Ids : apps[a] # None => a = First
    BY <1>2 DEF Ids
  <1>4. \A c \in Calls : ~Stores(c)
    BY DEF Init, Stores, Started, Idle
  <1>5. Differ
    BY <1>2, <1>3 DEF Differ
  <1>6. Rules
    BY <1>4 DEF Rules, RulesOf, NameRule, ClientRule, RowRule
  <1> QED
    BY <1>5, <1>6

\* A step of one call that changes no row, after which this call knows what it is to.
LEMMA RegistersQuietly ==
    ASSUME NEW c \in Calls, Base, Base', Persists, UNCHANGED <<apps, clients>>, Differ, Rules,
           \A d \in Calls \ {c} : call'[d] = call[d],
           RulesOf(c)'
    PROVE  Differ' /\ Rules'
  <1>1. \A d \in Calls \ {c} : RulesOf(d)'
    BY RulesStay DEF Rules
  <1> QED
    BY <1>1, DifferStays DEF Rules

\* A call that is past the tables, or does not write them, has no more to know.
LEMMA RegistersPast ==
    ASSUME NEW c \in Calls, Base, Base', Persists, UNCHANGED <<apps, clients>>, Differ, Rules,
           \A d \in Calls \ {c} : call'[d] = call[d],
           call'[c] = call[c] \/ Past(c)' \/ ~Stores(c)'
    PROVE  Differ' /\ Rules'
  <1>1. RulesOf(c)'
    BY RulesStay DEF Rules
  <1> QED
    BY <1>1, RegistersQuietly

\* The lookups of the application service: what they find is what the call is to know.
LEMMA RegistersLooks ==
    ASSUME NEW c \in Calls, Base, Base', Persists, Differ, Rules,
           ByName(c) \/ ByClient(c) \/ ByID(c)
    PROVE  Differ' /\ Rules'
  <1>1. Looks(c)
    BY ByNameLooks, ByClientLooks, ByIDLooks
  <1>2. /\ UNCHANGED <<apps, clients>> /\ Started(c)
        /\ \A d \in Calls \ {c} : call'[d] = call[d]
        /\ call'[c].req = call[c].req
    BY <1>1 DEF Looks, TablesStay, Acts
  <1>3. Stores(c)' <=> Stores(c)
    BY <1>2, Settled
  <1>4. CASE Past(c)' \/ ~Stores(c)'
    BY <1>2, <1>4, RegistersPast
  <1>5. CASE ~Past(c)' /\ Stores(c)'
    <2>1. call[c].req.op \in {"create", "update"} /\ call'[c].pc # "done"
      BY <1>3, <1>5 DEF Stores, Op, Past
    <2>2. RulesOf(c)
      BY DEF Rules
    <2>3. CASE ByName(c)
      <3>1. /\ Named(call[c].req.name) = {} /\ call'[c].app = call[c].app
            /\ call'[c].pc = AfterName(c, call[c].app)
        BY <2>1, <2>3, ByNameLooks
      <3>2. \/ call'[c].pc = "byClient"
            \/ call[c].req.client \in {None, "new"}
            \/ /\ call'[c].app # None /\ call'[c].app.oauth # None
               /\ call'[c].app.oauth.client = call[c].req.client
        BY <2>1, <3>1, AfterNames
      <3>3. RulesOf(c)'
        BY <1>2, <2>2, <3>1, <3>2, RulesPass
      <3> QED
        BY <1>2, <3>3, RegistersQuietly
    <2>4. CASE ByClient(c)
      <3>1. call[c].pc = "byClient" /\ \A r \in clients : r.client # call[c].req.client
        BY <2>1, <2>4, ByClientLooks
      <3>2. RulesOf(c)'
        BY <1>2, <2>2, <3>1, RulesPass
      <3> QED
        BY <1>2, <3>2, RegistersQuietly
    <2>5. CASE ByID(c)
      <3>1. /\ call'[c].app # None
            /\ call'[c].pc = IF call'[c].app.name # call[c].req.name THEN "byName"
                             ELSE AfterName(c, call'[c].app)
        <4>1. call[c].req.op = "update"
          BY <2>1, <2>5, ByIDLooks
        <4> QED
          BY <2>1, <2>5, <4>1, ByIDLooks
      <3>2. CASE call'[c].pc = "byName"
        <4>1. RulesOf(c)'
          BY <1>2, <2>2, <3>2, RulesPass
        <4> QED
          BY <1>2, <4>1, RegistersQuietly
      <3>3. CASE call'[c].pc # "byName"
        <4>1. call'[c].app.name = call[c].req.name /\ call'[c].pc = AfterName(c, call'[c].app)
          BY <3>1, <3>3
        <4> PICK k : k = call'[c].app
          OBVIOUS
        <4>2. \/ call'[c].pc = "byClient"
              \/ call[c].req.client \in {None, "new"}
              \/ k # None /\ k.oauth # None /\ k.oauth.client = call[c].req.client
          <5>1. call'[c].pc = AfterName(c, k)
            BY <4>1
          <5> QED
            BY <2>1, <5>1, AfterNames
        <4>3. RulesOf(c)'
          BY <1>2, <2>2, <3>1, <4>1, <4>2, RulesPass
        <4> QED
          BY <1>2, <4>3, RegistersQuietly
      <3> QED
        BY <3>2, <3>3
    <2> QED
      BY <2>3, <2>4, <2>5
  <1> QED
    BY <1>4, <1>5

\* The certificate is looked up and changed when names and clients have been checked.
LEMMA RegistersCerts ==
    ASSUME NEW c \in Calls, Base, Base', Persists, Differ, Rules,
           Acts(c), UNCHANGED <<apps, clients>>, call[c].pc \notin {"byID", "byName", "byClient"}
    PROVE  Differ' /\ Rules'
  <1>1. /\ Started(c) /\ RulesOf(c)
        /\ \A d \in Calls \ {c} : call'[d] = call[d]
    BY DEF Acts, Rules
  <1>2. RulesOf(c)'
    BY <1>1, RulesPass
  <1> QED
    BY <1>1, <1>2, RegistersQuietly

\* An update knows the name and the client that its application has.
LEMMA RegistersBegin ==
    ASSUME NEW c \in Calls, NEW r \in Requests, Base, Base', Persists, Differ, Rules, Begin(c, r)
    PROVE  Differ' /\ Rules'
  <1>1. /\ UNCHANGED <<apps, clients>>
        /\ \A d \in Calls \ {c} : call'[d] = call[d]
        /\ call'[c].req = r /\ call'[c].pc = FirstStep(r.op)
        /\ r.op \in {"update", "delete"} =>
              /\ seen'[c] = [app |-> apps[r.app], clients |-> ClientsOf(r.app), cert |-> certs[r.app]]
              /\ r.app \in Ids
        /\ r.op \notin {"update", "delete"} => seen'[c] = None
    BY Begins DEF TablesStay
  <1>2. CASE r.op # "update"
    <2>1. CASE r.op = "create"
      <3>1. call'[c].pc = "byName" /\ seen'[c] = None
        BY <1>1, <2>1 DEF FirstStep
      <3>2. RulesOf(c)'
        BY <3>1 DEF RulesOf, NameRule, ClientRule, RowRule
      <3> QED
        BY <1>1, <3>2, RegistersQuietly
    <2>2. CASE r.op # "create"
      <3>1. ~Stores(c)'
        BY <1>1, <1>2, <2>2 DEF Stores, Op
      <3> QED
        BY <1>1, <3>1, RegistersPast
    <2> QED
      BY <2>1, <2>2
  <1>3. CASE r.op = "update"
    <2>1. /\ seen'[c].app = apps[r.app] /\ seen'[c].clients = ClientsOf(r.app)
          /\ r.app \in Ids /\ call'[c].pc = "byID" /\ About(c)' = r.app
      BY <1>1, <1>3 DEF FirstStep, About
    <2>2. NameRule(c)'
      <3> SUFFICES ASSUME NEW a \in Ids, NEW b \in Ids, NEW n \in Names,
                          b = r.app, a # b, n = r.name, apps[a] # None, apps[a].name = n,
                          apps[b] # None, apps[b].name = n
                   PROVE  Meet(Asking(a, n), Asking(b, n))'
        BY <1>1, <2>1 DEF NameRule
      <3>1. Meet(Asking(a, n), Asking(b, n))
        BY DEF Differ
      <3> QED
        BY <3>1, MeetLasts
    <2>3. ClientRule(c)'
      <3> SUFFICES ASSUME NEW q \in clients, NEW b \in Ids, NEW s \in clients,
                          b = r.app, q.app # b, q.client = r.client, s.app = b, s.client = r.client
                   PROVE  Meet(AskingClient(q.app, q.client), AskingClient(b, q.client))'
        BY <1>1, <2>1 DEF ClientRule, ClientsOf
      <3>1. Meet(AskingClient(q.app, q.client), AskingClient(b, q.client))
        BY DEF Differ
      <3> QED
        BY <3>1, MeetLasts
    <2>4. RowRule(c)'
      <3>1. ClientsOf(About(c))' = ClientsOf(r.app)
        BY <1>1, <2>1 DEF ClientsOf
      <3> QED
        BY <2>1, <3>1 DEF RowRule
    <2>5. RulesOf(c)'
      BY <2>2, <2>3, <2>4 DEF RulesOf
    <2> QED
      BY <1>1, <2>5, RegistersQuietly
  <1> QED
    BY <1>2, <1>3

\* A deletion leaves fewer rows.
LEMMA RegistersRemove ==
    ASSUME NEW c \in Calls, Base, Base', Persists, Differ, Rules, Remove(c)
    PROVE  Differ' /\ Rules'
  <1>1. /\ Acts(c) /\ Op(c) = "delete" /\ About(c) \in Ids
        /\ apps' = [apps EXCEPT ![About(c)] = None]
        /\ clients' = clients \ ClientsOf(About(c))
    BY RemoveActs DEF Op
  <1>2. /\ \A a \in Ids : apps'[a] # None => apps'[a] = apps[a]
        /\ clients' \subseteq clients
    BY <1>1 DEF Base, TablesKept
  <1>3. Differ'
    <2>1. ASSUME NEW a \in Ids, NEW b \in Ids, NEW n \in Names,
                 a # b, apps'[a] # None, apps'[b] # None, apps'[a].name = n, apps'[b].name = n
          PROVE  Meet(Asking(a, n), Asking(b, n))'
      BY <1>2, <2>1, MeetLasts DEF Differ
    <2>2. ASSUME NEW r \in clients', NEW s \in clients', r # s, r.app = s.app
          PROVE  Meet({r.row}, {s.row})'
      BY <1>2, <2>2, MeetLasts DEF Differ
    <2>3. ASSUME NEW r \in clients', NEW s \in clients', r.app # s.app, r.client = s.client
          PROVE  Meet(AskingClient(r.app, r.client), AskingClient(s.app, r.client))'
      <3>1. Meet(AskingClient(r.app, r.client), AskingClient(s.app, r.client))
        BY <1>2, <2>3 DEF Differ
      <3> QED
        BY <3>1, MeetLasts
    <2> QED
      BY <2>1, <2>2, <2>3 DEF Differ
  <1>4. ASSUME NEW d \in Calls
        PROVE  RulesOf(d)'
    <2>1. CASE ~Stores(d)'
      BY <2>1 DEF RulesOf, NameRule, ClientRule, RowRule
    <2>2. CASE Stores(d)'
      <3>1. d # c
        BY <1>1, <2>2, Settled DEF Acts, Stores
      <3>2. call'[d] = call[d] /\ seen' = seen /\ RulesOf(d)
        BY <1>1, <3>1 DEF Acts, Rules
      <3>3. /\ Stores(d) /\ About(d)' = About(d) /\ (Past(d)' <=> Past(d))
        BY <2>2, <3>2 DEF Stores, About, Past, Started, Op
      <3>4. NameRule(d)'
        <4> SUFFICES ASSUME ~Past(d), \/ call[d].pc \notin {"byID", "byName"}
                                      \/ /\ seen[d] # None /\ seen[d].app # None
                                         /\ seen[d].app.name = call[d].req.name,
                            NEW a \in Ids, NEW b \in Ids, NEW n \in Names,
                            b = About(d), a # b, n = call[d].req.name,
                            apps'[a] # None, apps'[a].name = n
                     PROVE  Meet(Asking(a, n), Asking(b, n))'
          BY <3>2, <3>3 DEF NameRule
        <4>1. apps[a] # None /\ apps[a].name = n
          BY <1>2
        <4>2. Meet(Asking(a, n), Asking(b, n))
          BY <3>2, <3>3, <4>1 DEF RulesOf, NameRule
        <4> QED
          BY <4>2, MeetLasts
      <3>5. ClientRule(d)'
        <4> SUFFICES ASSUME ~Past(d), call[d].req.client \notin {None, "new"},
                            \/ call[d].pc \notin {"byID", "byName", "byClient"}
                            \/ /\ seen[d] # None
                               /\ \E s \in seen[d].clients : s.client = call[d].req.client,
                            NEW r \in clients', NEW b \in Ids,
                            b = About(d), r.app # b, r.client = call[d].req.client
                     PROVE  Meet(AskingClient(r.app, r.client), AskingClient(b, r.client))'
          BY <3>2, <3>3 DEF ClientRule
        <4>1. Meet(AskingClient(r.app, r.client), AskingClient(b, r.client))
          BY <1>2, <3>2, <3>3 DEF RulesOf, ClientRule
        <4> QED
          BY <4>1, MeetLasts
      <3>6. RowRule(d)'
        BY <1>2, <3>2, <3>3, OverlapLasts DEF RulesOf, RowRule, ClientsOf
      <3> QED
        BY <3>4, <3>5, <3>6 DEF RulesOf
    <2> QED
      BY <2>1, <2>2
  <1> QED
    BY <1>3, <1>4 DEF Rules

\* What a store changes in the tables, for the rules.
LEMMA StoreMeets ==
    ASSUME NEW c \in Calls, Base, Base', Differ, Rules, Store(c),
           \/ Op(c) = "create" /\ InsertRows(c)
           \/ Op(c) = "update" /\ ~Refused(c) /\ UpdateRows(c)
    PROVE  Differ'
  <1>0. PICK a : a = About(c)
    OBVIOUS
  <1> DEFINE renewal(s) == [NewClient(c) EXCEPT !.row = s.row]
             x == ClientID(c)
             name == call[c].req.name
  <1>1. /\ Acts(c) /\ Stores(c) /\ call[c].pc = "store" /\ ~call[c].undo /\ ~Past(c)
        /\ (lost => lost')
    BY StoreActs DEF Misreported, Past
  <1>2. Persists
    BY <1>1, ActsPersists
  <1>3. /\ \A b \in Ids \ {a} : apps'[b] = apps[b]
        /\ apps'[a] # None => apps'[a].name = name
        /\ \A r \in clients' :
              \/ r \in clients /\ (Renewed(c) => r.app # a)
              \/ Renewed(c) /\ \E s \in clients : s.app = a /\ r = renewal(s)
              \/ /\ ~Renewed(c) /\ r = NewClient(c) /\ ClientID(c) # None
                 /\ Op(c) = "update" => OAuthOf(call[c].app) = None
    <2>1. /\ \A b \in Ids \ {a} : apps'[b] = apps[b]
          /\ apps'[a] = IF Op(c) = "update" /\ apps[a] = None THEN None
                         ELSE [name |-> call[c].req.name, by |-> c]
          /\ \A r \in clients' :
                \/ r \in clients /\ (Renewed(c) => r.app # a)
                \/ Renewed(c) /\ \E s \in clients : s.app = a /\ r = renewal(s)
                \/ /\ ~Renewed(c) /\ r = NewClient(c) /\ ClientID(c) # None
                   /\ Op(c) = "update" => OAuthOf(call[c].app) = None
      BY <1>0, <1>1, StoredTables
    <2> QED
      BY <2>1
  <1>4. /\ NameRule(c) /\ ClientRule(c) /\ RowRule(c)
        /\ a \in Ids
    BY <1>0, <1>1, StoredRows DEF Rules, RulesOf
  <1>5. NewClient(c) = [row |-> c, app |-> a, client |-> x, by |-> c]
    BY <1>0 DEF NewClient
  <1> HIDE DEF x, name
  <1>6. ASSUME NEW b \in Ids, NEW n \in Names, a # b, n = name, apps[b] # None, apps[b].name = n
        PROVE  Meet(Asking(b, n), Asking(a, n))'
    <2>1. Meet(Asking(b, n), Asking(a, n))
      BY <1>0, <1>1, <1>4, <1>6 DEF NameRule, name
    <2> QED
      BY <1>2, <2>1, MeetLasts
  <1>7. \A b \in Ids, d \in Ids, n \in Names :
           /\ b # d /\ apps'[b] # None /\ apps'[d] # None
           /\ apps'[b].name = n /\ apps'[d].name = n
           => Meet(Asking(b, n), Asking(d, n))'
    <2> SUFFICES ASSUME NEW b \in Ids, NEW d \in Ids, NEW n \in Names,
                        b # d, apps'[b] # None, apps'[d] # None,
                        apps'[b].name = n, apps'[d].name = n
                 PROVE  Meet(Asking(b, n), Asking(d, n))'
      OBVIOUS
    <2>1. CASE b # a /\ d # a
      <3>1. Meet(Asking(b, n), Asking(d, n))
        BY <1>3, <2>1 DEF Differ
      <3> QED
        BY <1>2, <3>1, MeetLasts
    <2>2. CASE d = a
      BY <1>3, <1>6, <2>2
    <2>3. CASE b = a
      <3>1. Meet(Asking(d, n), Asking(b, n))'
        BY <1>3, <1>6, <2>3
      <3> QED
        BY <3>1 DEF Meet, Overlap
    <2> QED
      BY <2>1, <2>2, <2>3
  <1>8. ASSUME NEW s \in clients, s.app = a, ~Renewed(c),
               Op(c) = "update" => OAuthOf(call[c].app) = None
        PROVE  Meet({s.row}, {c})
    <2>1. Op(c) = "update"
      <3>1. CASE Op(c) = "create"
        <4>1. a = c /\ apps[c] # None
          BY <1>0, <1>8, <3>1 DEF About, Op, Base, RowsSigned
        <4> QED
          BY <1>1, <4>1 DEF Base, RowsSigned
      <3> QED
        BY <1>1, <3>1 DEF Stores
    <2>2. call[c].app # None /\ call[c].app.oauth = None
      <3>1. InHand(call[c])
        BY <1>1 DEF Base, CallKept, Idle
      <3> QED
        BY <1>1, <1>8, <2>1, <3>1 DEF InHand, OAuthOf, Op
    <2>3. CASE Stale(c)
      BY <1>1, <2>3, StaleMeets
    <2>4. CASE ~Stale(c)
      <3>1. seen[c] # None /\ seen[c].clients = {}
        BY <1>1, <2>2, <2>4, FreshCopy
      <3>2. Overlap(s.row, c)
        BY <1>0, <1>1, <1>4, <1>8, <3>1 DEF RowRule, ClientsOf
      <3> QED
        BY <3>2 DEF Meet
    <2> QED
      BY <2>3, <2>4
  <1>9. ASSUME NEW r \in clients', NEW s \in clients', r # s, r.app = s.app
        PROVE  Meet({r.row}, {s.row})'
    <2>1. \A t : r = renewal(t) => r.row = t.row /\ r.app = a
      BY <1>5
    <2>2. \A t : s = renewal(t) => s.row = t.row /\ s.app = a
      BY <1>5
    <2>3. \A t, u : r = renewal(t) /\ s = renewal(u) => t # u
      BY <1>9
    <2> HIDE DEF renewal
    <2>4. Meet({r.row}, {s.row})
      <3>1. CASE r \in clients /\ s \in clients
        BY <1>9, <3>1 DEF Differ
      <3>2. CASE Renewed(c) /\ ~(r \in clients /\ s \in clients)
        <4>1. /\ \E t \in clients : t.app = a /\ r = renewal(t)
              /\ \E t \in clients : t.app = a /\ s = renewal(t)
          BY <1>3, <1>9, <2>1, <2>2, <3>2
        <4>2. PICK t \in clients, u \in clients : /\ t.app = a /\ r = renewal(t)
                                                  /\ u.app = a /\ s = renewal(u)
          BY <4>1
        <4>3. t # u
          BY <2>3, <4>2
        <4> QED
          BY <2>1, <2>2, <4>2, <4>3 DEF Differ
      <3>3. CASE ~Renewed(c) /\ r \notin clients
        <4>1. /\ r = NewClient(c) /\ s \in clients /\ s.app = a
              /\ Op(c) = "update" => OAuthOf(call[c].app) = None
          BY <1>3, <1>5, <1>9, <3>3
        <4>2. Meet({s.row}, {c}) /\ r.row = c
          BY <1>5, <1>8, <3>3, <4>1
        <4> QED
          BY <4>2, MeetEither
      <3>4. CASE ~Renewed(c) /\ s \notin clients
        <4>1. /\ s = NewClient(c) /\ r \in clients /\ r.app = a
              /\ Op(c) = "update" => OAuthOf(call[c].app) = None
          BY <1>3, <1>5, <1>9, <3>4
        <4> QED
          BY <1>5, <1>8, <3>4, <4>1
      <3> QED
        BY <3>1, <3>2, <3>3, <3>4
    <2> QED
      BY <1>2, <2>4, MeetLasts
  <1>10. ASSUME NEW s \in clients, s.app # a, s.client = x, x # None
         PROVE  Meet(AskingClient(s.app, x), AskingClient(a, x))
    <2>1. CASE call[c].req.client # "new"
      <3>1. x = call[c].req.client
        BY <2>1 DEF x, ClientID
      <3> QED
        BY <1>0, <1>1, <1>4, <1>10, <2>1, <3>1 DEF ClientRule
    <2>2. CASE call[c].req.client = "new"
      <3>1. x = c
        BY <2>2 DEF x, ClientID
      <3>2. s.by # First /\ Signed(s.by, s.app) /\ ClientID(s.by) = c
        BY <1>10, <3>1 DEF Base, RowsSigned
      <3>3. PICK d \in Calls : d = s.by
        BY <3>2 DEF Base, TablesKept, ClientTable, Ids
      <3>4. /\ d # c /\ Started(d) /\ Op(d) \in {"create", "update"} /\ About(d) = s.app
            /\ call[d].req.client = c
        BY <1>0, <1>10, <3>2, <3>3 DEF Signed, Stores, ClientID
      <3>5. c \notin before[d] /\ d \notin before[c]
        BY <1>1, <3>4 DEF Base, HistoryKept, Given, Ended, Stores
      <3>6. Overlap(d, c)
        BY <1>1, <3>4, <3>5 DEF Overlap, Stores
      <3> QED
        BY <1>0, <1>1, <3>1, <3>2, <3>3, <3>4, <3>6 DEF Meet, AskingClient, Stores, x
    <2> QED
      BY <2>1, <2>2
  <1>11. ASSUME NEW r \in clients', NEW s \in clients', r.app # s.app, r.client = s.client
         PROVE  Meet(AskingClient(r.app, r.client), AskingClient(s.app, r.client))'
    <2>1. \A t \in clients' : t \in clients \/ (t.app = a /\ t.client = x /\ x # None)
      <3>1. \A t : renewal(t).app = a /\ renewal(t).client = x
        BY <1>5
      <3>2. Renewed(c) => x # None
        BY DEF Renewed, x
      <3>3. ClientID(c) # None => x # None
        BY DEF x
      <3> HIDE DEF renewal
      <3> QED
        BY <1>3, <1>5, <3>1, <3>2, <3>3
    <2>2. Meet(AskingClient(r.app, r.client), AskingClient(s.app, r.client))
      <3>1. CASE r \in clients /\ s \in clients
        BY <1>11, <3>1 DEF Differ
      <3>2. CASE r \in clients /\ s \notin clients
        BY <1>10, <1>11, <2>1, <3>2
      <3>3. CASE s \in clients /\ r \notin clients
        <4>1. Meet(AskingClient(s.app, x), AskingClient(a, x)) /\ r.app = a /\ r.client = x
          BY <1>10, <1>11, <2>1, <3>3
        <4> QED
          BY <4>1, MeetEither
      <3> QED
        BY <1>11, <2>1, <3>1, <3>2, <3>3
    <2> QED
      BY <1>2, <2>2, MeetLasts
  <1> HIDE DEF renewal
  <1> QED
    BY <1>7, <1>9, <1>11 DEF Differ

\* Another call that is running meets the one that stores.
LEMMA StoreRules ==
    ASSUME NEW c \in Calls, Base, Base', Rules, Store(c),
           \/ Op(c) = "create" /\ InsertRows(c)
           \/ Op(c) = "update" /\ ~Refused(c) /\ UpdateRows(c)
    PROVE  Rules'
  <1>0. PICK a : a = About(c)
    OBVIOUS
  <1> DEFINE renewal(s) == [NewClient(c) EXCEPT !.row = s.row]
  <1>1. /\ Acts(c) /\ Stores(c) /\ call[c].pc = "store" /\ ~call[c].undo
        /\ Past(c)' /\ (lost => lost') /\ a \in Ids
    BY <1>0, StoreActs, StoredRows DEF RolledBack, Misreported, Past
  <1>2. Persists
    BY <1>1, ActsPersists
  <1>3. /\ \A b \in Ids \ {a} : apps'[b] = apps[b]
        /\ apps'[a] = IF Op(c) = "update" /\ apps[a] = None THEN None
                       ELSE [name |-> call[c].req.name, by |-> c]
        /\ \A r \in clients' :
              \/ r \in clients
              \/ \E s \in clients : s.app = a /\ r = renewal(s)
              \/ r = NewClient(c)
    BY <1>0, <1>1, StoredTables
  <1>4. NewClient(c) = [row |-> c, app |-> a, client |-> ClientID(c), by |-> c]
    BY <1>0 DEF NewClient
  <1>5. \A s : /\ renewal(s).row = s.row /\ renewal(s).app = a
               /\ renewal(s).client = ClientID(c)
    BY <1>4
  <1> HIDE DEF renewal
  <1>6. apps'[a] # None => apps'[a].name = call[c].req.name
    BY <1>3
  <1>7. /\ Stores(c)' /\ About(c)' = a /\ call'[c].req = call[c].req /\ ClientID(c)' = ClientID(c)
    BY <1>0, <1>1, <1>2, Settled DEF Stores, Persists
  <1>8. ASSUME NEW d \in Calls
        PROVE  RulesOf(d)'
    <2>1. CASE ~Stores(d)' \/ Past(d)'
      BY <2>1 DEF RulesOf, NameRule, ClientRule, RowRule
    <2>2. CASE Stores(d)' /\ ~Past(d)'
      <3>1. d # c
        BY <1>1, <2>2
      <3>2. call'[d] = call[d] /\ seen' = seen /\ RulesOf(d)
        BY <1>1, <3>1 DEF Acts, Rules
      <3>3. Stores(d) /\ About(d)' = About(d) /\ ~Past(d) /\ Started(d) /\ ~Ended(d)
        BY <2>2, <3>2 DEF Stores, About, Past, Started, Ended, Op
      <3>4. Overlap(c, d)'
        <4>1. Overlap(c, d)
          BY <1>1, <3>1, <3>3, RunningOverlap DEF Stores, Ended
        <4> QED
          BY <1>2, <4>1, OverlapLasts
      <3>5. NameRule(d)'
        <4> SUFFICES ASSUME \/ call[d].pc \notin {"byID", "byName"}
                            \/ /\ seen[d] # None /\ seen[d].app # None
                               /\ seen[d].app.name = call[d].req.name,
                            NEW e \in Ids, NEW b \in Ids, NEW n \in Names,
                            b = About(d), e # b, n = call[d].req.name,
                            apps'[e] # None, apps'[e].name = n
                     PROVE  Meet(Asking(e, n), Asking(b, n))'
          BY <3>2, <3>3 DEF NameRule
        <4>1. CASE e # a
          <5>1. Meet(Asking(e, n), Asking(b, n))
            BY <1>3, <3>2, <3>3, <4>1 DEF RulesOf, NameRule
          <5> QED
            BY <1>2, <5>1, MeetLasts
        <4>2. CASE e = a
          <5>1. c \in Asking(e, n)' /\ d \in Asking(b, n)'
            BY <1>6, <1>7, <2>2, <3>2, <3>3, <4>2 DEF Asking
          <5> QED
            BY <3>4, <5>1 DEF Meet
        <4> QED
          BY <4>1, <4>2
      <3>6. ClientRule(d)'
        <4> SUFFICES ASSUME call[d].req.client \notin {None, "new"},
                            \/ call[d].pc \notin {"byID", "byName", "byClient"}
                            \/ /\ seen[d] # None
                               /\ \E s \in seen[d].clients : s.client = call[d].req.client,
                            NEW r \in clients', NEW b \in Ids,
                            b = About(d), r.app # b, r.client = call[d].req.client
                     PROVE  Meet(AskingClient(r.app, r.client), AskingClient(b, r.client))'
          BY <3>2, <3>3 DEF ClientRule
        <4>1. CASE r \in clients
          <5>1. Meet(AskingClient(r.app, r.client), AskingClient(b, r.client))
            BY <3>2, <3>3, <4>1 DEF RulesOf, ClientRule
          <5> QED
            BY <1>2, <5>1, MeetLasts
        <4>2. CASE r \notin clients
          <5>1. r.app = a /\ r.client = ClientID(c)
            BY <1>3, <1>4, <1>5, <4>2
          <5>2. ClientID(d)' = call[d].req.client
            BY <3>2 DEF ClientID
          <5>3. c \in AskingClient(r.app, r.client)' /\ d \in AskingClient(b, r.client)'
            BY <1>7, <2>2, <3>3, <5>1, <5>2 DEF AskingClient
          <5> QED
            BY <3>4, <5>3 DEF Meet
        <4> QED
          BY <4>1, <4>2
      <3>7. RowRule(d)'
        <4> SUFFICES ASSUME seen[d] # None, seen[d].clients = {},
                            NEW r \in clients', r.app = About(d)
                     PROVE  Overlap(r.row, d)'
          BY <3>2, <3>3 DEF RowRule, ClientsOf
        <4>1. \A s \in clients : s.app = About(d) => Overlap(s.row, d)
          BY <3>2, <3>3 DEF RulesOf, RowRule, ClientsOf
        <4>2. CASE r \in clients
          BY <1>2, <4>1, <4>2, OverlapLasts
        <4>3. CASE r = NewClient(c)
          <5>1. r.row = c
            BY <1>4, <4>3
          <5> QED
            BY <3>4, <5>1
        <4>4. ASSUME NEW s \in clients, s.app = a, r = renewal(s)
              PROVE  Overlap(r.row, d)'
          <5>1. r.row = s.row /\ s.app = About(d)
            BY <1>5, <4>4
          <5>2. Overlap(s.row, d)
            BY <4>1, <5>1
          <5> QED
            BY <1>2, <5>1, <5>2, OverlapLasts
        <4> QED
          BY <1>3, <4>2, <4>3, <4>4
      <3> QED
        BY <3>5, <3>6, <3>7 DEF RulesOf
    <2> QED
      BY <2>1, <2>2
  <1> QED
    BY <1>8 DEF Rules

\* Registrations keep apart, through every step.
LEMMA RegistersStep ==
    ASSUME Base, Base', Persists, Differ, Rules, [Next]_vars
    PROVE  Differ' /\ Rules'
  <1>1. CASE UNCHANGED vars
    <2>1. UNCHANGED <<call, apps, clients>>
      BY <1>1 DEF vars, certVars, appVars
    <2>2. \A c \in Calls : RulesOf(c)'
      BY <2>1, RulesStay DEF Rules
    <2> QED
      BY <2>1, <2>2, DifferStays DEF Rules
  <1>2. ASSUME NEW c \in Calls, NEW r \in Requests, Begin(c, r)
        PROVE  Differ' /\ Rules'
    BY <1>2, RegistersBegin
  <1>3. ASSUME NEW c \in Calls, Store(c)
        PROVE  Differ' /\ Rules'
    <2>1. CASE UNCHANGED <<apps, clients>>
      <3>1. Past(c)' /\ \A d \in Calls \ {c} : call'[d] = call[d]
        BY <1>3, StoreActs DEF RolledBack, Past, Acts
      <3> QED
        BY <2>1, <3>1, RegistersPast
    <2>2. CASE \/ Op(c) = "create" /\ InsertRows(c)
               \/ Op(c) = "update" /\ ~Refused(c) /\ UpdateRows(c)
      BY <1>3, <2>2, StoreMeets, StoreRules
    <2> QED
      BY <1>3, <2>1, <2>2, StoreActs
  <1>4. ASSUME NEW c \in Calls, CertOf(c) \/ Find(c) \/ (CertService(c) /\ UNCHANGED appVars)
        PROVE  Differ' /\ Rules'
    <2>1. /\ Acts(c) /\ UNCHANGED <<apps, clients>>
          /\ call[c].pc \notin {"byID", "byName", "byClient"}
      <3>1. CASE CertOf(c) \/ Find(c)
        BY <3>1, CertOfLooks, FindLooks DEF Looks, TablesStay
      <3>2. CASE (CertExists(c) \/ CertByID(c) \/ CertFind(c)) /\ UNCHANGED appVars
        BY <3>2, CertExistsLooks, CertByIDLooks, CertFindLooks DEF Looks, TablesStay
      <3>3. CASE (CertInsert(c) \/ CertUpdate(c) \/ CertDelete(c)) /\ UNCHANGED appVars
        BY <3>3, CertInsertActs, CertUpdateActs, CertDeleteActs
      <3> QED
        BY <1>4, <3>1, <3>2, <3>3 DEF CertService
    <2> QED
      BY <2>1, RegistersCerts
  <1>5. ASSUME NEW c \in Calls, Fails(c)
        PROVE  Differ' /\ Rules'
    <2>1. /\ Acts(c) /\ UNCHANGED <<apps, clients>> /\ Past(c)'
      BY <1>5, FailsActs DEF RolledBack, CertFails, Past, TablesStay
    <2> QED
      BY <2>1, RegistersPast DEF Acts
  <1>6. ASSUME NEW c \in Calls, TellCaches(c)
        PROVE  Differ' /\ Rules'
    <2>1. UNCHANGED <<call, apps, clients>>
      BY <1>6, Tells DEF TablesStay
    <2> QED
      BY <2>1, RegistersPast
  <1>7. CASE Restart
    <2>1. /\ UNCHANGED <<apps, clients>>
          /\ \A d \in Calls : call'[d].pc = "done" \/ call'[d] = call[d]
      BY <1>7, Restarts DEF TablesStay
    <2>2. \A d \in Calls : RulesOf(d)'
      BY <2>1, RulesStay DEF Rules, Past
    <2> QED
      BY <2>1, <2>2, DifferStays DEF Rules
  <1> QED
    BY <1>1, <1>2, <1>3, <1>4, <1>5, <1>6, <1>7, RegistersLooks, RegistersRemove DEF Next

-----------------------------------------------------------------------------
(* Nothing is left behind.                                                 *)

\* Calls that met stay an excuse.
LEMMA ExcusesLast ==
    ASSUME Base, Persists
    PROVE  /\ \A c : Excused(c) => Excused(c)'
           /\ AnyMeet => AnyMeet'
  <1>1. \A d \in Calls : Writes(d) => Writes(d)'
    BY Settled DEF Writes
  <1>2. \A c, d : Overlap(c, d) => Overlap(c, d)'
    BY OverlapLasts
  <1>3. \A d : Stale(d) => Stale(d)'
    BY StaleLasts
  <1>4. ASSUME NEW c, Excused(c)
        PROVE  Excused(c)'
    <2>1. PICK d \in Calls : Writes(d) /\ (Overlap(c, d) \/ Stale(d))
      BY <1>4 DEF Excused
    <2>2. Writes(d)' /\ (Overlap(c, d)' \/ Stale(d)')
      BY <1>1, <1>2, <1>3, <2>1
    <2> QED
      BY <2>2 DEF Excused
  <1>5. ASSUME AnyMeet
        PROVE  AnyMeet'
    <2>1. PICK c \in Calls, d \in Calls : Writes(c) /\ Writes(d) /\ Meet({c}, {d})
      BY <1>5 DEF AnyMeet
    <2>2. Writes(c)' /\ Writes(d)'
      BY <1>1, <2>1
    <2>3. Meet({c}, {d})'
      BY <2>1, MeetLasts
    <2> QED
      BY <2>2, <2>3 DEF AnyMeet
  <1> QED
    BY <1>4, <1>5

\* An update that has read an application that was not there relied on a stale copy.
LEMMA CopyOfNothing ==
    ASSUME NEW d \in Calls, Base, Started(d), Op(d) = "update",
           call[d].pc \notin {"byID", "done"}, seen[d].app = None
    PROVE  Stale(d)
  <1>1. call[d] \in CallStates /\ InHand(call[d])
    BY DEF Base, CallKept, Started, Idle
  <1>2. call[d].app \in AppRows
    BY <1>1 DEF InHand, CallStates, Op
  <1>3. [name |-> call[d].app.name, by |-> call[d].app.by] \in Apps
    BY <1>2 DEF AppRows, Apps
  <1>4. seen[d] # None
    BY DEF Base, HistoryKept
  <1> QED
    BY <1>2, <1>3, <1>4, Values DEF Stale

\* A call that writes to a deleted application met the deletion, or relied on a stale copy.
LEMMA WriterExcuses ==
    ASSUME NEW c \in Calls, NEW d \in Calls, Base, GoneRule(c), Deleting(c) \/ Deleted(c),
           Stores(d), call[d].pc \notin {"byID", "done"}, About(d) = About(c)
    PROVE  Excused(c)
  <1>1. Op(c) = "delete" /\ Started(c) /\ c # d /\ Writes(d) /\ Started(d)
    BY DEF Deleting, Deleted, Stores, Writes, Op
  <1>2. CASE c \notin before[d]
    <2>1. d \notin before[c]
      BY DEF Base, HistoryKept, Ended
    <2> QED
      BY <1>1, <1>2, <2>1 DEF Excused, Overlap
  <1>3. CASE c \in before[d]
    <2>1. Deleted(c)
      BY <1>3 DEF Base, HistoryKept, Ended, Deleting
    <2>2. Op(d) = "update"
      <3>1. CASE Op(d) = "create"
        <4>1. About(c) = d /\ call[c].req.app = d
          BY <1>1, <3>1 DEF About, Op
        <4> QED
          BY <1>1, <1>3, <4>1 DEF Base, HistoryKept, Given
      <3> QED
        BY <3>1 DEF Stores
    <2>3. Excused(c) \/ seen[d].app = None
      BY <1>1, <1>3, <2>1, <2>2 DEF GoneRule
    <2>4. CASE seen[d].app = None
      BY <1>1, <2>2, <2>4, CopyOfNothing DEF Excused
    <2> QED
      BY <2>3, <2>4
  <1> QED
    BY <1>2, <1>3

\* What has to be shown of a deletion after a step.
LEMMA GoneStep ==
    ASSUME NEW c \in Calls, NEW a, Base, Base', Persists, GoneRule(c), UNCHANGED <<before, seen>>,
           Started(c), a = About(c),
           \A d \in Calls : Started(d)' => Started(d),
           Excused(c) \/ /\ Deleting(c)' \/ Deleted(c)' => apps'[a] = None /\ ClientsOf(a)' = {}
                         /\ Deleted(c)' => certs'[a] = None,
           Deleted(c)' => Deleted(c) \/ call[c].pc # "done"
    PROVE  GoneRule(c)'
  <1>1. About(c)' = a /\ Op(c)' = Op(c)
    BY Settled
  <1>2. Excused(c) => Excused(c)'
    BY ExcusesLast
  <1>3. Deleting(c)' \/ Deleted(c)' =>
           Excused(c)' \/ (apps'[a] = None /\ ClientsOf(a)' = {})
    BY <1>2
  <1>4. Deleted(c)' => Excused(c)' \/ certs'[a] = None
    BY <1>2
  <1>5. ASSUME NEW d \in Calls, Deleted(c)', Started(d)', Op(d)' = "update",
               About(d)' = a, c \in before'[d]
        PROVE  Excused(c)' \/ seen'[d].app = None
    <2>1. Started(d) /\ Op(d) = "update" /\ About(d) = a /\ c \in before[d]
      BY <1>5, Settled
    <2>2. Deleted(c)
      BY <1>5, <2>1 DEF Base, HistoryKept, Ended
    <2>3. Excused(c) \/ seen[d].app = None
      BY <2>1, <2>2 DEF GoneRule
    <2> QED
      BY <1>2, <2>3
  <1> QED
    BY <1>1, <1>3, <1>4, <1>5 DEF GoneRule, ClientsOf

\* A call that is no deletion has nothing to leave behind.
LEMMA GoneOther ==
    ASSUME NEW c \in Calls, ~Started(c)' \/ Op(c)' # "delete"
    PROVE  GoneRule(c)'
  BY DEF GoneRule, Deleting, Deleted

\* A step of another call, which adds nothing to the tables of an application unless it
\* has the excuse.
LEMMA GoneStays ==
    ASSUME NEW c \in Calls, NEW a, Base, Base', Persists, GoneRule(c), UNCHANGED <<before, seen>>,
           a = About(c), \A d \in Calls : Started(d)' => Started(d),
           call'[c] = call[c],
           Excused(c) \/ ~(Deleting(c) \/ Deleted(c))
              \/ /\ apps'[a] \in {apps[a], None} /\ ClientsOf(a)' \subseteq ClientsOf(a)
                 /\ certs'[a] \in {certs[a], None}
    PROVE  GoneRule(c)'
  <1>1. CASE ~Started(c)
    BY <1>1, GoneOther DEF Started
  <1>2. CASE Started(c)
    <2>1. (Deleting(c)' <=> Deleting(c)) /\ (Deleted(c)' <=> Deleted(c))
      BY DEF Deleting, Deleted, Started, Op
    <2>2. Excused(c) \/ /\ Deleting(c)' \/ Deleted(c)' => apps'[a] = None /\ ClientsOf(a)' = {}
                        /\ Deleted(c)' => certs'[a] = None
      BY <2>1 DEF GoneRule
    <2> QED
      BY <1>2, <2>1, <2>2, GoneStep
  <1> QED
    BY <1>1, <1>2

\* A step of another call that writes nothing.
LEMMA GoneQuietly ==
    ASSUME NEW c \in Calls, Base, Base', Persists, GoneRule(c), UNCHANGED <<before, seen>>,
           \A d \in Calls : Started(d)' => Started(d),
           call'[c] = call[c], UNCHANGED <<apps, clients, certs>>
    PROVE  GoneRule(c)'
  <1>1. PICK a : a = About(c)
    OBVIOUS
  <1>2. ClientsOf(a)' = ClientsOf(a)
    BY DEF ClientsOf
  <1> QED
    BY <1>1, <1>2, GoneStays

\* A step of a deletion that does not answer ok, and leaves the tables alone.
LEMMA GoneUnanswered ==
    ASSUME NEW c \in Calls, Base, Base', Persists, GoneRule(c), UNCHANGED <<before, seen>>,
           \A d \in Calls : Started(d)' => Started(d),
           Started(c), UNCHANGED <<apps, clients, certs>>,
           \/ call'[c].pc = "done" /\ call'[c].reply # "ok"
           \/ call[c].pc \in {"certFind", "certDelete"} /\ call'[c].pc # "done"
           \/ call'[c].pc \notin {"certFind", "certDelete", "done"}
           \/ Op(c) # "delete"
    PROVE  GoneRule(c)'
  <1>1. PICK a : a = About(c)
    OBVIOUS
  <1>2. ClientsOf(a)' = ClientsOf(a) /\ Op(c)' = Op(c)
    BY Settled DEF ClientsOf
  <1>3. ~Deleted(c)' \/ Op(c)' # "delete"
    BY <1>2 DEF Deleted
  <1>4. Deleting(c)' => Deleting(c) \/ Op(c)' # "delete"
    BY <1>2 DEF Deleting
  <1>5. CASE Op(c)' # "delete"
    BY <1>5, GoneOther
  <1>6. CASE Op(c)' = "delete"
    <2>1. Excused(c) \/ (Deleting(c)' => apps'[a] = None /\ ClientsOf(a)' = {})
      BY <1>1, <1>2, <1>4, <1>6 DEF GoneRule
    <2> QED
      BY <1>1, <1>3, <1>6, <2>1, GoneStep
  <1> QED
    BY <1>5, <1>6

\* A deletion that begins has done nothing yet, and an update that begins after one
\* finds nothing.
LEMMA GoneBegin ==
    ASSUME NEW e \in Calls, NEW r \in Requests, NEW c \in Calls, Base, Base', Persists,
           \A d \in Calls : GoneRule(d), Begin(e, r)
    PROVE  GoneRule(c)'
  <1>1. /\ UNCHANGED <<apps, clients, certs>> /\ ~Started(e)
        /\ \A d \in Calls \ {e} : call'[d] = call[d] /\ before'[d] = before[d] /\ seen'[d] = seen[d]
        /\ call'[e].pc \in {"byName", "byID", "find", "byClient"} /\ call'[e].req = r
        /\ before'[e] = {d \in Calls : Ended(d)}
        /\ r.op \in {"update", "delete"} =>
              seen'[e] = [app |-> apps[r.app], clients |-> ClientsOf(r.app), cert |-> certs[r.app]]
    BY Begins DEF TablesStay
  <1>2. CASE c = e
    BY <1>1, <1>2 DEF GoneRule, Deleting, Deleted
  <1>3. CASE c # e
    <2>1. /\ (Deleting(c)' <=> Deleting(c)) /\ (Deleted(c)' <=> Deleted(c))
          /\ About(c)' = About(c) /\ GoneRule(c)
      BY <1>1, <1>3 DEF Deleting, Deleted, Started, Op, About
    <2>2. Excused(c) => Excused(c)'
      BY ExcusesLast
    <2>3. ASSUME NEW d \in Calls, Deleted(c)', Started(d)', Op(d)' = "update",
                 About(d)' = About(c)', c \in before'[d]
          PROVE  Excused(c)' \/ seen'[d].app = None
      <3>1. CASE d # e
        <4>1. Started(d) /\ Op(d) = "update" /\ About(d) = About(c) /\ c \in before[d]
          BY <1>1, <2>1, <2>3, <3>1 DEF Started, Op, About
        <4> QED
          BY <1>1, <2>1, <2>2, <2>3, <3>1, <4>1 DEF GoneRule
      <3>2. CASE d = e
        <4>1. r.op = "update" /\ r.app = About(c)
          BY <1>1, <2>1, <2>3, <3>2 DEF Op, About
        <4>2. seen'[e].app = apps[About(c)]
          BY <1>1, <4>1
        <4> QED
          BY <2>1, <2>2, <2>3, <3>2, <4>2 DEF GoneRule
      <3> QED
        BY <3>1, <3>2
    <2>4. ClientsOf(About(c))' = ClientsOf(About(c))
      BY <1>1, <2>1 DEF ClientsOf
    <2> QED
      BY <1>1, <2>1, <2>2, <2>3, <2>4 DEF GoneRule
  <1> QED
    BY <1>2, <1>3

\* The steps of the call itself that are no deletion's.
LEMMA NoDeletion ==
    ASSUME NEW c \in Calls, Base, Acts(c),
           call[c].pc \notin {"find", "remove", "certFind", "certDelete"}
    PROVE  Op(c) # "delete"
  <1>1. OnWay(call[c]) /\ call[c].pc # "done"
    BY DEF Acts, Base, CallKept, Started, Idle
  <1> QED
    BY <1>1 DEF OnWay, Op, CertWay, WayBack

\* The rows are removed first, and the certificate then, whatever others do.
LEMMA GoneDeletes ==
    ASSUME NEW c \in Calls, Base, Base', Persists, GoneRule(c),
           Find(c) \/ Remove(c) \/ ((CertFind(c) \/ CertDelete(c)) /\ UNCHANGED appVars)
    PROVE  GoneRule(c)'
  <1>1. PICK a : a = About(c)
    OBVIOUS
  <1>2. Acts(c)
    BY FindLooks, RemoveActs, CertFindLooks, CertDeleteActs DEF Looks
  <1>3. /\ Started(c) /\ UNCHANGED <<before, seen>> /\ call[c].pc # "done"
        /\ \A d \in Calls : Started(d)' => Started(d)
    BY <1>2 DEF Acts, Started
  <1>4. Op(c)' = Op(c)
    BY <1>3, Settled
  <1>5. CASE Find(c)
    <2>1. UNCHANGED <<apps, clients, certs>> /\ Op(c) = "delete"
      BY <1>5, FindLooks DEF Looks, TablesStay, Op
    <2>2. CASE call'[c].pc # "certFind"
      <3>1. \/ call'[c].pc = "done" /\ call'[c].reply # "ok"
            \/ call'[c].pc \notin {"certFind", "certDelete", "done"}
        BY <1>5, <2>2, FindLooks
      <3> QED
        BY <1>3, <2>1, <3>1, GoneUnanswered
    <2>3. CASE call'[c].pc = "certFind"
      <3>1. apps[a] = None
        BY <1>1, <1>5, <2>3, FindLooks
      <3>2. ClientsOf(a) = {}
        BY <3>1 DEF ClientsOf, Base, RowsSigned
      <3>3. ClientsOf(a)' = {} /\ apps'[a] = None /\ ~Deleted(c)'
        BY <2>1, <2>3, <3>1, <3>2 DEF ClientsOf, Deleted
      <3> QED
        BY <1>1, <1>3, <3>3, GoneStep
    <2> QED
      BY <2>2, <2>3
  <1>6. CASE Remove(c)
    <2>1. /\ apps' = [apps EXCEPT ![a] = None] /\ clients' = clients \ ClientsOf(a) /\ a \in Ids
          /\ \/ call'[c].pc = "done" /\ call'[c].reply = "error"
             \/ call'[c].pc = "certFind"
      BY <1>1, <1>6, RemoveActs
    <2>2. apps'[a] = None /\ ClientsOf(a)' = {} /\ ~Deleted(c)'
      BY <2>1 DEF ClientsOf, Base, TablesKept, Deleted
    <2> QED
      BY <1>1, <1>3, <2>2, GoneStep
  <1>7. CASE CertFind(c) /\ UNCHANGED appVars
    <2>1. /\ UNCHANGED <<apps, clients, certs>> /\ call[c].pc = "certFind"
          /\ \/ certs[a] = None
             \/ call'[c].pc = "certDelete"
      BY <1>1, <1>7, CertFindLooks DEF Looks, TablesStay
    <2>2. CASE call'[c].pc # "done" \/ Op(c) # "delete"
      BY <1>3, <2>1, <2>2, GoneUnanswered
    <2>3. CASE call'[c].pc = "done" /\ Op(c) = "delete"
      <3>1. Deleting(c) /\ certs[a] = None
        BY <1>3, <2>1, <2>3 DEF Deleting
      <3>2. Excused(c) \/ (apps'[a] = None /\ ClientsOf(a)' = {} /\ certs'[a] = None)
        BY <1>1, <2>1, <3>1 DEF GoneRule, ClientsOf
      <3> QED
        BY <1>1, <1>3, <3>2, GoneStep
    <2> QED
      BY <2>2, <2>3
  <1>8. CASE CertDelete(c) /\ UNCHANGED appVars
    <2>1. /\ UNCHANGED <<apps, clients>> /\ certs' = [certs EXCEPT ![a] = None] /\ a \in Ids
          /\ call[c].pc = "certDelete"
      BY <1>1, <1>8, CertDeleteActs
    <2>2. certs'[a] = None
      BY <2>1 DEF Base, TablesKept
    <2>3. CASE Op(c) # "delete"
      BY <1>4, <2>3, GoneOther
    <2>4. CASE Op(c) = "delete"
      <3>1. Deleting(c)
        BY <1>3, <2>1, <2>4 DEF Deleting
      <3>2. Excused(c) \/ (apps'[a] = None /\ ClientsOf(a)' = {} /\ certs'[a] = None)
        BY <1>1, <2>1, <2>2, <3>1 DEF GoneRule, ClientsOf
      <3> QED
        BY <1>1, <1>3, <3>2, GoneStep
    <2> QED
      BY <2>3, <2>4
  <1> QED
    BY <1>5, <1>6, <1>7, <1>8

\* What others write.
LEMMA GoneWritten ==
    ASSUME NEW c \in Calls, NEW e \in Calls, c # e, Base, Base', Persists, GoneRule(c),
           \/ Store(e) \/ Remove(e)
           \/ (CertInsert(e) \/ CertUpdate(e) \/ CertDelete(e)) /\ UNCHANGED appVars
    PROVE  GoneRule(c)'
  <1>1. PICK a : a = About(c)
    OBVIOUS
  <1>2. Acts(e) /\ About(e) \in Ids
    BY StoreActs, StoredRows, RemoveActs, CertInsertActs, CertUpdateActs, CertDeleteActs
  <1>3. /\ call'[c] = call[c] /\ UNCHANGED <<before, seen>>
        /\ \A d \in Calls : Started(d)' => Started(d)
    BY <1>2 DEF Acts, Started
  <1>4. TablesKept /\ (Deleting(c) \/ Deleted(c) => a \in Ids)
    <2>1. Deleting(c) \/ Deleted(c) => call[c].req \in Requests /\ Op(c) = "delete"
      BY DEF Deleting, Deleted, Base, CallKept, Idle, Started
    <2> QED
      BY <1>1, <2>1, RequestFields DEF Base, About, Op
  <1>5. CASE Remove(e)
    <2>1. /\ apps' = [apps EXCEPT ![About(e)] = None] /\ clients' \subseteq clients
          /\ UNCHANGED certs
      BY <1>5, RemoveActs
    <2>2. Deleting(c) \/ Deleted(c) =>
             /\ apps'[a] \in {apps[a], None} /\ ClientsOf(a)' \subseteq ClientsOf(a)
             /\ certs'[a] \in {certs[a], None}
      BY <1>4, <2>1 DEF TablesKept, ClientsOf
    <2> QED
      BY <1>1, <1>3, <2>2, GoneStays
  <1>6. CASE CertDelete(e) /\ UNCHANGED appVars
    <2>1. certs' = [certs EXCEPT ![About(e)] = None] /\ UNCHANGED <<apps, clients>>
      BY <1>6, CertDeleteActs
    <2>2. Deleting(c) \/ Deleted(c) =>
             /\ apps'[a] \in {apps[a], None} /\ ClientsOf(a)' \subseteq ClientsOf(a)
             /\ certs'[a] \in {certs[a], None}
      BY <1>4, <2>1 DEF TablesKept, ClientsOf
    <2> QED
      BY <1>1, <1>3, <2>2, GoneStays
  <1>7. CASE Store(e) \/ ((CertInsert(e) \/ CertUpdate(e)) /\ UNCHANGED appVars)
    <2>1. Stores(e) /\ call[e].pc \notin {"byID", "done"}
      BY <1>7, StoreActs, CertInsertActs, CertUpdateActs
    <2>2. CASE About(e) = a
      <3>1. Excused(c) \/ ~(Deleting(c) \/ Deleted(c))
        BY <1>1, <2>1, <2>2, WriterExcuses
      <3> QED
        BY <1>1, <1>3, <3>1, GoneStays
    <2>3. CASE About(e) # a /\ Store(e)
      <3>1. Deleting(c) \/ Deleted(c) => /\ apps'[a] = apps[a] /\ ClientsOf(a)' \subseteq ClientsOf(a)
                                         /\ certs'[a] = certs[a]
        <4>1. CASE UNCHANGED <<apps, clients>>
          BY <2>3, <4>1, StoreActs DEF ClientsOf
        <4>2. CASE \/ Op(e) = "create" /\ InsertRows(e)
                   \/ Op(e) = "update" /\ ~Refused(e) /\ UpdateRows(e)
          <5> PICK b : b = About(e)
            OBVIOUS
          <5> DEFINE renewal(s) == [NewClient(e) EXCEPT !.row = s.row]
          <5>1. /\ \A d \in Ids \ {b} : apps'[d] = apps[d]
                /\ \A r \in clients' :
                      r \in clients \/ r = NewClient(e) \/ \E s \in clients : r = renewal(s)
            <6>1. call[e].pc = "store" /\ ~call[e].undo
              BY <2>3, StoreActs
            <6> QED
              BY <2>1, <4>2, <6>1, StoredTables
          <5>2. NewClient(e).app = b /\ \A s : renewal(s).app = b
            BY DEF NewClient
          <5> HIDE DEF renewal
          <5>3. \A r \in clients' : r.app = a => r \in clients
            BY <2>3, <5>1, <5>2
          <5> QED
            BY <1>4, <2>3, <5>1, <5>3, StoreActs DEF ClientsOf
        <4> QED
          BY <2>3, <4>1, <4>2, StoreActs
      <3> QED
        BY <1>1, <1>3, <3>1, GoneStays
    <2>4. CASE About(e) # a /\ ~Store(e)
      <3>1. Deleting(c) \/ Deleted(c) => /\ apps'[a] = apps[a] /\ ClientsOf(a)' = ClientsOf(a)
                                         /\ certs'[a] = certs[a]
        <4>1. /\ UNCHANGED <<apps, clients>>
              /\ \/ UNCHANGED certs
                 \/ \E w : certs' = [certs EXCEPT ![About(e)] = w]
          BY <1>7, <2>4, CertInsertActs, CertUpdateActs
        <4> QED
          BY <1>4, <2>4, <4>1 DEF ClientsOf, TablesKept
      <3> QED
        BY <1>1, <1>3, <3>1, GoneStays
    <2> QED
      BY <2>2, <2>3, <2>4
  <1> QED
    BY <1>5, <1>6, <1>7

\* A deletion leaves nothing, through every step.
LEMMA GoneNext ==
    ASSUME NEW c \in Calls, Base, Base', Persists, \A d \in Calls : GoneRule(d), [Next]_vars
    PROVE  GoneRule(c)'
  <1>1. GoneRule(c)
    OBVIOUS
  <1>2. CASE UNCHANGED vars
    <2>1. UNCHANGED <<call, apps, clients, certs, before, seen>>
      BY <1>2 DEF vars, certVars, appVars
    <2> QED
      BY <1>1, <2>1, GoneQuietly DEF Started
  <1>3. ASSUME NEW e \in Calls, NEW r \in Requests, Begin(e, r)
        PROVE  GoneRule(c)'
    BY <1>3, GoneBegin
  <1>4. ASSUME NEW e \in Calls, Looks(e) \/ Fails(e), c # e
        PROVE  GoneRule(c)'
    <2>1. Acts(e) /\ UNCHANGED <<apps, clients, certs>>
      BY <1>4, FailsActs DEF Looks, TablesStay
    <2> QED
      BY <1>1, <1>4, <2>1, GoneQuietly DEF Acts, Started
  <1>5. CASE \/ ByName(c) \/ ByClient(c) \/ ByID(c) \/ CertOf(c)
             \/ (CertExists(c) \/ CertByID(c)) /\ UNCHANGED appVars
    <2>1. Looks(c) /\ call[c].pc \notin {"find", "remove", "certFind", "certDelete"}
      BY <1>5, ByNameLooks, ByClientLooks, ByIDLooks, CertOfLooks, CertExistsLooks, CertByIDLooks
    <2>2. Acts(c) /\ Op(c) # "delete"
      BY <2>1, NoDeletion DEF Looks
    <2>3. Op(c)' = Op(c)
      BY <2>2 DEF Acts, Op
    <2> QED
      BY <2>2, <2>3, GoneOther
  <1>6. CASE Store(c) \/ ((CertInsert(c) \/ CertUpdate(c)) /\ UNCHANGED appVars)
    <2>1. Acts(c) /\ Op(c) # "delete"
      BY <1>6, StoreActs, CertInsertActs, CertUpdateActs DEF Stores
    <2>2. Op(c)' = Op(c)
      BY <2>1 DEF Acts, Op
    <2> QED
      BY <2>1, <2>2, GoneOther
  <1>7. CASE Fails(c)
    <2>1. /\ Acts(c) /\ UNCHANGED <<apps, clients, certs>>
          /\ \/ call[c].pc = "store"
             \/ call'[c].pc = "done" /\ call'[c].reply # "ok"
      BY <1>7, FailsActs DEF TablesStay, CertFails
    <2>2. \/ call'[c].pc = "done" /\ call'[c].reply # "ok"
          \/ Op(c) # "delete"
      BY <2>1, NoDeletion
    <2> QED
      BY <1>1, <2>1, <2>2, GoneUnanswered DEF Acts, Started
  <1>8. ASSUME NEW e \in Calls, TellCaches(e)
        PROVE  GoneRule(c)'
    <2>1. UNCHANGED <<call, apps, clients, certs, before, seen>>
      BY <1>8, Tells DEF TablesStay
    <2> QED
      BY <1>1, <2>1, GoneQuietly DEF Started
  <1>9. CASE Restart
    <2>1. /\ UNCHANGED <<apps, clients, certs, before, seen>>
          /\ \A d \in Calls : IF Running(d)
                              THEN call'[d].pc = "done" /\ call'[d].reply = "stopped"
                              ELSE call'[d] = call[d]
      BY <1>9, Restarts DEF TablesStay
    <2>2. \A d \in Calls : Started(d)' => Started(d)
      BY <2>1 DEF Started, Running
    <2>3. CASE Running(c)
      BY <1>1, <2>1, <2>2, <2>3, GoneUnanswered DEF Running
    <2>4. CASE ~Running(c)
      BY <1>1, <2>1, <2>2, <2>4, GoneQuietly
    <2> QED
      BY <2>3, <2>4
  <1>10. ASSUME NEW e \in Calls,
                \/ ByName(e) \/ ByClient(e) \/ ByID(e) \/ CertOf(e) \/ Store(e) \/ Find(e) \/ Remove(e)
                \/ CertService(e) /\ UNCHANGED appVars
                \/ Fails(e)
         PROVE  GoneRule(c)'
    <2>1. CASE c = e
      BY <1>1, <1>5, <1>6, <1>7, <1>10, <2>1, GoneDeletes DEF CertService
    <2>2. CASE c # e
      <3>1. \/ Looks(e) \/ Fails(e) \/ Store(e) \/ Remove(e)
            \/ (CertInsert(e) \/ CertUpdate(e) \/ CertDelete(e)) /\ UNCHANGED appVars
        BY <1>10, ByNameLooks, ByClientLooks, ByIDLooks, CertOfLooks, FindLooks, CertExistsLooks,
           CertByIDLooks, CertFindLooks DEF CertService
      <3> QED
        BY <1>1, <1>4, <2>2, <3>1, GoneWritten
    <2> QED
      BY <2>1, <2>2
  <1> QED
    BY <1>2, <1>3, <1>8, <1>9, <1>10 DEF Next

-----------------------------------------------------------------------------
(* Certificates and their applications.                                    *)

\* A call that was answered with an error stays an excuse.
LEMMA ExcuseLasts ==
    ASSUME Base, Persists,
           \A d \in Calls : \/ call'[d].reply \in {call[d].reply, "stopped"}
                            \/ call[d].reply = None
    PROVE  \A a : Excuse(a) => Excuse(a)'
  <1> SUFFICES ASSUME NEW a, Excuse(a)
               PROVE  Excuse(a)'
    OBVIOUS
  <1>1. PICK c \in Calls : /\ Started(c) /\ Op(c) # "getClient" /\ About(c) = a
                           /\ \/ call[c].reply \in {"certError", "stopped"}
                              \/ Op(c) = "delete" /\ call[c].reply = "error"
    BY DEF Excuse
  <1>2. Started(c)' /\ Op(c)' = Op(c) /\ About(c)' = a
    BY <1>1, Settled
  <1>3. call'[c].reply \in {call[c].reply, "stopped"}
    BY <1>1, Values DEF Replies
  <1> QED
    BY <1>1, <1>2, <1>3 DEF Excuse

\* An update that has read its application found it there, but for calls that meet.
LEMMA UpdatesThere ==
    ASSUME NEW e \in Calls, Base, OrphanRule, Stores(e), Op(e) = "update",
           call[e].pc \notin {"byID", "done"}
    PROVE  AnyMeet \/ apps[About(e)] # None
  <1>1. CASE seen[e].app = None
    <2>1. Stale(e) /\ Writes(e)
      BY <1>1, CopyOfNothing DEF Stores, Writes, Op
    <2> QED
      BY <2>1 DEF AnyMeet, Meet
  <1>2. CASE seen[e].app # None
    BY <1>2 DEF OrphanRule, Stores
  <1> QED
    BY <1>1, <1>2

\* What has to be shown after a step.
LEMMA OrphanStep ==
    ASSUME Base, Base', Persists, OrphanRule,
           \A d \in Calls : \/ call'[d].reply \in {call[d].reply, "stopped"}
                            \/ call[d].reply = None,
           \A d \in Calls : call[d].pc = "done" => call'[d].pc = "done",
           \A a \in Ids : certs'[a] # None /\ apps'[a] = None =>
              \/ Excuse(a)' \/ AnyMeet
              \/ \E c \in Calls : Tidying(c)' /\ About(c)' = a
              \/ /\ certs[a] # None /\ apps[a] = None
                 /\ \A c \in Calls : Tidying(c) /\ About(c) = a =>
                       Tidying(c)' \/ Excuse(a)' \/ AnyMeet,
           \A c \in Calls : certs'[c] # None =>
              \/ AnyMeet
              \/ /\ Stores(c)'
                 /\ Past(c)' \/ (call'[c].pc = "store" /\ call'[c].req.cert # None)
              \/ /\ certs[c] # None
                 /\ call'[c] = call[c] \/ call[c].pc # "store" \/ Past(c)',
           \A c \in Calls, a \in Ids :
              /\ Started(c) /\ Op(c) = "update" /\ call'[c].pc # "done"
              /\ About(c) = a /\ apps[a] # None
              => apps'[a] # None \/ AnyMeet',
           \A c \in Calls : Started(c)' /\ ~Started(c) /\ Op(c)' = "update" =>
              \E a \in Ids : a = About(c)' /\ seen'[c].app = apps'[a]
    PROVE  OrphanRule'
  <1>1. /\ \A a : Excuse(a) => Excuse(a)'
        /\ AnyMeet => AnyMeet'
    BY ExcuseLasts, ExcusesLast
  <1>2. ASSUME NEW a \in Ids, certs'[a] # None, apps'[a] = None
        PROVE  Excuse(a)' \/ AnyMeet' \/ \E c \in Calls : Tidying(c)' /\ About(c)' = a
    <2>1. CASE /\ certs[a] # None /\ apps[a] = None
               /\ \A c \in Calls : Tidying(c) /\ About(c) = a =>
                     Tidying(c)' \/ Excuse(a)' \/ AnyMeet
      <3>1. Excuse(a) \/ AnyMeet \/ \E c \in Calls : Tidying(c) /\ About(c) = a
        BY <2>1 DEF OrphanRule
      <3>2. ASSUME NEW c \in Calls, Tidying(c), About(c) = a
            PROVE  Excuse(a)' \/ AnyMeet' \/ (Tidying(c)' /\ About(c)' = a)
        <4>1. About(c)' = a
          BY <3>2, Settled DEF Tidying
        <4> QED
          BY <1>1, <2>1, <3>2, <4>1
      <3> QED
        BY <1>1, <3>1, <3>2
    <2>2. CASE ~(/\ certs[a] # None /\ apps[a] = None
                 /\ \A c \in Calls : Tidying(c) /\ About(c) = a =>
                       Tidying(c)' \/ Excuse(a)' \/ AnyMeet)
      BY <1>1, <1>2, <2>2
    <2> QED
      BY <2>1, <2>2
  <1>3. ASSUME NEW c \in Calls, certs'[c] # None, ~(Stores(c)' /\ Past(c)')
        PROVE  AnyMeet' \/ (Stores(c)' /\ call'[c].pc = "store" /\ call'[c].req.cert # None)
    <2>1. CASE /\ certs[c] # None
               /\ call'[c] = call[c] \/ call[c].pc # "store" \/ Past(c)'
      <3>1. Stores(c) => Stores(c)'
        BY Settled DEF Stores
      <3>2. Past(c) => Past(c)'
        BY DEF Persists
      <3>3. AnyMeet \/ (Stores(c) /\ call[c].pc = "store" /\ call[c].req.cert # None)
        BY <1>3, <2>1, <3>1, <3>2 DEF OrphanRule
      <3> QED
        BY <1>1, <1>3, <2>1, <3>1, <3>3
    <2>2. CASE ~(/\ certs[c] # None
                 /\ call'[c] = call[c] \/ call[c].pc # "store" \/ Past(c)')
      BY <1>1, <1>3, <2>2
    <2> QED
      BY <2>1, <2>2
  <1>4. ASSUME NEW c \in Calls, NEW a, Started(c)', Op(c)' = "update", call'[c].pc # "done",
               seen'[c].app # None, a = About(c)'
        PROVE  apps'[a] # None \/ AnyMeet'
    <2>1. CASE Started(c)
      <3>1. Op(c) = "update" /\ About(c) = a /\ seen'[c] = seen[c]
        BY <1>4, <2>1, Settled DEF Persists
      <3>2. call[c].pc # "done"
        BY <1>4
      <3>3. apps[a] # None \/ AnyMeet
        BY <1>4, <2>1, <3>1, <3>2 DEF OrphanRule
      <3>4. a \in Ids
        <4>1. call[c].req \in Requests
          BY <2>1 DEF Base, CallKept, Started, Idle
        <4> QED
          BY <3>1, <4>1, RequestFields DEF About, Op
      <3> QED
        BY <1>1, <1>4, <2>1, <3>1, <3>3, <3>4
    <2>2. CASE ~Started(c)
      BY <1>4, <2>2
    <2> QED
      BY <2>1, <2>2
  <1> QED
    BY <1>2, <1>3, <1>4 DEF OrphanRule

\* A step of call e, with what it does to certificates and applications.
LEMMA OrphanActs ==
    ASSUME NEW e \in Calls, Base, Base', OrphanRule, Acts(e), lost => lost',
           \A a \in Ids : certs'[a] # None /\ apps'[a] = None =>
              \/ Excuse(a)' \/ AnyMeet
              \/ Tidying(e)' /\ About(e) = a
              \/ /\ certs[a] # None /\ apps[a] = None
                 /\ Tidying(e) /\ About(e) = a => Tidying(e)' \/ Excuse(a)' \/ AnyMeet,
           \A c \in Calls : certs'[c] # None =>
              \/ AnyMeet
              \/ /\ Stores(c)'
                 /\ Past(c)' \/ (call'[c].pc = "store" /\ call'[c].req.cert # None)
              \/ /\ certs[c] # None
                 /\ c # e \/ call[c].pc # "store" \/ Past(c)',
           \A a \in Ids : apps[a] # None => apps'[a] # None \/ Op(e) = "delete"
    PROVE  OrphanRule'
  <1>1. Persists
    BY ActsPersists
  <1>2. /\ \A d \in Calls \ {e} : call'[d] = call[d] /\ tell'[d] = tell[d]
        /\ Started(e) /\ call[e].pc # "done" /\ call[e].reply = None
        /\ About(e)' = About(e)
    BY <1>1, Settled DEF Acts, Base, CallKept, Idle, Started
  <1>3. \A d \in Calls : \/ call'[d].reply \in {call[d].reply, "stopped"}
                         \/ call[d].reply = None
    BY <1>2
  <1>4. \A d \in Calls : call[d].pc = "done" => call'[d].pc = "done"
    BY <1>2
  <1>5. \A d \in Calls \ {e} : Tidying(d) => Tidying(d)'
    BY <1>2 DEF Tidying, Deleting, Started, Op
  <1>6. \A a \in Ids : certs'[a] # None /\ apps'[a] = None =>
           \/ Excuse(a)' \/ AnyMeet
           \/ \E c \in Calls : Tidying(c)' /\ About(c)' = a
           \/ /\ certs[a] # None /\ apps[a] = None
              /\ \A c \in Calls : Tidying(c) /\ About(c) = a =>
                    Tidying(c)' \/ Excuse(a)' \/ AnyMeet
    BY <1>2, <1>5
  <1>7. \A c \in Calls : certs'[c] # None =>
           \/ AnyMeet
           \/ /\ Stores(c)'
              /\ Past(c)' \/ (call'[c].pc = "store" /\ call'[c].req.cert # None)
           \/ /\ certs[c] # None
              /\ call'[c] = call[c] \/ call[c].pc # "store" \/ Past(c)'
    BY <1>2
  <1>8. ASSUME NEW c \in Calls, NEW a \in Ids, Started(c), Op(c) = "update", call'[c].pc # "done",
               About(c) = a, apps[a] # None
        PROVE  apps'[a] # None \/ AnyMeet'
    <2>1. CASE Op(e) = "delete"
      <3>1. c # e /\ ~Ended(c) /\ ~Ended(e)
        BY <1>2, <1>8, <2>1 DEF Ended
      <3>2. Overlap(c, e)
        BY <1>2, <1>8, <3>1, RunningOverlap
      <3>3. AnyMeet
        BY <1>2, <1>8, <2>1, <3>2 DEF AnyMeet, Meet, Writes, Op
      <3> QED
        BY <1>1, <3>3, ExcusesLast
    <2> QED
      BY <1>8, <2>1
  <1>9. \A c \in Calls : Started(c)' => Started(c)
    BY <1>2 DEF Started
  <1> QED
    BY <1>1, <1>3, <1>4, <1>6, <1>7, <1>8, <1>9, OrphanStep

\* Steps that write nothing: a call keeps an eye on the certificate, or has an excuse.
LEMMA OrphanLooks ==
    ASSUME NEW e \in Calls, Base, Base', OrphanRule, Acts(e), TablesStay,
           call[e].pc # "store" \/ Past(e)',
           \A a \in Ids : certs[a] # None /\ apps[a] = None /\ Tidying(e) /\ About(e) = a =>
                             Tidying(e)' \/ Excuse(a)' \/ AnyMeet
    PROVE  OrphanRule'
  BY OrphanActs DEF TablesStay

\* The lookups.
LEMMA OrphanFinds ==
    ASSUME NEW e \in Calls, Base, Base', OrphanRule,
           \/ ByName(e) \/ ByClient(e) \/ ByID(e) \/ CertOf(e) \/ Find(e)
           \/ (CertExists(e) \/ CertByID(e) \/ CertFind(e)) /\ UNCHANGED appVars
    PROVE  OrphanRule'
  <1>1. Looks(e) /\ call[e].pc # "store"
    BY ByNameLooks, ByClientLooks, ByIDLooks, CertOfLooks, FindLooks, CertExistsLooks, CertByIDLooks,
       CertFindLooks
  <1>2. Acts(e) /\ TablesStay /\ OnWay(call[e])
    BY <1>1 DEF Looks, Acts, Base, CallKept, Started, Idle
  <1>3. ASSUME NEW a \in Ids, certs[a] # None, Tidying(e), About(e) = a
        PROVE  Tidying(e)'
    <2>1. call[e].pc \in {"certFind", "certDelete"}
      BY <1>1, <1>2, <1>3 DEF Tidying, Deleting, OnWay, Op
    <2>2. CertFind(e) /\ UNCHANGED appVars
      BY <2>1, ByNameLooks, ByClientLooks, ByIDLooks, CertOfLooks, FindLooks, CertExistsLooks,
         CertByIDLooks
    <2>3. call'[e].pc = "certDelete" /\ call'[e].undo = call[e].undo
      BY <1>3, <2>2, CertFindLooks DEF Holds
    <2> QED
      BY <1>2, <1>3, <2>1, <2>3 DEF Tidying, Deleting, Acts, Started, Op
  <1> QED
    BY <1>1, <1>2, <1>3, OrphanLooks

\* What a call that is answered with an error about the certificate leaves is excused.
LEMMA ErrorExcuses ==
    ASSUME NEW e \in Calls, Base, Acts(e), call'[e].pc = "done",
           \/ call'[e].reply = "certError"
           \/ call'[e].reply = "error" /\ Op(e) = "delete",
           Op(e) # "getClient"
    PROVE  \A a : About(e) = a => Excuse(a)'
  <1>1. Started(e)' /\ Op(e)' = Op(e) /\ About(e)' = About(e)
    BY DEF Acts, Started, Op, About
  <1> QED
    BY <1>1 DEF Excuse

\* A creation that takes back its certificate has one to take back.
LEMMA OrphanFails ==
    ASSUME NEW e \in Calls, Base, Base', OrphanRule, Fails(e)
    PROVE  OrphanRule'
  <1>1. /\ Acts(e) /\ TablesStay
        /\ call[e].pc # "store" \/ Past(e)'
    BY FailsActs DEF RolledBack, Past, CertSteps
  <1>2. OnWay(call[e]) /\ ~Ended(e) /\ call[e].pc # "done"
    BY <1>1 DEF Acts, Base, CallKept, Started, Idle, Ended
  <1>3. ASSUME NEW a \in Ids, certs[a] # None, Tidying(e), About(e) = a
        PROVE  Tidying(e)' \/ Excuse(a)' \/ AnyMeet
    <2>1. CASE call[e].pc = "store"
      <3>1. Op(e) = "create" /\ a = e /\ ~call[e].undo
        BY <1>2, <1>3, <2>1 DEF Tidying, Deleting, OnWay, Op, About, WayBack, CertWay
      <3>2. AnyMeet \/ call[e].req.cert # None
        BY <1>3, <2>1, <3>1 DEF OrphanRule, Past
      <3>3. RolledBack(e)
        BY <2>1, FailsActs DEF CertSteps
      <3>4. CASE call[e].req.cert # None
        <4>1. call'[e].undo /\ call'[e].pc # "done"
          BY <3>3, <3>4 DEF RolledBack
        <4> QED
          BY <1>1, <3>1, <4>1 DEF Tidying, Acts, Started, Op
      <3> QED
        BY <3>2, <3>4
    <2>2. CASE call[e].pc # "store"
      <3>1. call[e].pc \in {"certFind", "certDelete"} /\ Op(e) # "getClient"
        BY <1>2, <1>3, <2>2 DEF Tidying, Deleting, OnWay, Op
      <3>2. CertFails(e)
        BY <3>1, FailsActs DEF CertSteps
      <3> QED
        BY <1>1, <1>3, <3>1, <3>2, ErrorExcuses DEF CertFails
    <2> QED
      BY <2>1, <2>2
  <1> QED
    BY <1>1, <1>3, OrphanLooks

\* A creation that stores gives its certificate the application.
LEMMA OrphanStores ==
    ASSUME NEW e \in Calls, Base, Base', OrphanRule, Store(e)
    PROVE  OrphanRule'
  <1>0. PICK b : b = About(e)
    OBVIOUS
  <1>1. /\ Acts(e) /\ Stores(e) /\ call[e].pc = "store" /\ ~call[e].undo /\ UNCHANGED certs
        /\ Past(e)' /\ (lost => lost') /\ b \in Ids
    BY <1>0, StoreActs, StoredRows DEF RolledBack, Misreported, Past
  <1>2. CASE UNCHANGED <<apps, clients>> /\ Op(e) # "create"
    <2>1. ~Tidying(e)
      BY <1>1, <1>2 DEF Tidying, Deleting
    <2> QED
      BY <1>1, <1>2, <2>1, OrphanActs
  <1>3. CASE \/ Op(e) = "create" /\ InsertRows(e)
             \/ Op(e) = "update" /\ ~Refused(e) /\ UpdateRows(e)
    <2>1. /\ \A a \in Ids \ {b} : apps'[a] = apps[a]
          /\ apps'[b] = IF Op(e) = "update" /\ apps[b] = None THEN None
                         ELSE [name |-> call[e].req.name, by |-> e]
          /\ apps' \in [Ids -> Apps \cup {None}]
      BY <1>0, <1>1, <1>3, StoredTables
    <2>2. [name |-> call[e].req.name, by |-> e] # None
      <3>1. [name |-> call[e].req.name, by |-> e] \in Apps
        BY <1>1, StoredRows, Values DEF Apps
      <3> QED
        BY <3>1, Values
    <2>3. \A a \in Ids : apps[a] # None => apps'[a] # None
      BY <2>1, <2>2
    <2>4. \A a \in Ids : apps'[a] = None /\ Tidying(e) /\ About(e) = a => FALSE
      BY <1>0, <1>1, <2>1, <2>2 DEF Tidying, Deleting, Op
    <2> QED
      BY <1>1, <2>3, <2>4, OrphanActs
  <1> QED
    BY <1>2, <1>3, StoreActs

\* A deletion goes on to the certificate, or is answered with an error.
LEMMA OrphanRemoves ==
    ASSUME NEW e \in Calls, Base, Base', OrphanRule, Remove(e)
    PROVE  OrphanRule'
  <1>0. PICK b : b = About(e)
    OBVIOUS
  <1>1. /\ Acts(e) /\ call[e].pc = "remove" /\ Op(e) = "delete" /\ UNCHANGED certs /\ b \in Ids
        /\ apps' = [apps EXCEPT ![b] = None] /\ (lost => lost')
        /\ \/ call'[e].pc = "done" /\ call'[e].reply = "error"
           \/ call'[e].pc = "certFind"
    BY <1>0, RemoveActs DEF Op, Misreported
  <1>2. \A a \in Ids : a # b => apps'[a] = apps[a]
    BY <1>1 DEF Base, TablesKept
  <1>3. Excuse(b)' \/ Tidying(e)'
    <2>1. CASE call'[e].pc = "done" /\ call'[e].reply = "error"
      BY <1>0, <1>1, <2>1, ErrorExcuses
    <2>2. CASE call'[e].pc = "certFind"
      BY <1>1, <2>2 DEF Tidying, Deleting, Acts, Started, Op
    <2> QED
      BY <1>1, <2>1, <2>2
  <1>4. ~Tidying(e)
    BY <1>1 DEF Tidying, Deleting, Acts, Base, CallKept, OnWay, Op, Idle, Started
  <1> QED
    BY <1>0, <1>1, <1>2, <1>3, <1>4, OrphanActs

\* A certificate that is deleted is no orphan.
LEMMA OrphanCertDeletes ==
    ASSUME NEW e \in Calls, Base, Base', OrphanRule, CertDelete(e), UNCHANGED appVars
    PROVE  OrphanRule'
  <1>0. PICK b : b = About(e)
    OBVIOUS
  <1>1. /\ Acts(e) /\ call[e].pc = "certDelete" /\ b \in Ids /\ UNCHANGED apps
        /\ certs' = [certs EXCEPT ![b] = None] /\ (lost => lost')
    BY <1>0, CertDeleteActs DEF Misreported
  <1>2. /\ certs'[b] = None
        /\ \A a \in Ids : certs'[a] # None => certs'[a] = certs[a] /\ a # b
    BY <1>1 DEF Base, TablesKept
  <1>3. \A c \in Calls : c \in Ids
    BY Values
  <1> QED
    BY <1>0, <1>1, <1>2, <1>3, OrphanActs

\* A certificate that is written belongs to an application, or to a creation that
\* goes on to store it.
LEMMA OrphanCertWrites ==
    ASSUME NEW e \in Calls, Base, Base', OrphanRule,
           CertInsert(e) \/ CertUpdate(e), UNCHANGED appVars
    PROVE  OrphanRule'
  <1>0. PICK b : b = About(e)
    OBVIOUS
  <1>1. /\ Acts(e) /\ Stores(e) /\ call[e].pc \in {"certInsert", "certUpdate"} /\ b \in Ids
        /\ UNCHANGED apps /\ (lost => lost')
        /\ CertFails(e) \/ CertDone(e)
        /\ \/ UNCHANGED certs
           \/ \E w : certs' = [certs EXCEPT ![b] = w]
    BY <1>0, CertInsertActs, CertUpdateActs DEF Misreported
  <1>2. \A a \in Ids : a # b => certs'[a] = certs[a]
    BY <1>1 DEF Base, TablesKept
  <1>3. OnWay(call[e])
    BY <1>1 DEF Acts, Base, CallKept, Started, Idle
  <1>4. ~Tidying(e)
    BY <1>1, <1>3 DEF Tidying, Deleting, OnWay, Op, Stores
  <1>5. apps[b] # None \/ AnyMeet \/ Excuse(b)' \/ Tidying(e)'
    <2>1. CASE Op(e) = "update"
      BY <1>0, <1>1, <2>1, UpdatesThere
    <2>2. CASE Op(e) = "create" /\ CertFails(e)
      BY <1>0, <1>1, <2>2, ErrorExcuses DEF CertFails
    <2>3. CASE Op(e) = "create" /\ CertDone(e)
      <3>1. ~call[e].undo
        BY <1>1, <1>3, <2>3 DEF OnWay, Op, CertWay, WayBack
      <3>2. call'[e].pc = "store"
        BY <2>3, <3>1 DEF CertDone, Op
      <3> QED
        BY <1>1, <2>3, <3>2 DEF Tidying, Acts, Started, Op
    <2> QED
      BY <1>1, <2>1, <2>2, <2>3 DEF Stores
  <1>6. ASSUME NEW c \in Calls, certs'[c] # None
        PROVE  \/ AnyMeet
               \/ /\ Stores(c)'
                  /\ Past(c)' \/ (call'[c].pc = "store" /\ call'[c].req.cert # None)
               \/ /\ certs[c] # None
                  /\ c # e \/ call[c].pc # "store" \/ Past(c)'
    <2>1. CASE c # b
      BY <1>1, <1>2, <1>6, <2>1, Values
    <2>2. CASE c = b /\ Op(e) = "update"
      <3>1. AnyMeet \/ apps[c] # None
        BY <1>0, <1>1, <2>2, UpdatesThere
      <3>2. apps[c] # None => Stores(c) /\ Past(c)
        BY DEF Base, RowsSigned
      <3>3. Persists
        BY <1>1, ActsPersists
      <3>4. Stores(c) => Stores(c)'
        BY <3>3, Settled DEF Stores
      <3> QED
        BY <3>1, <3>2, <3>3, <3>4 DEF Persists
    <2>3. CASE c = b /\ Op(e) = "create"
      <3>1. c = e /\ Stores(c)' /\ call'[c].req = call[c].req
        BY <1>0, <1>1, <2>3 DEF About, Op, Acts, Stores, Started
      <3>2. CASE CertFails(e)
        BY <3>1, <3>2 DEF CertFails, Past
      <3>3. CASE CertDone(e)
        <4>1. ~call[e].undo /\ call[e].req.cert # None
          BY <1>1, <1>3, <2>3 DEF OnWay, Op, CertWay, WayBack
        <4>2. call'[e].pc = "store"
          BY <2>3, <3>3, <4>1 DEF CertDone, Op
        <4> QED
          BY <3>1, <4>1, <4>2
      <3> QED
        BY <1>1, <3>2, <3>3
    <2> QED
      BY <1>1, <2>1, <2>2, <2>3 DEF Stores
  <1> QED
    BY <1>0, <1>1, <1>2, <1>4, <1>5, <1>6, OrphanActs

\* Certificates belong to applications, through every step.
LEMMA OrphanNext ==
    ASSUME Base, Base', Persists, OrphanRule, [Next]_vars
    PROVE  OrphanRule'
  <1>1. CASE \/ UNCHANGED vars
             \/ \E c \in Calls : TellCaches(c)
    <2>1. UNCHANGED <<call, apps, clients, certs, seen>>
      BY <1>1, Tells DEF vars, certVars, appVars, TablesStay
    <2>2. \A c \in Calls : /\ Tidying(c) => Tidying(c)'
                           /\ Started(c)' => Started(c)
      BY <2>1 DEF Tidying, Deleting, Started, Op
    <2> QED
      BY <2>1, <2>2, OrphanStep
  <1>2. ASSUME NEW e \in Calls, NEW r \in Requests, Begin(e, r)
        PROVE  OrphanRule'
    <2>1. /\ UNCHANGED <<apps, clients, certs>> /\ ~Started(e)
          /\ \A d \in Calls \ {e} : call'[d] = call[d]
          /\ call'[e].pc \in {"byName", "byID", "find", "byClient"} /\ call'[e].req = r
          /\ call'[e].reply = None
          /\ r.op \in {"update", "delete"} =>
                /\ r.app \in Ids
                /\ seen'[e] = [app |-> apps[r.app], clients |-> ClientsOf(r.app), cert |-> certs[r.app]]
      BY <1>2, Begins DEF TablesStay
    <2>2. call[e] = Idle
      BY <2>1 DEF Base, CallKept, Started
    <2>3. \A c \in Calls : Tidying(c) => Tidying(c)'
      BY <2>1 DEF Tidying, Deleting, Started, Op
    <2>4. \A d \in Calls : \/ call'[d].reply \in {call[d].reply, "stopped"}
                           \/ call[d].reply = None
      BY <2>1, <2>2 DEF Idle
    <2>5. \A d \in Calls : call[d].pc = "done" => call'[d].pc = "done"
      BY <2>1, <2>2 DEF Idle
    <2>6. \A c \in Calls : certs[c] # None => call'[c] = call[c] \/ call[c].pc # "store" \/ Past(c)'
      BY <2>1, <2>2 DEF Idle
    <2>7. ASSUME NEW c \in Calls, Started(c)', ~Started(c), Op(c)' = "update"
          PROVE  \E a \in Ids : a = About(c)' /\ seen'[c].app = apps'[a]
      <3>1. c = e /\ r.op = "update"
        BY <2>1, <2>7 DEF Started, Op
      <3>2. r.app \in Ids /\ seen'[c].app = apps'[r.app]
        BY <2>1, <3>1
      <3>3. About(c)' = r.app
        BY <2>1, <3>1 DEF About
      <3> QED
        BY <3>2, <3>3
    <2> QED
      BY <2>1, <2>3, <2>4, <2>5, <2>6, <2>7, OrphanStep
  <1>3. CASE Restart
    <2>1. /\ UNCHANGED <<apps, clients, certs, seen>>
          /\ \A d \in Calls : IF Running(d)
                              THEN /\ call'[d].pc = "done" /\ call'[d].reply = "stopped"
                                   /\ call'[d].req = call[d].req
                              ELSE call'[d] = call[d]
      BY <1>3, Restarts DEF TablesStay
    <2>2. \A d \in Calls : /\ \/ call'[d].reply \in {call[d].reply, "stopped"}
                              \/ call[d].reply = None
                           /\ call[d].pc = "done" => call'[d].pc = "done"
                           /\ call'[d] = call[d] \/ Past(d)'
                           /\ Started(d)' => Started(d)
      BY <2>1 DEF Past, Running, Started
    <2>3. ASSUME NEW c \in Calls, NEW a, Tidying(c), About(c) = a
          PROVE  Excuse(a)'
      <3>1. Running(c)
        BY <2>3 DEF Tidying, Running, Ended
      <3>2. Op(c) # "getClient" /\ Started(c)
        BY <2>3 DEF Tidying, Deleting
      <3>3. Started(c)' /\ Op(c)' # "getClient" /\ About(c)' = a /\ call'[c].reply = "stopped"
        BY <2>1, <2>3, <3>1, <3>2 DEF Started, Op, About
      <3> QED
        BY <3>3 DEF Excuse
    <2> QED
      BY <2>1, <2>2, <2>3, OrphanStep
  <1> QED
    BY <1>1, <1>2, <1>3, OrphanFinds, OrphanFails, OrphanStores, OrphanRemoves, OrphanCertDeletes,
       OrphanCertWrites DEF Next, CertService

\* At the start the certificate is an application's, and nothing was deleted.
LEMMA GoneInit ==
    ASSUME Init
    PROVE  OrphanRule /\ \A c \in Calls : GoneRule(c)
  <1>1. PICK t \in InitialTables : apps = t.apps /\ certs = t.certs
    BY DEF Init
  <1>2. /\ \A c \in Calls : certs[c] = None
        /\ certs[First] # None => apps[First] # None
    BY <1>1, TablesAssumption
  <1>3. \A c \in Calls : ~Started(c)
    BY DEF Init, Started, Idle
  <1>4. OrphanRule
    BY <1>2, <1>3 DEF OrphanRule, Ids
  <1> QED
    BY <1>3, <1>4 DEF GoneRule, Deleting, Deleted

\* So nothing is left behind.
LEMMA GoneMeans ==
    ASSUME Base, OrphanRule, \A c \in Calls : GoneRule(c)
    PROVE  NothingLeftBehind
  <1>1. ASSUME NEW c \in Calls, Ended(c), call[c].req.op = "delete", call[c].reply = "ok"
        PROVE  \/ apps[About(c)] = None /\ ClientsOf(About(c)) = {} /\ certs[About(c)] = None
               \/ \E d \in Calls : Writes(d) /\ (Overlap(c, d) \/ Stale(d))
    BY <1>1 DEF GoneRule, Deleted, Ended, Started, Op, Excused
  <1>2. ASSUME NEW a \in Ids, Quiet, certs[a] # None, apps[a] = None
        PROVE  \/ \E c \in Calls : Started(c) /\ call[c].req.op # "getClient" /\ About(c) = a
                                   /\ \/ call[c].reply \in {"certError", "stopped"}
                                      \/ call[c].req.op = "delete" /\ call[c].reply = "error"
               \/ \E c, d \in Calls : Writes(c) /\ Writes(d) /\ Meet({c}, {d})
    <2>1. \A c \in Calls : ~Tidying(c)
      BY <1>2 DEF Quiet, Running, Ended, Tidying
    <2> QED
      BY <1>2, <2>1 DEF OrphanRule, Excuse, AnyMeet, Op
  <1> QED
    BY <1>1, <1>2 DEF NothingLeftBehind

-----------------------------------------------------------------------------
(* A creation or update that runs alone, and fails.                        *)

\* One that is alone has been so, and other writers have ended.
LEMMA AloneBefore ==
    ASSUME NEW c \in Calls, Base, Persists, Started(c), Alone(c)'
    PROVE  /\ Alone(c) /\ ~lost'
           /\ \A d \in Calls \ {c} : Started(d) /\ Writes(d) => Ended(d)
  <1>1. before'[c] = before[c]
    BY DEF Persists
  <1>2. \A d \in Calls : Started(d) /\ Writes(d) => Started(d)' /\ Writes(d)'
    BY Settled
  <1>3. \A d \in Calls \ {c} : Started(d) /\ Writes(d) => d \in before[c]
    BY <1>1, <1>2 DEF Alone
  <1>4. ~lost /\ ~lost' /\ ~Stale(c)
    BY StaleLasts DEF Alone, Persists
  <1> QED
    BY <1>3, <1>4 DEF Alone, Base, HistoryKept

\* A step that leaves alone what the call is about.
LEMMA AloneQuietly ==
    ASSUME NEW c \in Calls, Base, Persists, AloneRule(c), call'[c] = call[c],
           UNCHANGED <<apps, clients, certs>>
    PROVE  AloneRule(c)'
  <1> SUFFICES ASSUME Stores(c)', Alone(c)', call'[c].pc = "done" => call'[c].reply = "error",
                      NEW a \in Ids, a = About(c)'
               PROVE  /\ RowsAsSeen(c, a)'
                      /\ IF call'[c].pc = "done" THEN CertTakenBack(c, a)'
                         ELSE IF CertChanged(c)' THEN CertToTakeBack(c, a)' ELSE CertAsSeen(c, a)'
    BY DEF AloneRule
  <1>1. Stores(c) /\ Started(c) /\ a = About(c)
    BY DEF Stores, Started, Op, About
  <1>2. Alone(c) /\ seen'[c] = seen[c]
    BY <1>1, AloneBefore DEF Persists
  <1>3. /\ RowsAsSeen(c, a)
        /\ IF call[c].pc = "done" THEN CertTakenBack(c, a)
           ELSE IF CertChanged(c) THEN CertToTakeBack(c, a) ELSE CertAsSeen(c, a)
    BY <1>1, <1>2 DEF AloneRule
  <1> QED
    BY <1>2, <1>3 DEF RowsAsSeen, CertTakenBack, CertToTakeBack, CertAsSeen, CertChanged, ClientsOf

\* A step of the call itself, from what is known of it.
LEMMA AloneActs ==
    ASSUME NEW c \in Calls, NEW a \in Ids, a = About(c), Base, Acts(c), AloneRule(c), lost => lost',
           \/ ~Stores(c) \/ lost' \/ (call'[c].pc = "done" /\ call'[c].reply # "error")
           \/ /\ UNCHANGED <<apps, clients>>
              /\ /\ ~Stale(c) /\ ~Stale(c)'
                 /\ IF CertChanged(c) THEN CertToTakeBack(c, a) ELSE CertAsSeen(c, a)
                 => IF call'[c].pc = "done" THEN CertTakenBack(c, a)'
                    ELSE IF CertChanged(c)' THEN CertToTakeBack(c, a)' ELSE CertAsSeen(c, a)'
    PROVE  AloneRule(c)'
  <1>1. Persists
    BY ActsPersists
  <1>2. Started(c) /\ call[c].pc # "done" /\ seen'[c] = seen[c]
    BY DEF Acts
  <1>3. (Stores(c)' <=> Stores(c)) /\ About(c)' = a
    BY <1>1, <1>2, Settled
  <1> SUFFICES ASSUME Stores(c)', Alone(c)', call'[c].pc = "done" => call'[c].reply = "error"
               PROVE  /\ RowsAsSeen(c, a)'
                      /\ IF call'[c].pc = "done" THEN CertTakenBack(c, a)'
                         ELSE IF CertChanged(c)' THEN CertToTakeBack(c, a)' ELSE CertAsSeen(c, a)'
    BY <1>3 DEF AloneRule
  <1>4. Stores(c) /\ Alone(c) /\ ~lost'
    BY <1>1, <1>2, <1>3, AloneBefore
  <1>5. /\ RowsAsSeen(c, a)
        /\ IF CertChanged(c) THEN CertToTakeBack(c, a) ELSE CertAsSeen(c, a)
    BY <1>2, <1>4 DEF AloneRule
  <1>6. ~Stale(c) /\ ~Stale(c)' /\ UNCHANGED <<apps, clients>>
    BY <1>4 DEF Alone
  <1>7. RowsAsSeen(c, a)'
    BY <1>2, <1>5, <1>6 DEF RowsAsSeen, ClientsOf
  <1> QED
    BY <1>4, <1>5, <1>6, <1>7

\* A copy of the certificate that is not stale is what there was.
LEMMA FreshCert ==
    ASSUME NEW c \in Calls, Base, Stores(c), ~Stale(c), call[c].cert # None
    PROVE  /\ Op(c) = "update" /\ seen[c] # None
           /\ seen[c].cert = [id |-> call[c].cert.id, value |-> call[c].cert.value]
           /\ seen[c].cert # None
  <1>1. CallKept(c) /\ call[c] # Idle /\ call[c] \in CallStates
    BY DEF Base, Stores, Started, Idle
  <1>2. Op(c) = "update" /\ seen[c] # None
    BY <1>1 DEF CallKept, InHand, Op, Base, HistoryKept, Stores
  <1>3. seen[c].cert = [id |-> call[c].cert.id, value |-> call[c].cert.value]
    BY <1>2 DEF Stale
  <1>4. [id |-> call[c].cert.id, value |-> call[c].cert.value] \in Certs
    BY <1>1 DEF CallStates, CertRows, Certs
  <1> QED
    BY <1>2, <1>3, <1>4, Values

\* A call that is stopped by a failure before it has changed anything, or before
\* it stores: it ends, or takes back the certificate.
LEMMA AloneFails ==
    ASSUME NEW c \in Calls, Base, Acts(c), AloneRule(c), lost => lost',
           UNCHANGED <<apps, clients, certs>>,
           call'[c].cert = call[c].cert,
           \/ call[c].pc = "store" /\ RolledBack(c)
           \/ call'[c].pc = "done" /\ ~CertChanged(c)
           \/ call'[c].pc = "done" /\ call'[c].reply # "error"
    PROVE  AloneRule(c)'
  <1>1. PICK a : a = About(c)
    OBVIOUS
  <1>2. call[c].req \in Requests /\ seen'[c] = seen[c] /\ call'[c].req = call[c].req
    BY DEF Acts, Base, CallKept, Started, Idle
  <1>3. CASE ~Stores(c) \/ (call'[c].pc = "done" /\ call'[c].reply # "error")
    <2>1. (Stores(c)' <=> Stores(c))
      BY <1>2 DEF Acts, Stores, Op, Started
    <2> QED
      BY <1>3, <2>1 DEF AloneRule
  <1>4. CASE Stores(c) /\ ~(call'[c].pc = "done" /\ call'[c].reply # "error")
    <2>1. a \in Ids
      BY <1>1, <1>4, StoredRows
    <2>2. CASE call'[c].pc = "done" /\ ~CertChanged(c)
      BY <1>1, <1>2, <1>4, <2>1, <2>2, AloneActs DEF CertAsSeen, CertTakenBack
    <2>3. CASE call[c].pc = "store" /\ RolledBack(c)
      <3>1. CertChanged(c)
        BY <2>3 DEF CertChanged
      <3>2. CASE call'[c].undo /\ call'[c].pc # "done"
        <4>1. CertChanged(c)' /\ (CertToTakeBack(c, a) => CertToTakeBack(c, a)')
          BY <1>2, <3>2 DEF CertChanged, CertToTakeBack
        <4> QED
          BY <1>1, <1>4, <2>1, <3>1, <3>2, <4>1, AloneActs
      <3>3. CASE call'[c].pc = "done" /\ call[c].cert = None /\ call[c].req.cert = None
        <4>1. CertToTakeBack(c, a) => CertTakenBack(c, a)'
          BY <1>2, <3>3 DEF CertTakenBack, CertToTakeBack
        <4> QED
          BY <1>1, <1>4, <2>1, <3>1, <3>3, <4>1, AloneActs
      <3> QED
        BY <2>3, <3>2, <3>3 DEF RolledBack
    <2> QED
      BY <1>4, <2>2, <2>3
  <1> QED
    BY <1>3, <1>4

\* The checks: nothing was changed before, and a creation without certificate
\* has none to take back.
LEMMA AloneChecks ==
    ASSUME NEW c \in Calls, Base, Base', AloneRule(c), ByName(c) \/ ByClient(c) \/ ByID(c)
    PROVE  AloneRule(c)'
  <1>1. PICK a : a = About(c)
    OBVIOUS
  <1>2. Looks(c) /\ call[c].pc \in {"byName", "byClient", "byID"}
    BY ByNameLooks, ByClientLooks, ByIDLooks
  <1>3. /\ Acts(c) /\ TablesStay /\ call'[c].req = call[c].req /\ seen' = seen /\ Started(c)
        /\ call[c].req \in Requests
        /\ OnWay(call[c]) /\ InHand(call[c]) /\ OnWay(call'[c]) /\ InHand(call'[c])
    BY <1>2 DEF Looks, Acts, Base, CallKept, Started, Idle
  <1>4. ~CertChanged(c) /\ call[c].cert = None
    BY <1>2, <1>3 DEF CertChanged, OnWay, InHand, CertWay, WayBack
  <1>5. CASE ~Stores(c)
    <2>1. ~Stores(c)'
      BY <1>3, <1>5 DEF Acts, Stores, Op, Started
    <2> QED
      BY <2>1 DEF AloneRule
  <1>6. CASE Stores(c)
    <2>1. a \in Ids /\ Op(c) \in {"create", "update"}
      BY <1>1, <1>6, StoredRows DEF Stores
    <2>2. \/ call'[c].pc = "done"
          \/ call'[c].pc \in {"byName", "byClient", "certOf"}
          \/ call'[c].pc = "certExists" /\ Op(c) = "create"
          \/ call'[c].pc = "store" /\ Op(c) = "create" /\ call[c].req.cert = None
      <3>1. \A d : \/ AfterName(c, d) \in {"byClient", "certOf"}
                   \/ AfterName(c, d) = AfterClient(c)
        BY DEF AfterName
      <3>2. \/ AfterClient(c) = "certOf"
            \/ AfterClient(c) = "certExists" /\ Op(c) = "create"
            \/ AfterClient(c) = "store" /\ Op(c) = "create" /\ call[c].req.cert = None
        BY <2>1 DEF AfterClient, Op
      <3>3. \/ call'[c].pc \in {"done", "byName"}
            \/ call'[c].pc = AfterClient(c)
            \/ \E d : call'[c].pc = AfterName(c, d)
        <4>1. CASE ByName(c)
          BY <4>1, ByNameLooks
        <4>2. CASE ByClient(c)
          BY <4>2, ByClientLooks
        <4>3. CASE ByID(c)
          <5>1. call[c].req.op = "update"
            BY <1>6, <4>3, ByIDLooks DEF Stores, Op
          <5>2. PICK k : k = call'[c].app
            OBVIOUS
          <5>3. \/ call'[c].pc = "done"
                \/ call'[c].pc = IF k.name # call[c].req.name THEN "byName" ELSE AfterName(c, k)
            BY <4>3, <5>1, <5>2, ByIDLooks
          <5> QED
            BY <5>3
        <4> QED
          BY <4>1, <4>2, <4>3
      <3> QED
        BY <3>1, <3>2, <3>3
    <2>3. CASE call'[c].pc = "done"
      <3>1. ~Stale(c) /\ CertAsSeen(c, a) => CertTakenBack(c, a)'
        BY <1>3 DEF CertAsSeen, CertTakenBack, TablesStay
      <3> QED
        BY <1>1, <1>3, <1>4, <2>1, <2>3, <3>1, AloneActs DEF TablesStay
    <2>4. CASE call'[c].pc \in {"byName", "byClient", "certOf", "certExists"}
      <3>1. ~call'[c].undo
        BY <1>3, <2>2, <2>4 DEF OnWay, Op, CertWay, WayBack
      <3>2. ~CertChanged(c)' /\ (CertAsSeen(c, a) => CertAsSeen(c, a)')
        BY <1>3, <2>4, <3>1 DEF CertChanged, CertAsSeen, TablesStay
      <3> QED
        BY <1>1, <1>3, <1>4, <2>1, <2>4, <3>2, AloneActs DEF TablesStay
    <2>5. CASE call'[c].pc = "store"
      <3>1. Op(c) = "create" /\ call[c].req.cert = None /\ seen[c] = None
        BY <1>3, <2>2, <2>5 DEF Base, HistoryKept
      <3>2. call'[c].cert = None
        BY <1>3, <3>1 DEF InHand, Op
      <3>3. CertChanged(c)' /\ (CertAsSeen(c, a) => CertToTakeBack(c, a)')
        BY <1>3, <2>5, <3>1, <3>2 DEF CertChanged, CertAsSeen, CertToTakeBack, TablesStay
      <3> QED
        BY <1>1, <1>3, <1>4, <2>1, <2>5, <3>3, AloneActs DEF TablesStay
    <2> QED
      BY <2>2, <2>3, <2>4, <2>5
  <1> QED
    BY <1>5, <1>6

\* The lookups of the certificate.
LEMMA AloneCertLooks ==
    ASSUME NEW c \in Calls, Base, Base', AloneRule(c),
           \/ CertOf(c)
           \/ (CertExists(c) \/ CertByID(c) \/ CertFind(c)) /\ UNCHANGED appVars
    PROVE  AloneRule(c)'
  <1>1. PICK a : a = About(c)
    OBVIOUS
  <1>2. Looks(c) /\ call[c].pc \in {"certOf", "certExists", "certByID", "certFind"}
    BY CertOfLooks, CertExistsLooks, CertByIDLooks, CertFindLooks
  <1>3. /\ Acts(c) /\ TablesStay /\ call'[c].req = call[c].req /\ seen' = seen /\ Started(c)
        /\ call[c].req \in Requests
        /\ OnWay(call[c]) /\ InHand(call[c])
    BY <1>2 DEF Looks, Acts, Base, CallKept, Started, Idle
  <1>4. CASE ~Stores(c)
    <2>1. ~Stores(c)'
      BY <1>3, <1>4 DEF Acts, Stores, Op, Started
    <2> QED
      BY <2>1 DEF AloneRule
  <1>5. CASE Stores(c)
    <2>1. a \in Ids /\ Op(c) \in {"create", "update"}
      BY <1>1, <1>5, StoredRows DEF Stores
    <2>2. CASE CertOf(c)
      <3>1. /\ ~CertChanged(c) /\ call'[c].pc # "done" /\ ~call'[c].undo
            /\ call'[c].cert = None => certs[a] = None
            /\ call'[c].pc = "store" => call'[c].cert = None /\ call[c].req.cert = None
        <4>1. call[c].pc = "certOf" /\ call[c].req.op # "get"
          BY <2>1, <2>2, CertOfLooks DEF Op
        <4>2. ~call[c].undo
          BY <1>3, <4>1 DEF OnWay, CertWay, WayBack
        <4> QED
          BY <1>1, <2>2, <4>1, <4>2, CertOfLooks DEF CertChanged
      <3>2. CertAsSeen(c, a) => IF CertChanged(c)' THEN CertToTakeBack(c, a)' ELSE CertAsSeen(c, a)'
        BY <1>3, <3>1 DEF CertChanged, CertAsSeen, CertToTakeBack, TablesStay
      <3> QED
        BY <1>1, <1>3, <2>1, <3>1, <3>2, AloneActs DEF TablesStay
    <2>3. CASE (CertExists(c) \/ CertByID(c)) /\ UNCHANGED appVars
      <3>1. /\ Holds(c) /\ call[c].pc # "store"
            /\ \/ call'[c].pc = "done" /\ call'[c].reply = "certError"
               \/ call'[c].pc \in {"certInsert", "certUpdate"}
        BY <2>3, CertExistsLooks, CertByIDLooks
      <3>2. CASE call'[c].pc = "done" /\ call'[c].reply = "certError"
        BY <1>1, <1>3, <2>1, <3>2, AloneActs DEF TablesStay
      <3>3. CASE call'[c].pc \in {"certInsert", "certUpdate"}
        <4>1. /\ CertChanged(c)' <=> CertChanged(c)
              /\ CertAsSeen(c, a) => CertAsSeen(c, a)'
              /\ CertToTakeBack(c, a) => CertToTakeBack(c, a)'
          BY <1>3, <3>1, <3>3 DEF CertChanged, CertAsSeen, CertToTakeBack, TablesStay, Holds
        <4> QED
          BY <1>1, <1>3, <2>1, <3>3, <4>1, AloneActs DEF TablesStay
      <3> QED
        BY <3>1, <3>2, <3>3
    <2>4. CASE CertFind(c) /\ UNCHANGED appVars
      <3>1. Holds(c) /\ call[c].pc = "certFind"
        BY <2>4, CertFindLooks
      <3>2. CASE call'[c].pc = "certDelete"
        <4>1. /\ CertChanged(c)' <=> CertChanged(c)
              /\ CertAsSeen(c, a) => CertAsSeen(c, a)'
              /\ CertToTakeBack(c, a) => CertToTakeBack(c, a)'
          BY <1>3, <3>1, <3>2 DEF CertChanged, CertAsSeen, CertToTakeBack, TablesStay, Holds
        <4> QED
          BY <1>1, <1>3, <2>1, <3>2, <4>1, AloneActs DEF TablesStay
      <3>3. CASE call'[c].pc # "certDelete"
        <4>1. /\ certs[a] = None
              /\ IF call[c].undo THEN call'[c].pc = "done" /\ call'[c].reply = "error"
                 ELSE call'[c].pc = "store"
          BY <1>1, <2>1, <2>4, <3>3, CertFindLooks DEF Op
        <4>2. CASE call[c].undo
          <5>1. call[c].cert = None
            BY <1>3, <2>1, <3>1, <4>2 DEF OnWay, InHand, Op, CertWay, WayBack
          <5>2. CertToTakeBack(c, a) => CertTakenBack(c, a)'
            BY <1>3, <4>1, <5>1 DEF CertToTakeBack, CertTakenBack, TablesStay
          <5> QED
            BY <1>1, <1>3, <2>1, <4>1, <4>2, <5>2, AloneActs DEF TablesStay, CertChanged
        <4>3. CASE ~call[c].undo
          <5>1. call[c].cert # None /\ call[c].req.cert = None
            BY <1>3, <2>1, <3>1, <4>3 DEF OnWay, Op, CertWay, WayBack
          <5>2. ~Stale(c) => CertToTakeBack(c, a)'
            BY <1>3, <1>5, <3>1, <4>1, <5>1, FreshCert DEF CertToTakeBack, TablesStay, Holds
          <5>3. CertChanged(c)'
            BY <4>1, <4>3 DEF CertChanged
          <5> QED
            BY <1>1, <1>3, <2>1, <4>1, <4>3, <5>2, <5>3, AloneActs DEF TablesStay
        <4> QED
          BY <4>2, <4>3
      <3> QED
        BY <3>2, <3>3
    <2> QED
      BY <2>2, <2>3, <2>4
  <1> QED
    BY <1>4, <1>5

\* The changes of the certificate, on the way to the store and back.
LEMMA AloneCertWrites ==
    ASSUME NEW c \in Calls, Base, Base', AloneRule(c),
           CertInsert(c) \/ CertUpdate(c) \/ CertDelete(c), UNCHANGED appVars
    PROVE  AloneRule(c)'
  <1>1. PICK a : a = About(c)
    OBVIOUS
  <1>2. /\ Acts(c) /\ Holds(c) /\ UNCHANGED <<apps, clients>> /\ a \in Ids /\ (lost => lost')
        /\ call[c].pc \in {"certInsert", "certUpdate", "certDelete"}
        /\ CertFails(c) \/ CertDone(c)
    BY <1>1, CertInsertActs, CertUpdateActs, CertDeleteActs DEF Misreported
  <1>3. /\ call'[c].req = call[c].req /\ seen' = seen /\ Started(c)
        /\ OnWay(call[c]) /\ InHand(call[c]) /\ certs \in [Ids -> Certs \cup {None}]
        /\ call'[c].cert = call[c].cert /\ call'[c].undo = call[c].undo
        /\ call[c] \in CallStates
    BY <1>2 DEF Acts, Base, CallKept, Started, Idle, Holds, TablesKept
  <1>4. CASE ~Stores(c) \/ CertFails(c)
    <2>1. ~Stores(c)' \/ CertFails(c)
      BY <1>3, <1>4 DEF Stores, Op, Started
    <2> QED
      BY <2>1 DEF AloneRule, CertFails
  <1>5. CASE Stores(c) /\ ~CertFails(c)
    <2>1. /\ Op(c) \in {"create", "update"}
          /\ IF call[c].undo THEN call'[c].pc = "done" /\ call'[c].reply = "error"
             ELSE call'[c].pc = "store"
      BY <1>2, <1>5 DEF Stores, CertDone, Op
    <2>2. (CertChanged(c) <=> call[c].undo) /\ (~call[c].undo => CertChanged(c)')
      BY <1>2, <2>1 DEF CertChanged
    <2>3. CASE CertInsert(c)
      <3>1. /\ certs[a] = None /\ call[c].pc = "certInsert" /\ Value(c) \in CertValues
            /\ certs' = [certs EXCEPT ![a] = [id |-> c, value |-> Value(c)]]
        BY <1>1, <1>5, <2>3, CertInsertActs
      <3>2. certs'[a] = [id |-> c, value |-> Value(c)] /\ certs'[a] # None
        <4>1. [id |-> c, value |-> Value(c)] \in Certs
          BY <3>1, Values DEF Certs
        <4> QED
          BY <1>2, <1>3, <3>1, <4>1, Values
      <3>3. CASE call[c].undo
        <4>1. call[c].cert # None /\ Value(c) = call[c].cert.value
          BY <1>3, <2>1, <3>1, <3>3 DEF OnWay, Op, CertWay, WayBack, Value
        <4>2. certs'[a].value = call[c].cert.value
          BY <3>2, <4>1
        <4>3. ~Stale(c) => /\ seen[c] # None /\ seen[c].cert # None
                           /\ seen[c].cert.value = call[c].cert.value
          <5>1. ~Stale(c) => /\ seen[c] # None /\ seen[c].cert # None
                             /\ seen[c].cert = [id |-> call[c].cert.id, value |-> call[c].cert.value]
            BY <1>5, <4>1, FreshCert
          <5> QED
            BY <5>1
        <4>4. ~Stale(c) => CertTakenBack(c, a)'
          BY <1>3, <3>2, <4>2, <4>3 DEF CertTakenBack
        <4> QED
          BY <1>1, <1>2, <2>1, <3>3, <4>4, AloneActs
      <3>4. CASE ~call[c].undo
        <4>1. call[c].cert = None /\ call[c].req.cert # None
          BY <1>3, <2>1, <3>1, <3>4 DEF OnWay, Op, CertWay, WayBack, InHand
        <4>2. CertAsSeen(c, a) => CertToTakeBack(c, a)'
          BY <1>3, <3>1, <4>1 DEF CertToTakeBack, CertAsSeen
        <4> QED
          BY <1>1, <1>2, <2>1, <2>2, <3>4, <4>2, AloneActs
      <3> QED
        BY <3>3, <3>4
    <2>4. CASE CertUpdate(c)
      <3>1. /\ call[c].pc = "certUpdate" /\ call[c].cert # None /\ call[c].req.cert # None
            /\ call[c].cert.id \in Ids /\ Value(c) \in CertValues
            /\ certs' = [certs EXCEPT ![a] = [id |-> call[c].cert.id, value |-> Value(c)]]
        BY <1>1, <1>5, <2>4, CertUpdateActs
      <3>2. certs'[a] = [id |-> call[c].cert.id, value |-> Value(c)] /\ certs'[a] # None
        <4>1. [id |-> call[c].cert.id, value |-> Value(c)] \in Certs
          BY <3>1 DEF Certs
        <4> QED
          BY <1>2, <1>3, <3>1, <4>1, Values
      <3>3. CASE call[c].undo
        <4>1. Value(c) = call[c].cert.value
          BY <3>3 DEF Value
        <4>2. ~Stale(c) => CertTakenBack(c, a)'
          BY <1>3, <1>5, <3>1, <3>2, <4>1, FreshCert DEF CertTakenBack
        <4> QED
          BY <1>1, <1>2, <2>1, <3>3, <4>2, AloneActs
      <3>4. CASE ~call[c].undo
        <4>1. ~Stale(c) => CertToTakeBack(c, a)'
          BY <1>3, <1>5, <3>1, <3>2, FreshCert DEF CertToTakeBack
        <4> QED
          BY <1>1, <1>2, <2>1, <2>2, <3>4, <4>1, AloneActs
      <3> QED
        BY <3>3, <3>4
    <2>5. CASE CertDelete(c)
      <3>1. call[c].pc = "certDelete" /\ certs'[a] = None
        BY <1>1, <1>2, <1>3, <2>5, CertDeleteActs
      <3>2. CASE call[c].undo
        <4>1. call[c].cert = None
          BY <1>3, <2>1, <3>1, <3>2 DEF OnWay, InHand, Op, CertWay, WayBack
        <4>2. CertToTakeBack(c, a) => CertTakenBack(c, a)'
          BY <1>3, <3>1, <4>1 DEF CertToTakeBack, CertTakenBack
        <4> QED
          BY <1>1, <1>2, <2>1, <2>2, <3>2, <4>2, AloneActs
      <3>3. CASE ~call[c].undo
        <4>1. call[c].cert # None /\ call[c].req.cert = None
          BY <1>3, <2>1, <3>1, <3>3 DEF OnWay, Op, CertWay, WayBack
        <4>2. ~Stale(c) => CertToTakeBack(c, a)'
          BY <1>3, <1>5, <3>1, <4>1, FreshCert DEF CertToTakeBack
        <4> QED
          BY <1>1, <1>2, <2>1, <2>2, <3>3, <4>2, AloneActs
      <3> QED
        BY <3>2, <3>3
    <2> QED
      BY <2>3, <2>4, <2>5
  <1> QED
    BY <1>4, <1>5

\* The writes of another call: it is not over, so c does not run alone.
LEMMA AloneOther ==
    ASSUME NEW c \in Calls, NEW e \in Calls, c # e, Base, Acts(e), lost => lost', Writes(e)
    PROVE  AloneRule(c)'
  <1>1. Persists
    BY ActsPersists
  <1>2. call'[c] = call[c] /\ Started(e) /\ ~Ended(e)
    BY DEF Acts, Ended
  <1>3. ~(Stores(c)' /\ Alone(c)')
    BY <1>1, <1>2, AloneBefore DEF Stores, Started
  <1> QED
    BY <1>3 DEF AloneRule

\* The statement of the store: it is refused, or succeeds, or the failure is a false report.
LEMMA AloneStores ==
    ASSUME NEW c \in Calls, Base, AloneRule(c), Store(c)
    PROVE  AloneRule(c)'
  <1>1. PICK a : a = About(c)
    OBVIOUS
  <1>2. /\ Acts(c) /\ Stores(c) /\ call[c].pc = "store" /\ UNCHANGED certs /\ a \in Ids
        /\ call'[c].cert = call[c].cert /\ (lost => lost')
        /\ \/ RolledBack(c) /\ UNCHANGED <<apps, clients>>
           \/ RolledBack(c) /\ Misreported(c)
           \/ call'[c].pc = "done" /\ call'[c].reply = "ok"
    BY <1>1, StoreActs, StoredRows DEF Misreported
  <1>3. CASE RolledBack(c) /\ UNCHANGED <<apps, clients>>
    BY <1>2, <1>3, AloneFails
  <1>4. CASE Misreported(c) \/ (call'[c].pc = "done" /\ call'[c].reply = "ok")
    BY <1>1, <1>2, <1>4, AloneActs DEF Misreported
  <1> QED
    BY <1>2, <1>3, <1>4

\* A failing step.
LEMMA AloneFailing ==
    ASSUME NEW c \in Calls, Base, AloneRule(c), Fails(c)
    PROVE  AloneRule(c)'
  <1>1. /\ Acts(c) /\ UNCHANGED <<apps, clients, certs>> /\ lost' = lost
        /\ call'[c].cert = call[c].cert
        /\ \/ call[c].pc = "store" /\ RolledBack(c)
           \/ call'[c].pc = "done" /\ call'[c].reply # "error"
           \/ /\ call[c].pc \notin CertSteps \cup {"store"}
              /\ call'[c].pc = "done"
    BY FailsActs DEF TablesStay, CertFails
  <1>2. OnWay(call[c]) /\ call[c].pc # "done"
    BY <1>1 DEF Acts, Base, CallKept, Started, Idle
  <1>3. call[c].pc \notin CertSteps \cup {"store"} => ~CertChanged(c)
    BY <1>2 DEF OnWay, CertChanged, CertSteps, CertWay, WayBack
  <1> QED
    BY <1>1, <1>3, AloneFails

\* A call that begins has changed nothing.
LEMMA AloneBegins ==
    ASSUME NEW c \in Calls, NEW r \in Requests, Base, Begin(c, r)
    PROVE  AloneRule(c)'
  <1>1. /\ ~Started(c) /\ UNCHANGED <<apps, clients, certs>>
        /\ call'[c].pc \in {"byName", "byID", "find", "byClient"} /\ ~call'[c].undo
        /\ call'[c].req = r
        /\ r.op = "update" =>
              seen'[c] = [app |-> apps[r.app], clients |-> ClientsOf(r.app), cert |-> certs[r.app]]
        /\ r.op = "create" => seen'[c] = None
    BY Begins DEF TablesStay
  <1>2. CASE r.op = "create"
    <2>1. apps[c] = None /\ certs[c] = None /\ ClientsOf(c) = {}
      <3>1. apps[c] = None /\ certs[c] = None
        BY <1>1 DEF Base, RowsSigned, Stores
      <3>2. \A s \in clients : apps[s.app] # None
        BY DEF Base, RowsSigned
      <3> QED
        BY <3>1, <3>2 DEF ClientsOf
    <2>2. About(c)' = c /\ ~CertChanged(c)' /\ call'[c].pc # "done"
      BY <1>1, <1>2 DEF About, CertChanged
    <2>3. \A a : a = c => RowsAsSeen(c, a)' /\ CertAsSeen(c, a)'
      BY <1>1, <1>2, <2>1 DEF RowsAsSeen, CertAsSeen, ClientsOf
    <2> QED
      BY <2>2, <2>3 DEF AloneRule
  <1>3. CASE r.op = "update"
    <2>1. seen'[c] # None
      <3>1. r.app \in Ids
        BY <1>3, RequestFields
      <3>2. [app |-> apps[r.app], clients |-> ClientsOf(r.app), cert |-> certs[r.app]] \in Shots
        BY <3>1 DEF Base, TablesKept, ClientsOf, Shots
      <3> QED
        BY <1>1, <1>3, <3>2, Values
    <2>2. About(c)' = r.app /\ ~CertChanged(c)' /\ call'[c].pc # "done"
      BY <1>1, <1>3 DEF About, CertChanged
    <2>3. \A a : a = r.app => RowsAsSeen(c, a)' /\ CertAsSeen(c, a)'
      BY <1>1, <1>3, <2>1 DEF RowsAsSeen, CertAsSeen, ClientsOf
    <2> QED
      BY <2>2, <2>3 DEF AloneRule
  <1>4. CASE r.op \notin {"create", "update"}
    BY <1>1, <1>4 DEF AloneRule, Stores, Op
  <1> QED
    BY <1>2, <1>3, <1>4

\* Every step.
LEMMA AloneNext ==
    ASSUME NEW c \in Calls, Base, Base', Persists, AloneRule(c), [Next]_vars
    PROVE  AloneRule(c)'
  <1>1. CASE UNCHANGED vars \/ \E e \in Calls : TellCaches(e)
    <2>1. UNCHANGED <<call, apps, clients, certs>>
      BY <1>1, Tells DEF vars, certVars, appVars, TablesStay
    <2> QED
      BY <2>1, AloneQuietly
  <1>2. ASSUME NEW e \in Calls, NEW r \in Requests, Begin(e, r)
        PROVE  AloneRule(c)'
    <2>1. CASE e = c
      BY <1>2, <2>1, AloneBegins
    <2>2. CASE e # c
      BY <1>2, <2>2, Begins, AloneQuietly DEF TablesStay
    <2> QED
      BY <2>1, <2>2
  <1>3. ASSUME NEW e \in Calls, Looks(e) \/ Fails(e), e # c
        PROVE  AloneRule(c)'
    <2>1. call'[c] = call[c] /\ UNCHANGED <<apps, clients, certs>>
      BY <1>3, FailsActs DEF Looks, Acts, TablesStay
    <2> QED
      BY <2>1, AloneQuietly
  <1>4. ASSUME NEW e \in Calls, ByName(e) \/ ByClient(e) \/ ByID(e)
        PROVE  AloneRule(c)'
    <2>1. CASE e = c
      BY <1>4, <2>1, AloneChecks
    <2>2. CASE e # c
      BY <1>3, <1>4, <2>2, ByNameLooks, ByClientLooks, ByIDLooks
    <2> QED
      BY <2>1, <2>2
  <1>5. ASSUME NEW e \in Calls,
               \/ CertOf(e)
               \/ (CertExists(e) \/ CertByID(e) \/ CertFind(e)) /\ UNCHANGED appVars
        PROVE  AloneRule(c)'
    <2>1. CASE e = c
      BY <1>5, <2>1, AloneCertLooks
    <2>2. CASE e # c
      BY <1>3, <1>5, <2>2, CertOfLooks, CertExistsLooks, CertByIDLooks, CertFindLooks
    <2> QED
      BY <2>1, <2>2
  <1>6. ASSUME NEW e \in Calls, CertInsert(e) \/ CertUpdate(e) \/ CertDelete(e), UNCHANGED appVars
        PROVE  AloneRule(c)'
    <2>1. CASE e = c
      BY <1>6, <2>1, AloneCertWrites
    <2>2. CASE e # c
      <3>1. Acts(e) /\ (lost => lost') /\ call[e].req.op \in {"create", "update", "delete"}
        BY <1>6, CertInsertActs, CertUpdateActs, CertDeleteActs DEF Misreported, Stores, Op
      <3>2. Writes(e)
        BY <3>1 DEF Acts, Writes
      <3> QED
        BY <2>2, <3>1, <3>2, AloneOther
    <2> QED
      BY <2>1, <2>2
  <1>7. ASSUME NEW e \in Calls, Store(e)
        PROVE  AloneRule(c)'
    <2>1. CASE e = c
      BY <1>7, <2>1, AloneStores
    <2>2. CASE e # c
      <3>1. Acts(e) /\ (lost => lost') /\ Writes(e)
        BY <1>7, StoreActs DEF Misreported, Stores, Writes, Op
      <3> QED
        BY <2>2, <3>1, AloneOther
    <2> QED
      BY <2>1, <2>2
  <1>8. ASSUME NEW e \in Calls, Find(e) \/ Remove(e)
        PROVE  AloneRule(c)'
    <2>1. Acts(e) /\ (lost => lost') /\ Writes(e) /\ ~Stores(e)
      BY <1>8, FindLooks, RemoveActs DEF Misreported, Looks, TablesStay, Stores, Writes, Op, Acts
    <2>2. CASE e = c
      BY <2>1, <2>2 DEF Acts, AloneRule, Stores, Op, Started
    <2>3. CASE e # c
      BY <2>1, <2>3, AloneOther
    <2> QED
      BY <2>2, <2>3
  <1>9. ASSUME NEW e \in Calls, Fails(e)
        PROVE  AloneRule(c)'
    <2>1. CASE e = c
      BY <1>9, <2>1, AloneFailing
    <2>2. CASE e # c
      BY <1>3, <1>9, <2>2
    <2> QED
      BY <2>1, <2>2
  <1>10. CASE Restart
    <2>1. UNCHANGED <<apps, clients, certs>>
      BY <1>10, Restarts DEF TablesStay
    <2>2. CASE Running(c)
      <3>1. call'[c].pc = "done" /\ call'[c].reply = "stopped"
        BY <1>10, <2>2, Restarts
      <3> QED
        BY <3>1 DEF AloneRule
    <2>3. CASE ~Running(c)
      BY <1>10, <2>1, <2>3, Restarts, AloneQuietly
    <2> QED
      BY <2>2, <2>3
  <1> QED
    BY <1>1, <1>2, <1>4, <1>5, <1>6, <1>7, <1>8, <1>9, <1>10 DEF Next, CertService

\* So a failure changes nothing.
LEMMA AloneMeans ==
    ASSUME Base, \A c \in Calls : AloneRule(c)
    PROVE  FailedChangesNothing
  <1> SUFFICES ASSUME NEW c \in Calls, Ended(c), Writes(c), call[c].req.op # "delete",
                      call[c].reply = "error", ~lost, ~Stale(c),
                      \A d \in Calls \ {c} : Started(d) /\ Writes(d) => d \in before[c]
               PROVE  IF call[c].req.op = "create"
                      THEN apps[c] = None /\ certs[c] = None /\ ClientsOf(c) = {}
                      ELSE /\ apps[About(c)] = seen[c].app
                           /\ ClientsOf(About(c)) = seen[c].clients
                           /\ (certs[About(c)] = None <=> seen[c].cert = None)
                           /\ seen[c].cert # None => certs[About(c)].value = seen[c].cert.value
    BY DEF FailedChangesNothing
  <1>1. Stores(c) /\ Alone(c) /\ call[c].pc = "done"
    BY DEF Writes, Stores, Op, Alone, Ended
  <1>2. RowsAsSeen(c, About(c)) /\ CertTakenBack(c, About(c))
    BY <1>1, StoredRows DEF AloneRule
  <1>3. call[c].req.op = "create" => About(c) = c
    BY DEF About
  <1>4. seen[c] = None <=> call[c].req.op = "create"
    BY <1>1 DEF Base, HistoryKept, Stores, Op
  <1> QED
    BY <1>2, <1>3, <1>4 DEF RowsAsSeen, CertTakenBack

-----------------------------------------------------------------------------
(* The caches, while no writer meets anyone.                               *)

\* Calls that kept apart have kept apart before.
LEMMA ApartBefore ==
    ASSUME Base, Persists, Apart'
    PROVE  Apart
  <1>1. \A c, d : Overlap(c, d) => Overlap(c, d)'
    BY OverlapLasts
  <1>2. \A c \in Calls : Writes(c) => Writes(c)'
    BY Settled DEF Writes
  <1> QED
    BY <1>1, <1>2 DEF Apart, Persists, Overlap

\* Other calls than a running writer are over or did not begin, and have nothing to tell.
LEMMA Solo ==
    ASSUME NEW c \in Calls, Base, Apart, Writes(c), ~Ended(c)
    PROVE  \A d \in Calls \ {c} : /\ tell[d] = Nothing
                                  /\ call[d] = Idle \/ call[d].pc = "done"
                                  /\ Started(d) => d \in before[c]
  <1> SUFFICES ASSUME NEW d \in Calls \ {c}
               PROVE  /\ tell[d] = Nothing
                      /\ call[d] = Idle \/ call[d].pc = "done"
                      /\ Started(d) => d \in before[c]
    OBVIOUS
  <1>1. CASE Started(d)
    <2>1. c \in before[d] \/ d \in before[c]
      BY <1>1 DEF Apart, Overlap, Writes
    <2>2. c \notin before[d]
      BY DEF Base, HistoryKept
    <2>3. Ended(d)
      BY <2>1, <2>2 DEF Base, HistoryKept
    <2> QED
      BY <2>1, <2>2, <2>3 DEF Ended
  <1>2. CASE ~Started(d)
    BY <1>2 DEF Base, CallKept, Started
  <1> QED
    BY <1>1, <1>2

\* When nobody has anything to tell, all entries are current.
LEMMA NoDrops ==
    ASSUME EntriesCurrent, \A d \in Calls : tell[d] = Nothing
    PROVE  /\ \A a \in Ids : appByID[a] # None => CurrentApp(appByID[a])
           /\ \A n \in Names : appByName[n] # None => CurrentApp(appByName[n])
           /\ \A x \in Clients : oauthApp[x] # None => CurrentClient(oauthApp[x])
           /\ \A a \in Ids : certByReference[a] # None => CurrentCert(certByReference[a])
           /\ \A i \in Ids : certByID[i] # None => CurrentCert(certByID[i])
  <1>1. \A which, d : ~Drops(which, d)
    BY DEF Drops, Nothing, Telling
  <1> QED
    BY <1>1 DEF EntriesCurrent

\* What a creation or an update that is still running finds.
LEMMA AsSeen ==
    ASSUME NEW c \in Calls, Base, Apart, ReadCurrent(c), AloneRule(c), Stores(c), call[c].pc # "done"
    PROVE  \A a \in Ids : a = About(c) =>
              /\ RowsAsSeen(c, a)
              /\ IF CertChanged(c) THEN CertToTakeBack(c, a) ELSE CertAsSeen(c, a)
  <1>1. Writes(c) /\ ~Ended(c)
    BY DEF Stores, Writes, Op, Ended
  <1>2. Alone(c)
    BY <1>1, Solo DEF Alone, ReadCurrent, Apart
  <1> QED
    BY <1>2 DEF AloneRule

\* Client IDs differ, and an application has one client.
LEMMA ClientsApart ==
    ASSUME Base, Differ, Apart, \A c \in Calls : ReadCurrent(c)
    PROVE  \A r, s \in clients : r.app = s.app \/ r.client = s.client => r = s
  <1>1. \A c : ~Stale(c)
    BY DEF ReadCurrent, Stale
  <1>2. \A c, d : Overlap(c, d) => ~Writes(c)
    BY DEF Apart, Overlap
  <1> SUFFICES ASSUME NEW r \in clients, NEW s \in clients, r # s,
                      r.app = s.app \/ r.client = s.client
               PROVE  FALSE
    OBVIOUS
  <1>3. CASE r.app = s.app
    <2>1. Overlap(r.row, s.row)
      BY <1>1, <1>3 DEF Differ, Meet
    <2>2. r.row = First \/ Stores(r.row)
      BY DEF Base, RowsSigned, Signed
    <2>3. Stores(r.row)
      BY <2>1, <2>2, Values DEF Overlap
    <2> QED
      BY <1>2, <2>1, <2>3 DEF Stores, Writes, Op
  <1>4. CASE r.app # s.app /\ r.client = s.client
    <2>1. Meet(AskingClient(r.app, r.client), AskingClient(s.app, r.client))
      BY <1>4 DEF Differ
    <2>2. PICK c \in AskingClient(r.app, r.client), d \in AskingClient(s.app, r.client) : Overlap(c, d)
      BY <1>1, <2>1 DEF Meet
    <2>3. Stores(c)
      BY <2>2 DEF AskingClient
    <2> QED
      BY <1>2, <2>2, <2>3 DEF Stores, Writes, Op
  <1> QED
    BY <1>3, <1>4

\* Copies of rows stay current while the rows stay.
LEMMA CurrentStays ==
    /\ UNCHANGED <<apps, clients>> =>
          /\ \A d : CurrentApp(d)' <=> CurrentApp(d)
          /\ \A o : CurrentClient(o)' <=> CurrentClient(o)
    /\ UNCHANGED certs => \A r : CurrentCert(r)' <=> CurrentCert(r)
  <1>1. ASSUME UNCHANGED <<apps, clients>>, NEW d
        PROVE  (CurrentApp(d)' <=> CurrentApp(d)) /\ (CurrentClient(d)' <=> CurrentClient(d))
    <2>1. \A a : ClientsOf(a)' = ClientsOf(a)
      BY <1>1 DEF ClientsOf
    <2>2. \A a : Joined(a)' = Joined(a)
      BY <1>1, <2>1 DEF Joined, Client
    <2> QED
      BY <1>1, <2>2 DEF CurrentApp, CurrentClient, Client
  <1>2. ASSUME UNCHANGED certs, NEW r
        PROVE  CurrentCert(r)' <=> CurrentCert(r)
    BY <1>2 DEF CurrentCert, CertRow
  <1> QED
    BY <1>1, <1>2

\* A call that does nothing knows what it knew, when the rows stay.
LEMMA ReadsQuietly ==
    ASSUME NEW d \in Calls, ReadCurrent(d), UNCHANGED <<certs, apps, clients>>,
           call'[d] = call[d], tell'[d] \in {tell[d], Nothing}, seen'[d] = seen[d]
    PROVE  ReadCurrent(d)'
  <1>1. ~Stale(d)' /\ (Started(d)' <=> Started(d)) /\ (Writes(d)' <=> Writes(d))
        /\ (Past(d)' <=> Past(d)) /\ (Deleting(d)' <=> Deleting(d)) /\ Op(d)' = Op(d)
        /\ About(d)' = About(d)
    BY DEF ReadCurrent, Stale, Started, Writes, Past, Deleting, Op, About
  <1>2. tell'[d] = tell[d] \/ tell'[d].put = None
    BY DEF Nothing, Telling
  <1>3. PICK k, t : k = call[d] /\ t = tell[d]
    OBVIOUS
  <1>4. /\ t.put # None =>
              /\ t.which = "app" => CurrentApp(t.put)
              /\ t.which = "client" => CurrentClient(t.put)
              /\ t.which = "cert" => CurrentCert(t.put)
        /\ Started(d) /\ Writes(d) /\ ~Past(d) /\ ~Deleting(d) /\ k.app # None => CurrentApp(k.app)
        /\ k.pc = "certDelete" => CurrentCert(k.found) /\ k.found.ref = About(d)
        /\ Started(d) /\ Op(d) = "delete" /\ k.pc \in {"find", "remove"} =>
              apps[About(d)] = seen[d].app /\ ClientsOf(About(d)) = seen[d].clients
    BY <1>3 DEF ReadCurrent
  <1>5. /\ CurrentApp(t.put) => CurrentApp(t.put)'
        /\ CurrentApp(k.app) => CurrentApp(k.app)'
        /\ CurrentClient(t.put) => CurrentClient(t.put)'
        /\ CurrentCert(t.put) => CurrentCert(t.put)'
        /\ CurrentCert(k.found) => CurrentCert(k.found)'
    BY CurrentStays
  <1>6. \A a : ClientsOf(a)' = ClientsOf(a)
    BY DEF ClientsOf
  <1> QED
    BY <1>1, <1>2, <1>3, <1>4, <1>5, <1>6 DEF ReadCurrent

\* A call that is over or did not begin knows nothing of the rows.
LEMMA ReadsOver ==
    ASSUME NEW d \in Calls, ReadCurrent(d), call[d] = Idle \/ call[d].pc = "done",
           call'[d] = call[d], tell'[d] = Nothing, seen'[d] = seen[d]
    PROVE  ReadCurrent(d)'
  <1>1. ~Stale(d)'
    BY DEF ReadCurrent, Stale
  <1>2. call'[d].pc \in {"idle", "done"} /\ tell'[d].put = None
    BY DEF Idle, Nothing, Telling
  <1>3. ~Started(d)' \/ Past(d)'
    BY <1>2 DEF Started, Past
  <1> QED
    BY <1>1, <1>2, <1>3 DEF ReadCurrent

\* Certificates that stay are signed as before.
LEMMA SignaturesStay ==
    ASSUME Base, Persists, CertsSigned,
           \A a \in Ids : certs'[a] # None =>
              \/ certs[a] # None /\ certs'[a].id = certs[a].id
              \/ \E c \in Calls : certs'[a].id = c /\ Stores(c) /\ About(c) = a
    PROVE  CertsSigned'
  <1> SUFFICES ASSUME NEW a \in Ids, NEW i \in Ids, certs'[a] # None, certs'[a].id = i
               PROVE  IF i = First THEN a = First ELSE Stores(i)' /\ About(i)' = a
    BY DEF CertsSigned
  <1>1. IF i = First THEN a = First ELSE Stores(i) /\ About(i) = a
    <2>1. CASE certs[a] # None /\ certs[a].id = i
      BY <2>1 DEF CertsSigned
    <2>2. CASE \E c \in Calls : i = c /\ Stores(c) /\ About(c) = a
      BY <2>2, Values
    <2> QED
      BY <2>1, <2>2
  <1>2. i # First => Stores(i)' /\ About(i)' = a
    BY <1>1, Settled DEF Stores, Ids
  <1> QED
    BY <1>1, <1>2

\* Lookups only take entries out of the caches.
LEMMA EntriesForget ==
    ASSUME EntriesCurrent, Forgetting, UNCHANGED <<certs, apps, clients>>,
           \A d \in Calls : tell'[d] = tell[d] \/ tell[d].drop = None
    PROVE  EntriesCurrent'
  <1>1. \A which, d : Drops(which, d) => Drops(which, d)'
    BY DEF Drops
  <1>2. ASSUME NEW a \in Ids, NEW e, e = appByID'[a], e # None
        PROVE  CurrentApp(e)' \/ \E d \in AppRows : Drops("app", d)' /\ d.id = a
    <2>1. appByID[a] = e
      BY <1>2 DEF Forgetting
    <2>2. CurrentApp(e) \/ \E d \in AppRows : Drops("app", d) /\ d.id = a
      BY <1>2, <2>1 DEF EntriesCurrent
    <2> QED
      BY <1>1, <2>2, CurrentStays
  <1>3. ASSUME NEW n \in Names, NEW e, e = appByName'[n], e # None
        PROVE  CurrentApp(e)' \/ \E d \in AppRows : Drops("app", d)' /\ d.name = n
    <2>1. appByName[n] = e
      BY <1>3 DEF Forgetting
    <2>2. CurrentApp(e) \/ \E d \in AppRows : Drops("app", d) /\ d.name = n
      BY <1>3, <2>1 DEF EntriesCurrent
    <2> QED
      BY <1>1, <2>2, CurrentStays
  <1>4. ASSUME NEW x \in Clients, NEW e, e = oauthApp'[x], e # None
        PROVE  \/ CurrentClient(e)'
               \/ \E d \in AppRows : Drops("app", d)' /\ d.oauth # None /\ d.oauth.client = x
    <2>1. oauthApp[x] = e
      BY <1>4 DEF Forgetting
    <2>2. \/ CurrentClient(e)
          \/ \E d \in AppRows : Drops("app", d) /\ d.oauth # None /\ d.oauth.client = x
      BY <1>4, <2>1 DEF EntriesCurrent
    <2> QED
      BY <1>1, <2>2, CurrentStays
  <1>5. ASSUME NEW a \in Ids, NEW e, e = certByReference'[a], e # None
        PROVE  CurrentCert(e)' \/ \E r \in CertRows : Drops("cert", r)' /\ r.ref = a
    <2>1. certByReference[a] = e
      BY <1>5 DEF Forgetting
    <2>2. CurrentCert(e) \/ \E r \in CertRows : Drops("cert", r) /\ r.ref = a
      BY <1>5, <2>1 DEF EntriesCurrent
    <2> QED
      BY <1>1, <2>2, CurrentStays
  <1>6. ASSUME NEW i \in Ids, NEW e, e = certByID'[i], e # None
        PROVE  CurrentCert(e)' \/ \E r \in CertRows : Drops("cert", r)' /\ r.id = i
    <2>1. certByID[i] = e
      BY <1>6 DEF Forgetting
    <2>2. CurrentCert(e) \/ \E r \in CertRows : Drops("cert", r) /\ r.id = i
      BY <1>6, <2>1 DEF EntriesCurrent
    <2> QED
      BY <1>1, <2>2, CurrentStays
  <1> QED
    BY <1>2, <1>3, <1>4, <1>5, <1>6 DEF EntriesCurrent

\* What a call of its own does to the rule, when it looks something up.
LEMMA LooksCaches ==
    ASSUME NEW c \in Calls, Base, Looks(c), EntriesCurrent, CertsSigned,
           \A d \in Calls : ReadCurrent(d), ReadCurrent(c)'
    PROVE  EntriesCurrent' /\ CertsSigned' /\ \A d \in Calls : ReadCurrent(d)'
  <1>1. /\ Forgetting /\ UNCHANGED <<certs, apps, clients, lost>> /\ tell[c] = Nothing
        /\ \A d \in Calls \ {c} : call'[d] = call[d] /\ tell'[d] = tell[d]
        /\ seen' = seen /\ Acts(c)
    BY DEF Looks, TablesStay, Acts
  <1>2. EntriesCurrent'
    <2>1. tell[c].drop = None
      BY <1>1 DEF Nothing, Telling
    <2> QED
      BY <1>1, <2>1, EntriesForget
  <1>3. CertsSigned'
    BY <1>1, ActsPersists, SignaturesStay
  <1>4. \A d \in Calls \ {c} : ReadCurrent(d)'
    BY <1>1, ReadsQuietly
  <1> QED
    BY <1>2, <1>3, <1>4

\* And what it knows itself.
LEMMA LooksReads ==
    ASSUME NEW c \in Calls, Base, Looks(c), ReadCurrent(c), ~Stale(c)',
           \/ Past(c)' \/ Deleting(c)' \/ Op(c) \notin {"create", "update", "delete"}
           \/ call'[c].app = None
           \/ call'[c].app = call[c].app /\ ~Deleting(c)
           \/ \E d : call'[c].app = d /\ CurrentApp(d),
           call'[c].pc = "certDelete" =>
              \E r : call'[c].found = r /\ CurrentCert(r) /\ r.ref = About(c),
           call'[c].pc \in {"find", "remove"} => call[c].pc \in {"find", "remove"}
    PROVE  ReadCurrent(c)'
  <1>1. /\ UNCHANGED <<certs, apps, clients>> /\ seen' = seen /\ call'[c].req = call[c].req
        /\ Started(c) /\ Acts(c)
    BY DEF Looks, TablesStay, Acts
  <1>2. Op(c)' = Op(c) /\ About(c)' = About(c) /\ Writes(c)' = Writes(c)
    BY <1>1, ActsPersists, Settled DEF Looks, TablesStay
  <1>3. tell'[c].put # None =>
           /\ tell'[c].which = "app" => CurrentApp(tell[c].put)'
           /\ tell'[c].which = "client" => CurrentClient(tell[c].put)'
           /\ tell'[c].which = "cert" => CurrentCert(tell[c].put)'
    <2>1. PICK t : t = tell'[c]
      OBVIOUS
    <2>2. t.put # None =>
             /\ t.which = "app" => CurrentApp(t.put)
             /\ t.which = "client" => CurrentClient(t.put)
             /\ t.which = "cert" => CurrentCert(t.put)
      <3>1. CASE t = Nothing
        BY <3>1 DEF Nothing, Telling
      <3>2. CASE \E d \in AppRows : t = Telling("app", None, d) /\ CurrentApp(d)
        BY <3>2 DEF Telling
      <3>3. CASE \E o \in ClientRows : t = Telling("client", None, o) /\ CurrentClient(o)
        BY <3>3 DEF Telling
      <3>4. CASE \E r \in CertRows : t = Telling("cert", None, r) /\ CurrentCert(r)
        BY <3>4 DEF Telling
      <3> QED
        BY <2>1, <3>1, <3>2, <3>3, <3>4 DEF Looks, Reads
    <2> QED
      BY <1>1, <2>1, <2>2, CurrentStays
  <1>4. /\ Writes(c)' /\ ~Past(c)' /\ ~Deleting(c)' /\ call'[c].app # None => CurrentApp(call[c].app)'
    <2>1. PICK k : k = call'[c].app
      OBVIOUS
    <2>2. Writes(c) /\ ~Past(c)' /\ ~Deleting(c)' /\ k # None => CurrentApp(k)
      <3>1. ~Past(c)' => ~Past(c)
        BY <1>1, ActsPersists DEF Looks, TablesStay, Persists
      <3> QED
        BY <1>1, <2>1, <3>1 DEF ReadCurrent, Writes, Op
    <2> QED
      BY <1>1, <1>2, <2>1, <2>2, CurrentStays
  <1>5. call'[c].pc = "certDelete" => CurrentCert(call[c].found)' /\ call'[c].found.ref = About(c)
    <2>1. PICK r : r = call'[c].found
      OBVIOUS
    <2> QED
      BY <1>1, <2>1, CurrentStays
  <1>6. Op(c) = "delete" /\ call'[c].pc \in {"find", "remove"} =>
           apps[About(c)] = seen[c].app /\ ClientsOf(About(c)) = seen[c].clients
    BY <1>1 DEF ReadCurrent
  <1>7. \A a : ClientsOf(a)' = ClientsOf(a)
    BY <1>1 DEF ClientsOf
  <1> QED
    BY <1>1, <1>2, <1>3, <1>4, <1>5, <1>6, <1>7 DEF ReadCurrent

\* A writer that reads its application, and its certificate, has copies that are not stale.
LEMMA CopyFresh ==
    ASSUME NEW c \in Calls, NEW a \in Ids, NEW d \in AppRows, Base,
           CurrentApp(d), d.id = a, seen[c] # None,
           seen[c].app = apps[a], seen[c].clients = ClientsOf(a),
           call'[c].app = d, call'[c].cert = None, seen' = seen
    PROVE  ~Stale(c)'
  <1>1. apps[a] # None /\ apps[a] \in Apps /\ \A r \in clients : Client(r) # None
    <2>1. \A r \in clients : Client(r) \in ClientRows
      BY DEF Base, TablesKept, ClientTable, Client, ClientRows
    <2> QED
      BY <2>1, Values DEF CurrentApp, Base, TablesKept
  <1>2. PICK o \in IF ClientsOf(a) = {} THEN {None} ELSE {Client(r) : r \in ClientsOf(a)} :
           d = [id |-> a, name |-> apps[a].name, by |-> apps[a].by, oauth |-> o]
    BY DEF CurrentApp, Joined
  <1>3. apps[a] = [name |-> d.name, by |-> d.by]
    BY <1>1, <1>2 DEF Apps
  <1>4. /\ d.oauth = None => ClientsOf(a) = {}
        /\ d.oauth # None => d.oauth \in {Client(r) : r \in ClientsOf(a)}
    BY <1>1, <1>2 DEF ClientsOf
  <1>5. (\A r : Client(r)' = Client(r)) /\ d # None
    BY Values DEF Client
  <1> QED
    BY <1>3, <1>4, <1>5 DEF Stale

\* A call that takes the current certificate in hand does not decide on a stale copy by it.
LEMMA CertFresh ==
    ASSUME NEW c \in Calls, NEW a \in Ids, NEW r \in CertRows, Base, ~Stale(c),
           CurrentCert(r), r.ref = a, seen[c] # None, seen[c].cert = certs[a],
           call'[c].app = call[c].app, call'[c].cert = r, seen' = seen
    PROVE  ~Stale(c)'
  <1>1. certs[a] # None /\ r = [id |-> certs[a].id, ref |-> a, value |-> certs[a].value]
    BY Values DEF CurrentCert, CertRow
  <1>2. certs[a] \in Certs
    BY <1>1 DEF Base, TablesKept
  <1>3. certs[a] = [id |-> r.id, value |-> r.value]
    BY <1>1, <1>2 DEF Certs
  <1>4. \A s : Client(s)' = Client(s)
    BY DEF Client
  <1> QED
    BY <1>3, <1>4 DEF Stale

\* The lookups that keep no copy.
LEMMA CachesChecks ==
    ASSUME NEW c \in Calls, Base, CachesCurrent,
           \/ ByName(c) \/ ByClient(c)
           \/ (CertExists(c) \/ CertByID(c)) /\ UNCHANGED appVars
    PROVE  CachesCurrent'
  <1>1. /\ Looks(c) /\ call[c].pc \in {"byName", "byClient", "certExists", "certByID"}
        /\ call'[c].app = call[c].app /\ call'[c].cert = call[c].cert
        /\ call'[c].pc \notin {"certDelete", "find", "remove"}
    <2>1. CASE ByName(c)
      <3>1. call[c].pc = "byName" /\ OnWay(call[c]) /\ call[c].req \in Requests
        BY <2>1, AtStep DEF ByName
      <3>2. call[c].req.op \in {"create", "update"}
        BY <3>1 DEF OnWay, CertWay, WayBack
      <3> QED
        BY <2>1, <3>2, ByNameLooks, AfterNames
    <2>2. CASE ByClient(c)
      BY <2>2, ByClientLooks DEF AfterClient
    <2>3. CASE (CertExists(c) \/ CertByID(c)) /\ UNCHANGED appVars
      BY <2>3, CertExistsLooks, CertByIDLooks DEF Holds
    <2> QED
      BY <2>1, <2>2, <2>3
  <1>2. seen' = seen /\ ReadCurrent(c)
    BY <1>1 DEF Looks, Acts, CachesCurrent
  <1>3. ~Stale(c)'
    BY <1>1, <1>2 DEF ReadCurrent, Stale, Client
  <1>4. ReadCurrent(c)'
    BY <1>1, <1>2, <1>3, LooksReads DEF Deleting
  <1> QED
    BY <1>1, <1>4, LooksCaches DEF CachesCurrent

\* All entries are current when a writer that is still running has nothing to tell.
LEMMA SoloEntries ==
    ASSUME NEW c \in Calls, Base, Apart, EntriesCurrent, Writes(c), call[c].pc # "done", tell[c] = Nothing
    PROVE  /\ \A d \in Calls : tell[d] = Nothing
           /\ \A a \in Ids : appByID[a] # None => CurrentApp(appByID[a])
           /\ \A n \in Names : appByName[n] # None => CurrentApp(appByName[n])
           /\ \A x \in Clients : oauthApp[x] # None => CurrentClient(oauthApp[x])
           /\ \A a \in Ids : certByReference[a] # None => CurrentCert(certByReference[a])
           /\ \A i \in Ids : certByID[i] # None => CurrentCert(certByID[i])
  <1>1. \A d \in Calls : tell[d] = Nothing
    BY Solo DEF Ended
  <1> QED
    BY <1>1, NoDrops

\* The lookups that keep a copy of the application.
LEMMA CachesApps ==
    ASSUME NEW c \in Calls, Base, Apart, CachesCurrent, AloneRule(c), ByID(c) \/ Find(c)
    PROVE  CachesCurrent'
  <1>1. PICK a : a = About(c)
    OBVIOUS
  <1>2. PICK d : d = call'[c].app
    OBVIOUS
  <1>3. /\ Looks(c) /\ Started(c) /\ call[c].pc \in {"byID", "find"}
        /\ Op(c) \in {"update", "delete", "get"}
        /\ Op(c) = "delete" => call[c].pc = "find"
        /\ call'[c].pc \notin {"find", "certDelete"}
        /\ \/ d = call[c].app
           \/ d = None /\ Deleting(c)'
           \/ d # None /\ (d = appByID[a] \/ d = AppRow(a))
    <2>1. CASE ByID(c)
      <3>1. call[c].req.op = "update" => AfterName(c, d) \notin {"find", "certDelete"}
        BY AfterNames
      <3> QED
        BY <1>1, <1>2, <2>1, <3>1, ByIDLooks DEF Op, Looks, Acts
    <2>2. CASE Find(c)
      <3>1. d = None /\ call'[c].pc = "certFind" => Deleting(c)'
        BY <1>2, <2>2, FindLooks DEF Deleting, Started, Op, Looks, Acts
      <3> QED
        BY <1>1, <1>2, <2>2, <3>1, FindLooks DEF Op, Looks, Acts
    <2> QED
      BY <2>1, <2>2
  <1>4. /\ seen' = seen /\ ReadCurrent(c) /\ tell[c] = Nothing /\ call'[c].req = call[c].req
        /\ call[c].pc # "done" /\ call[c].req \in Requests
        /\ InHand(call[c]) /\ InHand(call'[c])
    BY <1>3 DEF Looks, Acts, CachesCurrent, Base, CallKept, Started, Idle
  <1>5. call[c].app = None /\ call'[c].cert = None
    <2>1. call[c].app = None /\ call[c].cert = None
      BY <1>3, <1>4 DEF InHand, Op
    <2>2. CASE ByID(c)
      BY <2>1, <2>2, ByIDLooks
    <2>3. CASE Find(c)
      BY <1>4, <2>3, FindLooks DEF InHand
    <2> QED
      BY <2>1, <2>2, <2>3
  <1>6. a \in Ids
    BY <1>1, <1>3, <1>4, RequestFields DEF Op, About
  <1>7. CASE d = None
    <2>1. ~Stale(c)'
      BY <1>2, <1>5, <1>7 DEF Stale
    <2>2. call'[c].pc \in {"find", "remove"} => call[c].pc \in {"find", "remove"}
      BY <1>2, <1>3, <1>4, <1>7 DEF InHand, Op
    <2>3. ReadCurrent(c)'
      BY <1>2, <1>3, <1>4, <1>7, <2>1, <2>2, LooksReads
    <2> QED
      BY <1>3, <2>3, LooksCaches DEF CachesCurrent
  <1>8. CASE d # None /\ Op(c) = "get"
    <2>1. seen[c] = None
      BY <1>3, <1>8 DEF Base, HistoryKept
    <2>2. ~Stale(c)'
      BY <1>4, <2>1 DEF Stale
    <2>3. call'[c].pc \in {"find", "remove"} => call[c].pc \in {"find", "remove"}
      BY <1>3, <1>4, <1>8, ByIDLooks, FindLooks DEF Op
    <2>4. ReadCurrent(c)'
      BY <1>3, <1>4, <1>8, <2>2, <2>3, LooksReads
    <2> QED
      BY <1>3, <2>4, LooksCaches DEF CachesCurrent
  <1>9. CASE d # None /\ Op(c) \in {"update", "delete"}
    <2>1. Writes(c)
      BY <1>3, <1>9 DEF Writes, Op
    <2>2. d \in AppRows /\ d.id = a /\ CurrentApp(d)
      <3>1. appByID[a] # None => CurrentApp(appByID[a])
        BY <1>4, <1>6, <2>1, SoloEntries DEF CachesCurrent
      <3>2. AppRow(a) # None => AppRow(a) \in AppRows /\ AppRow(a).id = a /\ CurrentApp(AppRow(a))
        BY <1>6, AppRows1 DEF Base, CurrentApp
      <3>3. appByID[a] # None => appByID[a] \in AppRows /\ appByID[a].id = a
        BY <1>6 DEF Base, CachesKept
      <3> QED
        BY <1>3, <1>5, <1>9, <3>1, <3>2, <3>3
    <2>3. seen[c] # None /\ seen[c].app = apps[a] /\ seen[c].clients = ClientsOf(a)
      <3>1. seen[c] # None
        BY <1>3, <1>9 DEF Base, HistoryKept
      <3>2. CASE Op(c) = "delete"
        BY <1>1, <1>3, <1>4, <3>1, <3>2 DEF ReadCurrent
      <3>3. CASE Op(c) = "update"
        <4>1. Stores(c)
          BY <1>3, <3>3 DEF Stores
        <4> QED
          BY <1>1, <1>4, <1>6, <3>1, <4>1, AsSeen DEF RowsAsSeen
      <3> QED
        BY <1>9, <3>2, <3>3, <3>1
    <2>4. ~Stale(c)'
      BY <1>2, <1>4, <1>5, <1>6, <2>2, <2>3, CopyFresh
    <2>5. call'[c].pc \in {"find", "remove"} => call[c].pc \in {"find", "remove"}
      BY <1>3, <1>4, <1>9, ByIDLooks, FindLooks, AfterNames DEF Op
    <2>6. ReadCurrent(c)'
      BY <1>2, <1>3, <1>4, <2>2, <2>4, <2>5, LooksReads
    <2> QED
      BY <1>3, <2>6, LooksCaches DEF CachesCurrent
  <1> QED
    BY <1>3, <1>7, <1>8, <1>9

\* The lookups that keep a copy of the certificate, or the one to delete.
LEMMA CachesCertOf ==
    ASSUME NEW c \in Calls, Base, Apart, CachesCurrent, AloneRule(c), CertOf(c)
    PROVE  CachesCurrent'
  <1>1. PICK a : a = About(c)
    OBVIOUS
  <1>2. PICK r : r = call'[c].cert
    OBVIOUS
  <1>3. /\ Looks(c) /\ Started(c) /\ call[c].pc = "certOf" /\ call'[c].app = call[c].app
        /\ call'[c].pc \notin {"find", "remove", "certDelete"} /\ ~Deleting(c)
        /\ \/ Op(c) = "get" /\ r = None
           \/ /\ Op(c) = "update"
              /\ r = None \/ r = certByReference[a] \/ r = CertRow(a)
    BY <1>1, <1>2, CertOfLooks DEF Looks, Acts, Op, Deleting
  <1>4. /\ seen' = seen /\ ReadCurrent(c) /\ tell[c] = Nothing /\ call[c].req \in Requests
        /\ OnWay(call[c])
    BY <1>3 DEF Looks, Acts, CachesCurrent, Base, CallKept, Started, Idle
  <1>5. a \in Ids
    BY <1>1, <1>3, <1>4, RequestFields DEF Op, About
  <1>6. ~Stale(c)'
    <2>1. CASE r = None
      BY <1>2, <1>3, <1>4, <2>1 DEF ReadCurrent, Stale, Client
    <2>2. CASE r # None
      <3>1. Writes(c) /\ Stores(c)
        BY <1>3, <2>2 DEF Writes, Stores, Op
      <3>2. r \in CertRows /\ r.ref = a /\ CurrentCert(r)
        <4>1. certByReference[a] # None => CurrentCert(certByReference[a])
          BY <1>3, <1>4, <1>5, <3>1, SoloEntries DEF CachesCurrent
        <4> QED
          BY <1>3, <1>5, <2>2, <4>1, CertRowsFound
      <3>3. seen[c] # None /\ seen[c].cert = certs[a]
        <4>1. ~CertChanged(c)
          BY <1>3, <1>4 DEF CertChanged, OnWay, CertWay, WayBack
        <4>2. seen[c] # None
          BY <1>3, <2>2 DEF Base, HistoryKept
        <4> QED
          BY <1>1, <1>3, <1>4, <1>5, <3>1, <4>1, <4>2, AsSeen DEF CertAsSeen
      <3> QED
        BY <1>2, <1>3, <1>4, <1>5, <3>2, <3>3, CertFresh DEF ReadCurrent
    <2> QED
      BY <2>1, <2>2
  <1>7. ReadCurrent(c)'
    BY <1>3, <1>4, <1>6, LooksReads
  <1> QED
    BY <1>3, <1>7, LooksCaches DEF CachesCurrent

\* A certificate found for deletion is the current one, in the caches and in the call.
LEMMA CachesCertFind ==
    ASSUME NEW c \in Calls, Base, Apart, CachesCurrent, CertFind(c), UNCHANGED appVars
    PROVE  CachesCurrent'
  <1>1. PICK a : a = About(c)
    OBVIOUS
  <1>2. PICK r : r = call'[c].found
    OBVIOUS
  <1>3. /\ Looks(c) /\ Started(c) /\ call[c].pc = "certFind" /\ Holds(c)
        /\ call'[c].pc \in {"done", "store", "certDelete"}
        /\ call'[c].pc = "done" \/ (call'[c].pc = "store" /\ Op(c) # "delete")
           \/ (call'[c].pc = "certDelete" /\ r # None /\ (r = certByReference[a] \/ r = CertRow(a)))
    BY <1>1, <1>2, CertFindLooks DEF Looks, Acts, Op
  <1>4. /\ seen' = seen /\ ReadCurrent(c) /\ tell[c] = Nothing /\ a \in Ids
        /\ Op(c) \in {"create", "update", "delete"} /\ call'[c].req = call[c].req
    <2>1. call[c].req.op \in {"create", "update", "delete"} /\ About(c) \in Ids
      BY AtCertStep DEF CertFind, CertSteps
    <2> QED
      BY <1>1, <1>3, <2>1 DEF Looks, Acts, CachesCurrent, Op
  <1>5. ~Stale(c)'
    BY <1>3, <1>4 DEF ReadCurrent, Stale, Client, Holds
  <1>6. call'[c].pc = "certDelete" => CurrentCert(r) /\ r.ref = a
    <2>1. Writes(c)
      BY <1>3, <1>4 DEF Writes, Op
    <2>2. certByReference[a] # None => CurrentCert(certByReference[a])
      BY <1>3, <1>4, <2>1, SoloEntries DEF CachesCurrent
    <2> QED
      BY <1>3, <1>4, <2>2, CertRowsFound
  <1>7. Past(c)' \/ Deleting(c)' \/ (call'[c].app = call[c].app /\ ~Deleting(c))
    BY <1>3, <1>4 DEF Past, Deleting, Holds, Started, Op
  <1>8. ReadCurrent(c)'
    BY <1>1, <1>2, <1>3, <1>4, <1>5, <1>6, <1>7, LooksReads
  <1> QED
    BY <1>3, <1>8, LooksCaches DEF CachesCurrent

\* A step that fails, or is refused, only ends the call or sends it back.
LEMMA CachesFail ==
    ASSUME NEW c \in Calls, Base, CachesCurrent, Acts(c), TablesStay, CachesStay,
           tell' = tell, tell[c] = Nothing, Past(c)',
           call'[c].app = call[c].app, call'[c].cert = call[c].cert,
           call'[c].pc \notin {"find", "remove", "certDelete"}
    PROVE  CachesCurrent'
  <1>1. Looks(c)
    BY CachesStayKept DEF Looks, Forgetting, Reads, CachesStay, appCaches, certCaches
  <1>2. ReadCurrent(c) /\ seen' = seen
    BY DEF CachesCurrent, Acts
  <1>3. ~Stale(c)'
    BY <1>2 DEF ReadCurrent, Stale, Client
  <1>4. ReadCurrent(c)'
    BY <1>1, <1>2, <1>3, LooksReads
  <1> QED
    BY <1>1, <1>4, LooksCaches DEF CachesCurrent

\* A call that begins has read nothing.
LEMMA CachesBegins ==
    ASSUME NEW c \in Calls, NEW r \in Requests, Base, CachesCurrent, Begin(c, r)
    PROVE  CachesCurrent'
  <1>1. /\ ~Started(c) /\ UNCHANGED <<certs, apps, clients>> /\ tell' = tell /\ tell[c] = Nothing
        /\ \A d \in Calls \ {c} : call'[d] = call[d] /\ seen'[d] = seen[d]
        /\ call'[c].app = None /\ call'[c].cert = None /\ call'[c].req = r
        /\ call'[c].pc \in {"byName", "byID", "find", "byClient"}
        /\ CachesStay
        /\ r.op = "delete" =>
              seen'[c] = [app |-> apps[r.app], clients |-> ClientsOf(r.app), cert |-> certs[r.app]]
    BY Begins DEF TablesStay
  <1>2. EntriesCurrent'
    <2>1. Forgetting
      BY <1>1, CachesStayKept DEF Forgetting, CachesStay, appCaches, certCaches
    <2> QED
      BY <1>1, <2>1, EntriesForget DEF CachesCurrent
  <1>3. CertsSigned'
    BY <1>1, BeginsPersists, SignaturesStay DEF CachesCurrent
  <1>4. \A d \in Calls \ {c} : ReadCurrent(d)'
    BY <1>1, ReadsQuietly DEF CachesCurrent
  <1>5. ReadCurrent(c)'
    <2>1. ~Stale(c)' /\ tell'[c].put = None
      BY <1>1 DEF Stale, Nothing, Telling
    <2>2. r.op = "delete" =>
             /\ About(c)' = r.app
             /\ seen'[c].app = apps'[r.app] /\ seen'[c].clients = ClientsOf(r.app)'
      BY <1>1 DEF About, ClientsOf
    <2> QED
      BY <1>1, <2>1, <2>2 DEF ReadCurrent, Op
  <1> QED
    BY <1>2, <1>3, <1>4, <1>5 DEF CachesCurrent

\* A restart empties the caches.
LEMMA CachesRestart ==
    ASSUME Base, CachesCurrent, Restart
    PROVE  CachesCurrent'
  <1>1. /\ UNCHANGED <<certs, apps, clients>> /\ seen' = seen
        /\ \A c \in Calls : /\ tell'[c] = Nothing
                            /\ IF Running(c) THEN call'[c].pc = "done" /\ Holds(c)
                               ELSE call'[c] = call[c]
        /\ appByID' = [a \in Ids |-> None] /\ appByName' = [n \in Names |-> None]
        /\ oauthApp' = [x \in Clients |-> None]
        /\ certByID' = [i \in Ids |-> None] /\ certByReference' = [a \in Ids |-> None]
    BY Restarts DEF TablesStay
  <1>2. EntriesCurrent'
    BY <1>1 DEF EntriesCurrent
  <1>3. CertsSigned'
    BY <1>1, RestartPersists, SignaturesStay DEF CachesCurrent
  <1>4. ASSUME NEW d \in Calls
        PROVE  ReadCurrent(d)'
    <2>1. CASE Running(d)
      <3>1. ~Stale(d)'
        BY <1>1, <2>1 DEF CachesCurrent, ReadCurrent, Stale, Client, Holds
      <3>2. Past(d)' /\ call'[d].pc = "done" /\ tell'[d].put = None
        BY <1>1, <2>1 DEF Past, Nothing, Telling
      <3> QED
        BY <3>1, <3>2 DEF ReadCurrent
    <2>2. CASE ~Running(d)
      BY <1>1, <2>2, ReadsQuietly DEF CachesCurrent
    <2> QED
      BY <2>1, <2>2
  <1> QED
    BY <1>2, <1>3, <1>4 DEF CachesCurrent

\* The client of a current application is current.
LEMMA ClientCurrent ==
    ASSUME NEW d \in AppRows, CurrentApp(d), d.oauth # None
    PROVE  CurrentClient(d.oauth)
  BY DEF CurrentApp, CurrentClient, Joined, ClientsOf

\* What is put into the caches is current, and what is dropped is gone.
LEMMA CachesTell ==
    ASSUME NEW c \in Calls, Base, CachesCurrent, TellCaches(c)
    PROVE  CachesCurrent'
  <1>1. PICK t : t = tell[c]
    OBVIOUS
  <1>2. /\ t # Nothing /\ tell' = [tell EXCEPT ![c] = Nothing]
        /\ UNCHANGED <<call, before, seen, certs, apps, clients>>
        /\ \/ /\ t.which = "cert" /\ TellCerts(t) /\ UNCHANGED appCaches
              /\ {t.drop, t.put} \subseteq CertRows \cup {None}
           \/ /\ t.which = "app" /\ TellApps(t) /\ UNCHANGED certCaches
              /\ {t.drop, t.put} \subseteq AppRows \cup {None}
           \/ /\ t.which = "client" /\ TellClients(t) /\ UNCHANGED certCaches
              /\ t.drop = None /\ t.put \in ClientRows
    BY <1>1, Tells DEF TablesStay
  <1>3. /\ tell'[c] = Nothing /\ \A d \in Calls \ {c} : tell'[d] = tell[d]
    BY <1>2 DEF Base
  <1>4. \A which, e : Drops(which, e) => Drops(which, e)' \/ (t.which = which /\ t.drop = e)
    BY <1>1, <1>3 DEF Drops
  <1>5. t.put # None =>
           /\ t.which = "app" => CurrentApp(t.put)
           /\ t.which = "client" => CurrentClient(t.put)
           /\ t.which = "cert" => CurrentCert(t.put)
    BY <1>1 DEF CachesCurrent, ReadCurrent
  <1>6. EntriesCurrent
    BY DEF CachesCurrent
  <1>7. ASSUME NEW a \in Ids, NEW e, e = appByID'[a], e # None
        PROVE  CurrentApp(e)' \/ \E d \in AppRows : Drops("app", d)' /\ d.id = a
    <2>1. \/ t.which = "app" /\ e = t.put
          \/ e = appByID[a] /\ ~(t.which = "app" /\ t.drop # None /\ t.drop.id = a)
      BY <1>2, <1>7 DEF Base, CachesKept, TellApps, TellClients, appCaches
    <2>2. CASE t.which = "app" /\ e = t.put
      BY <1>2, <1>5, <1>7, <2>2, CurrentStays
    <2>3. CASE e = appByID[a] /\ ~(t.which = "app" /\ t.drop # None /\ t.drop.id = a)
      <3>1. CurrentApp(e) \/ \E d \in AppRows : Drops("app", d) /\ d.id = a
        BY <1>6, <1>7, <2>3 DEF EntriesCurrent
      <3>2. \A d \in AppRows : d # None
        BY Values
      <3> QED
        BY <1>2, <1>4, <2>3, <3>1, <3>2, CurrentStays
    <2> QED
      BY <2>1, <2>2, <2>3
  <1>8. ASSUME NEW n \in Names, NEW e, e = appByName'[n], e # None
        PROVE  CurrentApp(e)' \/ \E d \in AppRows : Drops("app", d)' /\ d.name = n
    <2>1. \/ t.which = "app" /\ e = t.put
          \/ e = appByName[n] /\ ~(t.which = "app" /\ t.drop # None /\ t.drop.name = n)
      BY <1>2, <1>8 DEF Base, CachesKept, TellApps, TellClients, appCaches
    <2>2. CASE t.which = "app" /\ e = t.put
      BY <1>2, <1>5, <1>8, <2>2, CurrentStays
    <2>3. CASE e = appByName[n] /\ ~(t.which = "app" /\ t.drop # None /\ t.drop.name = n)
      <3>1. CurrentApp(e) \/ \E d \in AppRows : Drops("app", d) /\ d.name = n
        BY <1>6, <1>8, <2>3 DEF EntriesCurrent
      <3>2. \A d \in AppRows : d # None
        BY Values
      <3> QED
        BY <1>2, <1>4, <2>3, <3>1, <3>2, CurrentStays
    <2> QED
      BY <2>1, <2>2, <2>3
  <1>9. ASSUME NEW x \in Clients, NEW e, e = oauthApp'[x], e # None
        PROVE  \/ CurrentClient(e)'
               \/ \E d \in AppRows : Drops("app", d)' /\ d.oauth # None /\ d.oauth.client = x
    <2>1. \/ t.which = "app" /\ t.put # None /\ t.put.oauth # None /\ e = t.put.oauth
          \/ t.which = "client" /\ e = t.put
          \/ /\ e = oauthApp[x]
             /\ ~(/\ t.which = "app" /\ t.drop # None
                  /\ t.drop.oauth # None /\ t.drop.oauth.client = x)
      <3>1. CASE t.which = "cert"
        BY <1>2, <1>9, <3>1 DEF appCaches
      <3>2. CASE t.which = "app"
        BY <1>2, <1>9, <3>2 DEF TellApps, OAuthOf
      <3>3. CASE t.which = "client"
        BY <1>2, <1>9, <3>3 DEF Base, CachesKept, TellClients
      <3> QED
        BY <1>2, <3>1, <3>2, <3>3
    <2>2. CASE t.which = "app" /\ t.put # None /\ t.put.oauth # None /\ e = t.put.oauth
      <3>1. t.put \in AppRows /\ CurrentApp(t.put)
        BY <1>2, <1>5, <2>2
      <3>2. CurrentClient(e)
        BY <2>2, <3>1, ClientCurrent
      <3> QED
        BY <1>2, <3>2, CurrentStays
    <2>3. CASE t.which = "client" /\ e = t.put
      BY <1>2, <1>5, <1>9, <2>3, CurrentStays
    <2>4. CASE /\ e = oauthApp[x]
               /\ ~(/\ t.which = "app" /\ t.drop # None
                    /\ t.drop.oauth # None /\ t.drop.oauth.client = x)
      <3>1. \/ CurrentClient(e)
            \/ \E d \in AppRows : Drops("app", d) /\ d.oauth # None /\ d.oauth.client = x
        BY <1>6, <1>9, <2>4 DEF EntriesCurrent
      <3>2. \A d \in AppRows : d # None
        BY Values
      <3> QED
        BY <1>2, <1>4, <2>4, <3>1, <3>2, CurrentStays
    <2> QED
      BY <2>1, <2>2, <2>3, <2>4
  <1>10. ASSUME NEW a \in Ids, NEW e, e = certByReference'[a], e # None
         PROVE  CurrentCert(e)' \/ \E r \in CertRows : Drops("cert", r)' /\ r.ref = a
    <2>1. \/ t.which = "cert" /\ e = t.put
          \/ e = certByReference[a] /\ ~(t.which = "cert" /\ t.drop # None /\ t.drop.ref = a)
      BY <1>2, <1>10 DEF TellCerts, certCaches
    <2>2. CASE t.which = "cert" /\ e = t.put
      BY <1>2, <1>5, <1>10, <2>2, CurrentStays
    <2>3. CASE e = certByReference[a] /\ ~(t.which = "cert" /\ t.drop # None /\ t.drop.ref = a)
      <3>1. CurrentCert(e) \/ \E r \in CertRows : Drops("cert", r) /\ r.ref = a
        BY <1>6, <1>10, <2>3 DEF EntriesCurrent
      <3>2. \A r \in CertRows : r # None
        BY Values
      <3> QED
        BY <1>2, <1>4, <2>3, <3>1, <3>2, CurrentStays
    <2> QED
      BY <2>1, <2>2, <2>3
  <1>11. ASSUME NEW i \in Ids, NEW e, e = certByID'[i], e # None
         PROVE  CurrentCert(e)' \/ \E r \in CertRows : Drops("cert", r)' /\ r.id = i
    <2>1. \/ t.which = "cert" /\ e = t.put
          \/ e = certByID[i] /\ ~(t.which = "cert" /\ t.drop # None /\ t.drop.id = i)
      BY <1>2, <1>11 DEF TellCerts, certCaches
    <2>2. CASE t.which = "cert" /\ e = t.put
      BY <1>2, <1>5, <1>11, <2>2, CurrentStays
    <2>3. CASE e = certByID[i] /\ ~(t.which = "cert" /\ t.drop # None /\ t.drop.id = i)
      <3>1. CurrentCert(e) \/ \E r \in CertRows : Drops("cert", r) /\ r.id = i
        BY <1>6, <1>11, <2>3 DEF EntriesCurrent
      <3>2. \A r \in CertRows : r # None
        BY Values
      <3> QED
        BY <1>2, <1>4, <2>3, <3>1, <3>2, CurrentStays
    <2> QED
      BY <2>1, <2>2, <2>3
  <1>12. EntriesCurrent'
    BY <1>7, <1>8, <1>9, <1>10, <1>11 DEF EntriesCurrent
  <1>13. CertsSigned'
    BY <1>2, TellsPersists, SignaturesStay DEF CachesCurrent
  <1>14. \A d \in Calls : ReadCurrent(d)'
    BY <1>2, <1>3, ReadsQuietly DEF CachesCurrent
  <1> QED
    BY <1>12, <1>13, <1>14 DEF CachesCurrent

\* A certificate is written, and what the caches have of it is to be dropped.
LEMMA CachesCerts ==
    ASSUME NEW c \in Calls, NEW a \in Ids, NEW drop \in CertRows \cup {None}, NEW put, Base,
           Apart, CachesCurrent, Writes(c), Acts(c), Holds(c), tell[c] = Nothing,
           UNCHANGED <<apps, clients>>, CachesStay, CertsSigned',
           \A b \in Ids \ {a} : certs'[b] = certs[b],
           tell'[c] = Telling("cert", drop, put),
           \/ put = None
           \/ put = [id |-> certs'[a].id, ref |-> a, value |-> certs'[a].value] /\ certs'[a] # None,
           certs[a] # None => drop # None /\ drop.ref = a /\ drop.id = certs[a].id,
           Past(c)' \/ ~Deleting(c), call'[c].pc \notin {"find", "remove", "certDelete"}
    PROVE  CachesCurrent'
  <1>1. call[c].pc # "done" /\ seen' = seen /\ Started(c) /\ call'[c].req = call[c].req
        /\ \A d \in Calls \ {c} : call'[d] = call[d] /\ tell'[d] = tell[d]
    BY DEF Acts
  <1>2. /\ \A d \in Calls : tell[d] = Nothing
        /\ \A b \in Ids : appByID[b] # None => CurrentApp(appByID[b])
        /\ \A n \in Names : appByName[n] # None => CurrentApp(appByName[n])
        /\ \A x \in Clients : oauthApp[x] # None => CurrentClient(oauthApp[x])
        /\ \A b \in Ids : certByReference[b] # None => CurrentCert(certByReference[b])
        /\ \A i \in Ids : certByID[i] # None => CurrentCert(certByID[i])
    BY <1>1, SoloEntries DEF CachesCurrent
  <1>3. drop # None => Drops("cert", drop)'
    <2>1. tell'[c].which = "cert" /\ tell'[c].drop = drop
      BY DEF Telling
    <2> QED
      BY <2>1 DEF Drops
  <1>4. ASSUME NEW e, NEW b \in Ids, e # None, e.ref = b, CurrentCert(e)
        PROVE  CurrentCert(e)' \/ (drop # None /\ drop.ref = b /\ drop.id = e.id)
    <2>1. certs[b] # None /\ e = [id |-> certs[b].id, ref |-> b, value |-> certs[b].value]
      BY <1>4 DEF CurrentCert, CertRow
    <2>2. CASE b = a
      BY <2>1, <2>2
    <2>3. CASE b # a
      <3>1. certs'[b] = certs[b]
        BY <2>3
      <3> QED
        BY <1>4, <2>1, <3>1 DEF CurrentCert, CertRow
    <2> QED
      BY <2>2, <2>3
  <1>5. ASSUME NEW b \in Ids, NEW e, e = certByReference'[b], e # None
        PROVE  CurrentCert(e)' \/ \E r \in CertRows : Drops("cert", r)' /\ r.ref = b
    <2>1. certByReference[b] = e /\ e.ref = b
      BY <1>5 DEF CachesStay, certCaches, Base, CachesKept
    <2> QED
      BY <1>2, <1>3, <1>4, <1>5, <2>1
  <1>6. ASSUME NEW i \in Ids, NEW e, e = certByID'[i], e # None
        PROVE  CurrentCert(e)' \/ \E r \in CertRows : Drops("cert", r)' /\ r.id = i
    <2>1. certByID[i] = e /\ e.id = i /\ e.ref \in Ids
      BY <1>6 DEF CachesStay, certCaches, Base, CachesKept, CertRows
    <2> QED
      BY <1>2, <1>3, <1>4, <1>6, <2>1
  <1>7. EntriesCurrent'
    <2>1. /\ \A b \in Ids : appByID'[b] # None => CurrentApp(appByID[b])'
          /\ \A n \in Names : appByName'[n] # None => CurrentApp(appByName[n])'
          /\ \A x \in Clients : oauthApp'[x] # None => CurrentClient(oauthApp[x])'
      <3>1. UNCHANGED <<appByID, appByName, oauthApp>>
        BY DEF CachesStay, appCaches
      <3>2. /\ \A b \in Ids : \A e : e = appByID'[b] /\ e # None => CurrentApp(e)'
            /\ \A n \in Names : \A e : e = appByName'[n] /\ e # None => CurrentApp(e)'
            /\ \A x \in Clients : \A e : e = oauthApp'[x] /\ e # None => CurrentClient(e)'
        BY <1>2, <3>1, CurrentStays
      <3> QED
        BY <3>2
    <2> QED
      BY <1>5, <1>6, <2>1 DEF EntriesCurrent
  <1>8. ASSUME NEW d \in Calls \ {c}
        PROVE  ReadCurrent(d)'
    <2>1. call[d] = Idle \/ call[d].pc = "done"
      BY <1>1, Solo DEF Ended
    <2> QED
      BY <1>1, <1>2, <2>1, ReadsOver DEF CachesCurrent
  <1>9. ReadCurrent(c)'
    <2>1. ReadCurrent(c) /\ ~Stale(c)'
      BY <1>1 DEF CachesCurrent, ReadCurrent, Stale, Client, Holds
    <2>2. tell'[c].which = "cert" /\ tell'[c].put = put
      BY DEF Telling
    <2>3. put # None => CurrentCert(put)'
      BY DEF CurrentCert, CertRow
    <2>4. PICK k : k = call[c].app
      OBVIOUS
    <2>5. Writes(c)' /\ ~Past(c)' /\ k # None => CurrentApp(k)'
      <3>1. ~Past(c)' => ~Past(c)
        BY <1>1 DEF Acts, Past
      <3> QED
        BY <1>1, <2>1, <2>4, <3>1, CurrentStays DEF ReadCurrent
    <2>6. call'[c].app = k
      BY <2>4 DEF Holds
    <2> QED
      BY <2>1, <2>2, <2>3, <2>5, <2>6 DEF ReadCurrent
  <1> QED
    BY <1>7, <1>8, <1>9 DEF CachesCurrent

\* The changes of the certificate, on the way to the store and back.
LEMMA CachesCertWrites ==
    ASSUME NEW c \in Calls, Base, Base', Apart, ~lost', CachesCurrent, AloneRule(c),
           CertInsert(c) \/ CertUpdate(c) \/ CertDelete(c), UNCHANGED appVars
    PROVE  CachesCurrent'
  <1>1. PICK a : a = About(c)
    OBVIOUS
  <1>2. /\ Acts(c) /\ Holds(c) /\ UNCHANGED <<apps, clients>> /\ a \in Ids /\ CachesStay
        /\ call[c].pc \in {"certInsert", "certUpdate", "certDelete"} /\ tell[c] = Nothing
        /\ call[c].req.op \in {"create", "update", "delete"}
        /\ CertFails(c) \/ CertDone(c)
        /\ lost => lost'
    BY <1>1, CertInsertActs, CertUpdateActs, CertDeleteActs DEF Misreported, Stores, Op
  <1>3. /\ Writes(c) /\ Persists /\ ReadCurrent(c) /\ CertsSigned
        /\ OnWay(call[c]) /\ InHand(call[c])
        /\ call[c] \in CallStates /\ certs \in [Ids -> Certs \cup {None}]
    BY <1>2, ActsPersists DEF Acts, Writes, CachesCurrent, Base, CallKept, Started, Idle, TablesKept
  <1>4. CASE CertFails(c) /\ UNCHANGED <<certs, tell, lost>>
    BY <1>2, <1>4, CachesFail DEF CertFails, TablesStay, Past, Holds
  <1>5. CASE CertDone(c)
    <2>1. /\ Past(c)' \/ ~Deleting(c)
          /\ call'[c].pc \notin {"find", "remove", "certDelete"}
      BY <1>5 DEF CertDone, Past, Deleting, Op
    <2>2. CASE CertInsert(c)
      <3>1. PICK v : v = Value(c)
        OBVIOUS
      <3>2. PICK put : put = [id |-> c, ref |-> a, value |-> v]
        OBVIOUS
      <3>3. /\ Stores(c) /\ certs[a] = None /\ v \in CertValues
            /\ certs' = [certs EXCEPT ![a] = [id |-> c, value |-> v]]
            /\ tell'[c] = Telling("cert", None, put)
        BY <1>1, <1>5, <2>2, <3>1, <3>2, CertInsertActs DEF CertFails, CertDone, Misreported, Stores, Op
      <3>4. certs'[a] = [id |-> c, value |-> v] /\ certs'[a] # None
        <4>1. [id |-> c, value |-> v] \in Certs
          BY <3>3, Values DEF Certs
        <4> QED
          BY <1>2, <1>3, <3>3, <4>1, Values
      <3>5. CertsSigned'
        <4>1. \A b \in Ids : certs'[b] # None =>
                 \/ certs[b] # None /\ certs'[b].id = certs[b].id
                 \/ \E d \in Calls : certs'[b].id = d /\ Stores(d) /\ About(d) = b
          BY <1>1, <1>2, <1>3, <3>3, <3>4
        <4> QED
          BY <1>3, <4>1, SignaturesStay
      <3>6. put = [id |-> certs'[a].id, ref |-> a, value |-> certs'[a].value]
        BY <3>2, <3>4
      <3>7. \A b \in Ids \ {a} : certs'[b] = certs[b]
        BY <1>3, <3>3
      <3> QED
        BY <1>2, <1>3, <2>1, <3>3, <3>4, <3>5, <3>6, <3>7, CachesCerts
    <2>3. CASE CertUpdate(c)
      <3>1. PICK v : v = Value(c)
        OBVIOUS
      <3>2. PICK i : i = call[c].cert.id
        OBVIOUS
      <3>3. PICK put : put = [id |-> i, ref |-> a, value |-> v]
        OBVIOUS
      <3>4. /\ Stores(c) /\ v \in CertValues /\ i \in Ids /\ put \in CertRows
            /\ call[c].pc = "certUpdate" /\ call[c].cert # None /\ call[c].req.cert # None
            /\ certs' = [certs EXCEPT ![a] = [id |-> i, value |-> v]]
            /\ tell'[c] = Telling("cert", put, put)
        BY <1>1, <1>5, <2>3, <3>1, <3>2, <3>3, CertUpdateActs DEF CertFails, CertDone, Misreported, Stores, Op
      <3>5. certs'[a] = [id |-> i, value |-> v] /\ certs'[a] # None
        <4>1. [id |-> i, value |-> v] \in Certs
          BY <3>4 DEF Certs
        <4> QED
          BY <1>2, <1>3, <3>4, <4>1, Values
      <3>6. certs[a] # None /\ certs[a].id = i
        <4>1. IF CertChanged(c) THEN CertToTakeBack(c, a) ELSE CertAsSeen(c, a)
          BY <1>1, <1>2, <1>3, <3>4, AsSeen
        <4>2. CASE CertChanged(c)
          BY <3>2, <3>4, <4>1, <4>2 DEF CertToTakeBack
        <4>3. CASE ~CertChanged(c)
          <5>1. /\ seen[c] # None /\ seen[c].cert # None
                /\ seen[c].cert = [id |-> call[c].cert.id, value |-> call[c].cert.value]
            BY <1>3, <3>4, FreshCert DEF ReadCurrent
          <5> QED
            BY <3>2, <4>1, <4>3, <5>1 DEF CertAsSeen
        <4> QED
          BY <4>2, <4>3
      <3>7. CertsSigned'
        <4>1. \A b \in Ids : certs'[b] # None => certs[b] # None /\ certs'[b].id = certs[b].id
          BY <1>2, <1>3, <3>4, <3>5, <3>6
        <4> QED
          BY <1>3, <4>1, SignaturesStay
      <3>8. put = [id |-> certs'[a].id, ref |-> a, value |-> certs'[a].value] /\ put # None
        BY <3>3, <3>4, <3>5, Values
      <3>9. \A b \in Ids \ {a} : certs'[b] = certs[b]
        BY <1>3, <3>4
      <3>10. put.ref = a /\ put.id = certs[a].id
        BY <3>3, <3>6
      <3> QED
        BY <1>2, <1>3, <2>1, <3>4, <3>5, <3>7, <3>8, <3>9, <3>10, CachesCerts
    <2>4. CASE CertDelete(c)
      <3>1. PICK drop : drop = call[c].found
        OBVIOUS
      <3>2. /\ drop \in CertRows /\ call[c].pc = "certDelete"
            /\ certs' = [certs EXCEPT ![a] = None]
            /\ tell'[c] = Telling("cert", drop, None)
        BY <1>1, <1>5, <2>4, <3>1, CertDeleteActs DEF CertFails, CertDone, Misreported, Op
      <3>3. CurrentCert(drop) /\ drop.ref = a /\ drop # None
        BY <1>1, <1>3, <3>1, <3>2, Values DEF ReadCurrent
      <3>4. certs[a] # None => drop.id = certs[a].id
        BY <3>3 DEF CurrentCert, CertRow
      <3>5. certs'[a] = None /\ \A b \in Ids \ {a} : certs'[b] = certs[b]
        BY <1>2, <1>3, <3>2
      <3>6. CertsSigned'
        <4>1. \A b \in Ids : certs'[b] # None => certs[b] # None /\ certs'[b].id = certs[b].id
          BY <3>5
        <4> QED
          BY <1>3, <4>1, SignaturesStay
      <3> QED
        BY <1>2, <1>3, <2>1, <3>2, <3>3, <3>4, <3>5, <3>6, CachesCerts
    <2> QED
      BY <1>5, <2>2, <2>3, <2>4
  <1> QED
    <2>1. CertFails(c) => UNCHANGED <<certs, tell, lost>>
      BY CertInsertActs, CertUpdateActs, CertDeleteActs DEF CertFails, CertDone, Misreported
    <2> QED
      BY <1>2, <1>4, <1>5, <2>1

\* A current copy tells all there is of its application.
LEMMA CopyCovers ==
    ASSUME NEW a \in Ids, NEW d \in AppRows, Base, CurrentApp(d), d.id = a,
           \A r, s \in clients : r.app = s.app \/ r.client = s.client => r = s
    PROVE  /\ apps[a] # None /\ d.name = apps[a].name
           /\ d.oauth = None <=> ClientsOf(a) = {}
           /\ \A r \in clients : r.app = a => d.oauth # None /\ d.oauth = Client(r)
           /\ d.oauth # None => \E r \in clients : r.app = a /\ d.oauth = Client(r)
  <1>1. \A r \in clients : Client(r) # None
    <2>1. \A r \in clients : Client(r) \in ClientRows
      BY DEF Base, TablesKept, ClientTable, Client, ClientRows
    <2> QED
      BY <2>1, Values
  <1>2. PICK o \in IF ClientsOf(a) = {} THEN {None} ELSE {Client(r) : r \in ClientsOf(a)} :
           d = [id |-> a, name |-> apps[a].name, by |-> apps[a].by, oauth |-> o]
    BY DEF CurrentApp, Joined
  <1>3. apps[a] # None /\ d.name = apps[a].name /\ d.oauth = o
    BY <1>2 DEF CurrentApp
  <1>4. CASE ClientsOf(a) = {}
    BY <1>2, <1>3, <1>4 DEF ClientsOf
  <1>5. CASE ClientsOf(a) # {}
    <2>1. PICK r \in clients : r.app = a /\ o = Client(r)
      BY <1>2, <1>5 DEF ClientsOf
    <2> QED
      BY <1>1, <1>3, <1>5, <2>1
  <1> QED
    BY <1>4, <1>5

\* Rows of an application are written, and what the caches have of it is to be dropped.
LEMMA CachesRows ==
    ASSUME NEW c \in Calls, NEW a \in Ids, NEW drop \in AppRows \cup {None},
           NEW put \in AppRows \cup {None}, Base, Base', Persists,
           Apart, CachesCurrent, Writes(c), Acts(c), tell[c] = Nothing,
           UNCHANGED certs, CachesStay,
           call'[c].app = call[c].app, call'[c].cert = call[c].cert,
           tell'[c] = Telling("app", drop, put),
           \A b \in Ids \ {a} : apps'[b] = apps[b],
           \A r \in clients \cup clients' : r.app # a => (r \in clients' <=> r \in clients),
           put # None => CurrentApp(put)',
           apps[a] # None => drop # None /\ drop.id = a /\ drop.name = apps[a].name,
           \A r \in clients : r.app = a =>
              drop # None /\ drop.oauth # None /\ drop.oauth.client = r.client,
           Past(c)' \/ Deleting(c)', call'[c].pc \notin {"find", "remove", "certDelete"}
    PROVE  CachesCurrent'
  <1>1. call[c].pc # "done" /\ seen' = seen
        /\ \A d \in Calls \ {c} : call'[d] = call[d] /\ tell'[d] = tell[d]
    BY DEF Acts
  <1>2. /\ \A d \in Calls : tell[d] = Nothing
        /\ \A b \in Ids : appByID[b] # None => CurrentApp(appByID[b])
        /\ \A n \in Names : appByName[n] # None => CurrentApp(appByName[n])
        /\ \A x \in Clients : oauthApp[x] # None => CurrentClient(oauthApp[x])
        /\ \A b \in Ids : certByReference[b] # None => CurrentCert(certByReference[b])
        /\ \A i \in Ids : certByID[i] # None => CurrentCert(certByID[i])
    BY <1>1, SoloEntries DEF CachesCurrent
  <1>3. drop # None => drop \in AppRows /\ Drops("app", drop)'
    <2>1. tell'[c].which = "app" /\ tell'[c].drop = drop
      BY DEF Telling
    <2> QED
      BY <2>1 DEF Drops
  <1>4. ASSUME NEW e \in AppRows, CurrentApp(e)
        PROVE  CurrentApp(e)' \/ (drop # None /\ drop.id = e.id /\ drop.name = e.name)
    <2>1. PICK b \in Ids : b = e.id
      BY DEF AppRows
    <2>2. apps[b] # None /\ e \in Joined(b)
      BY <1>4, <2>1 DEF CurrentApp
    <2>3. CASE b = a
      BY <2>1, <2>2, <2>3 DEF Joined
    <2>4. CASE b # a
      <3>1. apps'[b] = apps[b]
        BY <2>4
      <3>2. ClientsOf(b)' = ClientsOf(b)
        BY <2>4 DEF ClientsOf
      <3>3. Joined(b)' = Joined(b)
        BY <3>1, <3>2 DEF Joined, Client
      <3> QED
        BY <2>1, <2>2, <3>1, <3>3 DEF CurrentApp
    <2> QED
      BY <2>3, <2>4
  <1>5. ASSUME NEW b \in Ids, NEW e, e = appByID'[b], e # None
        PROVE  CurrentApp(e)' \/ \E d \in AppRows : Drops("app", d)' /\ d.id = b
    <2>1. appByID[b] = e /\ e.id = b /\ e \in AppRows
      BY <1>5 DEF CachesStay, appCaches, Base, CachesKept
    <2> QED
      BY <1>2, <1>3, <1>4, <1>5, <2>1
  <1>6. ASSUME NEW n \in Names, NEW e, e = appByName'[n], e # None
        PROVE  CurrentApp(e)' \/ \E d \in AppRows : Drops("app", d)' /\ d.name = n
    <2>1. appByName[n] = e /\ e.name = n /\ e \in AppRows
      BY <1>6 DEF CachesStay, appCaches, Base, CachesKept
    <2> QED
      BY <1>2, <1>3, <1>4, <1>6, <2>1
  <1>7. ASSUME NEW x \in Clients, NEW e, e = oauthApp'[x], e # None
        PROVE  \/ CurrentClient(e)'
               \/ \E d \in AppRows : Drops("app", d)' /\ d.oauth # None /\ d.oauth.client = x
    <2>1. oauthApp[x] = e /\ e.client = x
      BY <1>7 DEF CachesStay, appCaches, Base, CachesKept
    <2>2. PICK r \in clients : e = Client(r)
      BY <1>2, <1>7, <2>1 DEF CurrentClient
    <2>3. CASE r.app = a
      <3>1. r.client = x
        BY <2>1, <2>2 DEF Client
      <3> QED
        BY <1>3, <2>3, <3>1
    <2>4. CASE r.app # a
      <3>1. r \in clients'
        BY <2>4
      <3> QED
        BY <2>2, <3>1 DEF CurrentClient, Client
    <2> QED
      BY <2>3, <2>4
  <1>8. EntriesCurrent'
    <2>1. UNCHANGED <<certByID, certByReference>>
      BY DEF CachesStay, certCaches
    <2>2. /\ \A b \in Ids : \A e : e = certByReference'[b] /\ e # None => CurrentCert(e)'
          /\ \A i \in Ids : \A e : e = certByID'[i] /\ e # None => CurrentCert(e)'
      BY <1>2, <2>1, CurrentStays
    <2> QED
      BY <1>5, <1>6, <1>7, <2>2 DEF EntriesCurrent
  <1>9. ASSUME NEW d \in Calls \ {c}
        PROVE  ReadCurrent(d)'
    <2>1. call[d] = Idle \/ call[d].pc = "done"
      BY <1>1, Solo DEF Ended
    <2> QED
      BY <1>1, <1>2, <2>1, ReadsOver DEF CachesCurrent
  <1>10. ReadCurrent(c)'
    <2>1. ~Stale(c)'
      BY <1>1 DEF CachesCurrent, ReadCurrent, Stale, Client
    <2>2. tell'[c].which = "app" /\ tell'[c].put = put
      BY DEF Telling
    <2> QED
      BY <2>1, <2>2 DEF ReadCurrent
  <1>11. CertsSigned'
    BY SignaturesStay DEF CachesCurrent
  <1> QED
    BY <1>8, <1>9, <1>10, <1>11 DEF CachesCurrent

\* The deletion of an application.
LEMMA CachesRemoves ==
    ASSUME NEW c \in Calls, Base, Base', Differ, Apart, ~lost', CachesCurrent, Remove(c)
    PROVE  CachesCurrent'
  <1>1. PICK a : a = About(c)
    OBVIOUS
  <1>2. PICK d : d = call[c].app
    OBVIOUS
  <1>3. /\ Acts(c) /\ Holds(c) /\ call[c].pc = "remove" /\ Op(c) = "delete" /\ tell[c] = Nothing
        /\ a \in Ids /\ d # None /\ CachesStay /\ UNCHANGED certs
        /\ apps' = [apps EXCEPT ![a] = None]
        /\ clients' = clients \ ClientsOf(a)
        /\ call'[c].pc = "certFind" /\ tell'[c] = Telling("app", d, None) /\ lost' = lost
    BY <1>1, <1>2, RemoveActs DEF Op, Misreported
  <1>4. /\ Writes(c) /\ Persists /\ ReadCurrent(c) /\ OnWay(call[c]) /\ InHand(call[c])
        /\ call[c] \in CallStates
    BY <1>3, ActsPersists DEF Acts, Writes, CachesCurrent, Base, CallKept, Started, Idle, Op
  <1>5. /\ d \in AppRows /\ d.id = a
        /\ ~Past(c) /\ ~Deleting(c)
    BY <1>1, <1>2, <1>3, <1>4 DEF CallStates, InHand, OnWay, Op, About, Past, Deleting, CertWay, WayBack
  <1>6. CurrentApp(d)
    BY <1>2, <1>3, <1>4, <1>5 DEF ReadCurrent, Writes
  <1>7. /\ apps[a] # None /\ d.name = apps[a].name
        /\ \A r \in clients : r.app = a => d.oauth # None /\ d.oauth.client = r.client
    <2>1. \A r, s \in clients : r.app = s.app \/ r.client = s.client => r = s
      BY ClientsApart DEF CachesCurrent
    <2>2. /\ apps[a] # None /\ d.name = apps[a].name
          /\ \A r \in clients : r.app = a => d.oauth # None /\ d.oauth = Client(r)
      BY <1>3, <1>5, <1>6, <2>1, CopyCovers
    <2>3. \A r : Client(r).client = r.client
      BY DEF Client
    <2> QED
      BY <2>2, <2>3
  <1>8. /\ \A b \in Ids \ {a} : apps'[b] = apps[b]
        /\ \A r \in clients \cup clients' : r.app # a => (r \in clients' <=> r \in clients)
    BY <1>3 DEF Base, TablesKept, ClientsOf
  <1>9. Deleting(c)'
    BY <1>3 DEF Deleting, Started, Op, Acts
  <1> QED
    BY <1>3, <1>4, <1>5, <1>7, <1>8, <1>9, CachesRows DEF Holds

\* What a creation or an update has stored is current.
LEMMA StoredCurrent ==
    ASSUME NEW c \in Calls, NEW a \in Ids, NEW x, NEW put, NEW d, Base,
           a = About(c), x = ClientID(c), put = Stored(c), d = call[c].app,
           \/ Op(c) = "create" /\ InsertRows(c) /\ ClientsOf(a) = {}
           \/ /\ Op(c) = "update" /\ UpdateRows(c) /\ d # None /\ apps[a] # None
              /\ d.oauth = None <=> ClientsOf(a) = {}
              /\ \A r \in clients : r.app = a => d.oauth # None /\ d.oauth = Client(r),
           Stores(c)
    PROVE  CurrentApp(put)'
  <1>1. put = [id |-> a, name |-> call[c].req.name, by |-> c,
               oauth |-> IF x = None THEN None ELSE [client |-> x, app |-> a, by |-> c]]
    BY DEF Stored
  <1>2. Op(c) = "create" => a = c
    BY DEF About, Op
  <1>3. apps'[a] = [name |-> call[c].req.name, by |-> c] /\ apps'[a] # None
    <2>1. [name |-> call[c].req.name, by |-> c] \in Apps
      <3>1. call[c].req \in Requests
        BY DEF Base, CallKept, Stores, Started, Idle
      <3> QED
        BY <3>1, RequestFields, Values DEF Apps, Stores, Op
    <2> QED
      BY <1>2, <2>1, Values DEF InsertRows, UpdateRows, Base, TablesKept
  <1>4. x = None => ClientsOf(a)' = {}
    <2>1. CASE Op(c) = "create"
      BY <2>1 DEF InsertRows, ClientsOf
    <2>2. CASE Op(c) = "update" /\ d.oauth = None
      BY <2>2 DEF UpdateRows, ClientsOf, OAuthOf, Op
    <2>3. CASE Op(c) = "update" /\ d.oauth # None
      <3>1. x = None => clients' = {r \in clients : r.client # d.oauth.client}
        BY <2>3 DEF UpdateRows, OAuthOf, Op
      <3>2. \A r \in clients : r.app = a => d.oauth.client = r.client
        <4>1. \A r : Client(r).client = r.client
          BY DEF Client
        <4>2. \A r \in clients : r.app = a => d.oauth = Client(r)
          BY <2>3 DEF Op
        <4> QED
          BY <4>1, <4>2
      <3> QED
        BY <3>1, <3>2 DEF ClientsOf
    <2> QED
      BY <2>1, <2>2, <2>3
  <1>5. x # None => \E r \in clients' : r.app = a /\ r.client = x /\ r.by = c
    <2>1. PICK nc : nc = NewClient(c)
      OBVIOUS
    <2>2. nc.app = a /\ nc.client = x /\ nc.by = c
      BY <2>1 DEF NewClient
    <2>3. CASE Op(c) = "create"
      BY <1>2, <2>1, <2>2, <2>3 DEF InsertRows
    <2>4. CASE Op(c) = "update" /\ d.oauth = None
      BY <2>1, <2>2, <2>4 DEF UpdateRows, OAuthOf, Op
    <2>5. CASE Op(c) = "update" /\ d.oauth # None
      <3>1. x # None =>
              clients' = {IF r.app = a THEN [nc EXCEPT !.row = r.row] ELSE r : r \in clients}
        BY <2>1, <2>5 DEF UpdateRows, OAuthOf, Op
      <3>2. PICK s \in clients : s.app = a
        BY <2>5 DEF ClientsOf, Op
      <3>3. x # None => [nc EXCEPT !.row = s.row] \in clients'
        BY <3>1, <3>2
      <3>4. PICK k : k = [nc EXCEPT !.row = s.row]
        OBVIOUS
      <3>5. k.app = a /\ k.client = x /\ k.by = c
        BY <2>1, <2>2, <3>4 DEF NewClient
      <3> QED
        BY <3>3, <3>4, <3>5
    <2> QED
      BY <2>3, <2>4, <2>5
  <1>6. put \in Joined(a)'
    <2>1. PICK o : o = IF x = None THEN None ELSE [client |-> x, app |-> a, by |-> c]
      OBVIOUS
    <2>2. o \in IF ClientsOf(a)' = {} THEN {None} ELSE {Client(r) : r \in ClientsOf(a)'}
      <3>1. CASE x = None
        BY <1>4, <2>1, <3>1
      <3>2. CASE x # None
        <4>1. PICK r \in clients' : r.app = a /\ r.client = x /\ r.by = c
          BY <1>5, <3>2
        <4>2. r \in ClientsOf(a)'
          BY <4>1 DEF ClientsOf
        <4>3. Client(r) = o
          BY <2>1, <3>2, <4>1 DEF Client
        <4> QED
          BY <4>2, <4>3
      <3> QED
        BY <3>1, <3>2
    <2>3. put = [id |-> a, name |-> apps'[a].name, by |-> apps'[a].by, oauth |-> o]
      BY <1>1, <1>3, <2>1
    <2>4. \A r : Client(r)' = Client(r)
      BY DEF Client
    <2>5. Joined(a)' = {[id |-> a, name |-> apps'[a].name, by |-> apps'[a].by, oauth |-> u] :
                          u \in IF ClientsOf(a)' = {} THEN {None} ELSE {Client(r) : r \in ClientsOf(a)'}}
      BY <2>4 DEF Joined
    <2> QED
      BY <2>2, <2>3, <2>5
  <1>7. put.id = a
    BY <1>1
  <1> QED
    BY <1>3, <1>6, <1>7 DEF CurrentApp

\* The statement of the store.
LEMMA CachesStores ==
    ASSUME NEW c \in Calls, Base, Base', Differ, Apart, ~lost', CachesCurrent, AloneRule(c), Store(c)
    PROVE  CachesCurrent'
  <1>1. PICK a : a = About(c)
    OBVIOUS
  <1>2. PICK d : d = call[c].app
    OBVIOUS
  <1>3. PICK put : put = Stored(c)
    OBVIOUS
  <1>4. PICK x : x = ClientID(c)
    OBVIOUS
  <1>5. /\ Acts(c) /\ Stores(c) /\ call[c].pc = "store" /\ ~call[c].undo /\ tell[c] = Nothing
        /\ CachesStay /\ UNCHANGED certs /\ a \in Ids
        /\ call'[c].app = call[c].app /\ call'[c].cert = call[c].cert
        /\ \/ RolledBack(c) /\ UNCHANGED <<apps, clients, tell, lost>>
           \/ /\ \/ Op(c) = "create" /\ InsertRows(c)
                 \/ Op(c) = "update" /\ ~Refused(c) /\ UpdateRows(c)
              /\ call'[c].pc = "done" /\ lost' = lost
              /\ tell'[c] = Telling("app", IF Op(c) = "create" THEN None ELSE d, put)
    BY <1>1, <1>2, <1>3, StoreActs, StoredRows DEF Misreported
  <1>6. /\ Writes(c) /\ ReadCurrent(c) /\ InHand(call[c]) /\ call[c] \in CallStates
        /\ Persists \/ lost' # lost
    BY <1>5, ActsPersists
    DEF Acts, Stores, Writes, CachesCurrent, Base, CallKept, Started, Idle, Op
  <1>7. CASE RolledBack(c) /\ UNCHANGED <<apps, clients, tell, lost>>
    <2>1. Past(c)' /\ call'[c].pc \notin {"find", "remove", "certDelete"}
      BY <1>7 DEF RolledBack, Past
    <2> QED
      BY <1>5, <1>7, <2>1, CachesFail DEF TablesStay
  <1>8. CASE /\ \/ Op(c) = "create" /\ InsertRows(c)
                \/ Op(c) = "update" /\ ~Refused(c) /\ UpdateRows(c)
             /\ call'[c].pc = "done" /\ lost' = lost
             /\ tell'[c] = Telling("app", IF Op(c) = "create" THEN None ELSE d, put)
    <2>1. Past(c)' /\ Persists /\ put \in AppRows
      BY <1>3, <1>5, <1>6, <1>8, StoredRows DEF Past
    <2>2. CASE Op(c) = "create" /\ InsertRows(c)
      <3>1. a = c
        BY <1>1, <2>2 DEF About, Op
      <3>2. apps[a] = None
        BY <1>5, <3>1 DEF Base, RowsSigned, Past
      <3>3. (\A r \in clients : r.app # a) /\ ClientsOf(a) = {}
        BY <3>2 DEF Base, RowsSigned, ClientsOf
      <3>4. CurrentApp(put)'
        BY <1>1, <1>2, <1>3, <1>4, <1>5, <2>2, <3>3, StoredCurrent
      <3>5. /\ \A b \in Ids \ {a} : apps'[b] = apps[b]
            /\ \A r \in clients \cup clients' : r.app # a => (r \in clients' <=> r \in clients)
        <4>1. NewClient(c).app = a
          BY <1>1 DEF NewClient
        <4> QED
          BY <2>2, <3>1, <4>1 DEF InsertRows, Base, TablesKept
      <3>6. tell'[c] = Telling("app", None, put)
        BY <1>8, <2>2
      <3> QED
        BY <1>5, <1>6, <1>8, <2>1, <3>2, <3>3, <3>4, <3>5, <3>6, CachesRows
    <2>3. CASE Op(c) = "update" /\ UpdateRows(c)
      <3>1. /\ d \in AppRows /\ d # None /\ d.id = a /\ ~Past(c) /\ ~Deleting(c)
        BY <1>1, <1>2, <1>5, <1>6, <2>3 DEF CallStates, InHand, Op, About, Past, Deleting
      <3>2. CurrentApp(d)
        BY <1>2, <1>6, <3>1 DEF ReadCurrent, Writes
      <3>3. \A r, s \in clients : r.app = s.app \/ r.client = s.client => r = s
        BY ClientsApart DEF CachesCurrent
      <3>4. /\ apps[a] # None /\ d.name = apps[a].name
            /\ d.oauth = None <=> ClientsOf(a) = {}
            /\ \A r \in clients : r.app = a => d.oauth # None /\ d.oauth = Client(r)
            /\ d.oauth # None => \E r \in clients : r.app = a /\ d.oauth = Client(r)
        BY <1>5, <3>1, <3>2, <3>3, CopyCovers
      <3>5. \A r \in clients : r.app = a => d.oauth # None /\ d.oauth.client = r.client
        <4>1. \A r : Client(r).client = r.client
          BY DEF Client
        <4> QED
          BY <3>4, <4>1
      <3>6. CurrentApp(put)'
        BY <1>1, <1>2, <1>3, <1>4, <1>5, <2>3, <3>1, <3>4, StoredCurrent
      <3>7. \A b \in Ids \ {a} : apps'[b] = apps[b]
        BY <1>1, <2>3 DEF UpdateRows, Base, TablesKept
      <3>8. \A r \in clients \cup clients' : r.app # a => (r \in clients' <=> r \in clients)
        <4>1. PICK nc : nc = NewClient(c)
          OBVIOUS
        <4>2. nc.app = a
          BY <1>1, <4>1 DEF NewClient
        <4>3. \A r : [nc EXCEPT !.row = r.row].app = a
          BY <1>1, <4>1 DEF NewClient
        <4>4. CASE d.oauth = None
          BY <1>2, <2>3, <3>1, <4>1, <4>2, <4>4 DEF UpdateRows, OAuthOf
        <4>5. CASE d.oauth # None /\ x = None
          <5>1. clients' = {r \in clients : r.client # d.oauth.client}
            BY <1>2, <1>4, <2>3, <3>1, <4>5 DEF UpdateRows, OAuthOf
          <5>2. PICK s \in clients : s.app = a
            BY <3>4, <4>5
          <5>3. \A r \in clients : r.app # a => r.client # s.client
            BY <3>3, <5>2
          <5> QED
            BY <3>5, <5>1, <5>2, <5>3
        <4>6. CASE d.oauth # None /\ x # None
          <5>1. clients' = {IF r.app = a THEN [nc EXCEPT !.row = r.row] ELSE r : r \in clients}
            BY <1>1, <1>2, <1>4, <2>3, <3>1, <4>1, <4>6 DEF UpdateRows, OAuthOf
          <5> QED
            BY <4>3, <5>1
        <4> QED
          BY <4>4, <4>5, <4>6
      <3>9. tell'[c] = Telling("app", d, put)
        BY <1>8, <2>3
      <3> QED
        BY <1>5, <1>6, <1>8, <2>1, <3>1, <3>4, <3>5, <3>6, <3>7, <3>8, <3>9, CachesRows
    <2> QED
      BY <1>8, <2>2, <2>3
  <1> QED
    BY <1>5, <1>7, <1>8

\* Every step.
LEMMA CachesNext ==
    ASSUME Base, Base', Persists, Differ, \A c \in Calls : AloneRule(c), CachesRule, [Next]_vars
    PROVE  CachesRule'
  <1> SUFFICES ASSUME Apart'
               PROVE  CachesCurrent'
    BY DEF CachesRule
  <1>1. Apart /\ ~lost' /\ CachesCurrent
    BY ApartBefore DEF CachesRule, Apart
  <1>2. CASE UNCHANGED vars
    <2>1. /\ UNCHANGED <<certs, apps, clients, call, tell, before, seen>> /\ CachesStay
      BY <1>2 DEF vars, certVars, appVars, CachesStay
    <2>2. Forgetting
      BY <2>1, CachesStayKept DEF Forgetting, CachesStay, appCaches, certCaches
    <2>3. EntriesCurrent'
      BY <1>1, <2>1, <2>2, EntriesForget DEF CachesCurrent
    <2>4. CertsSigned'
      BY <1>1, <2>1, SignaturesStay DEF CachesCurrent
    <2>5. \A d \in Calls : ReadCurrent(d)'
      BY <1>1, <2>1, ReadsQuietly DEF CachesCurrent
    <2> QED
      BY <2>3, <2>4, <2>5 DEF CachesCurrent
  <1>3. ASSUME NEW c \in Calls, CertService(c), UNCHANGED appVars
        PROVE  CachesCurrent'
    BY <1>1, <1>3, CachesChecks, CachesCertFind, CachesCertWrites DEF CertService
  <1>4. ASSUME NEW c \in Calls,
               ByName(c) \/ ByClient(c) \/ ByID(c) \/ Find(c) \/ CertOf(c)
        PROVE  CachesCurrent'
    BY <1>1, <1>4, CachesChecks, CachesApps, CachesCertOf
  <1>5. ASSUME NEW c \in Calls, Fails(c)
        PROVE  CachesCurrent'
    <2>1. /\ Acts(c) /\ TablesStay /\ CachesStay /\ tell' = tell /\ tell[c] = Nothing
          /\ call'[c].app = call[c].app /\ call'[c].cert = call[c].cert
          /\ RolledBack(c) \/ call'[c].pc = "done"
      BY <1>5, FailsActs DEF CertFails
    <2>2. Past(c)' /\ call'[c].pc \notin {"find", "remove", "certDelete"}
      BY <2>1 DEF RolledBack, Past
    <2> QED
      BY <1>1, <2>1, <2>2, CachesFail
  <1> QED
    BY <1>1, <1>2, <1>3, <1>4, <1>5, CachesBegins, CachesStores, CachesRemoves, CachesTell,
       CachesRestart DEF Next

\* At the start the caches have the rows.
LEMMA CachesInit ==
    ASSUME Init
    PROVE  CachesRule
  <1>1. Base
    BY BaseInit
  <1>2. \A c \in Calls : call[c] = Idle /\ tell[c] = Nothing /\ seen[c] = None
    BY DEF Init
  <1>3. CertsSigned
    <2>1. PICK t \in InitialTables : certs = t.certs
      BY DEF Init
    <2>2. /\ \A c \in Calls : certs[c] = None
          /\ certs[First] # None => certs[First].id = First
      BY <2>1, TablesAssumption
    <2> QED
      BY <2>2 DEF CertsSigned, Ids
  <1>4. \A c \in Calls : ReadCurrent(c)
    <2>1. ASSUME NEW c \in Calls
          PROVE  ReadCurrent(c)
      <3>1. ~Started(c) /\ ~Stale(c) /\ tell[c].put = None /\ call[c].pc = "idle"
        BY <1>2 DEF Started, Idle, Stale, Nothing, Telling
      <3> QED
        BY <3>1 DEF ReadCurrent
    <2> QED
      BY <2>1
  <1>5. EntriesCurrent
    <2>1. \A a \in Ids : AppRow(a) # None => CurrentApp(AppRow(a))
      BY <1>1, AppRows1 DEF Base, CurrentApp
    <2>2. \A a \in Ids : appByID[a] # None => CurrentApp(appByID[a])
      BY <2>1 DEF Init
    <2>3. \A n \in Names : appByName[n] # None => CurrentApp(appByName[n])
      <3>1. ASSUME NEW n \in Names, Named(n) # {}
            PROVE  (CHOOSE a \in Named(n) : TRUE) \in Ids
        BY <3>1 DEF Named
      <3> QED
        BY <2>1, <3>1 DEF Init
    <2>4. \A x \in Clients : oauthApp[x] # None => CurrentClient(oauthApp[x])
      <3>1. ASSUME NEW x \in Clients, ~(\A r \in clients : r.client # x)
            PROVE  (CHOOSE r \in clients : r.client = x) \in clients
        BY <3>1
      <3> QED
        BY <3>1 DEF Init, CurrentClient
    <2>5. \A a \in Ids : certByReference[a] # None => CurrentCert(certByReference[a])
      BY <1>1, CertRowsFound DEF Init
    <2>6. \A i \in Ids : certByID[i] # None => CurrentCert(certByID[i])
      BY <1>1, CertRowsFound DEF Init
    <2> QED
      BY <2>2, <2>3, <2>4, <2>5, <2>6 DEF EntriesCurrent
  <1> QED
    BY <1>3, <1>4, <1>5 DEF CachesRule, CachesCurrent

\* So the caches agree with the tables.
LEMMA CachesMeans ==
    ASSUME Base, CachesRule
    PROVE  CachesAgree
  <1> SUFFICES ASSUME Quiet, Apart
               PROVE  /\ \A a \in Ids :
                            /\ appByID[a] # None => apps[a] # None /\ appByID[a] \in Joined(a)
                            /\ certByReference[a] # None => certByReference[a] = CertRow(a)
                            /\ certByID[a] # None => certByID[a] = CertRowByID(a)
                      /\ \A n \in Names : appByName[n] # None =>
                            \E a \in Named(n) : appByName[n] \in Joined(a)
                      /\ \A x \in Clients : oauthApp[x] # None =>
                            \E r \in clients : r.client = x /\ oauthApp[x] = Client(r)
    BY DEF CachesAgree, Apart
  <1>1. CachesCurrent
    BY DEF CachesRule
  <1>2. \A c \in Calls : tell[c] = Nothing
    BY DEF Quiet, Running, Ended, Base, CallKept, Started
  <1>3. /\ \A a \in Ids : appByID[a] # None => CurrentApp(appByID[a])
        /\ \A n \in Names : appByName[n] # None => CurrentApp(appByName[n])
        /\ \A x \in Clients : oauthApp[x] # None => CurrentClient(oauthApp[x])
        /\ \A a \in Ids : certByReference[a] # None => CurrentCert(certByReference[a])
        /\ \A i \in Ids : certByID[i] # None => CurrentCert(certByID[i])
    BY <1>1, <1>2, NoDrops DEF CachesCurrent
  <1>4. ASSUME NEW a \in Ids, appByID[a] # None
        PROVE  apps[a] # None /\ appByID[a] \in Joined(a)
    BY <1>3, <1>4 DEF Base, CachesKept, CurrentApp
  <1>5. ASSUME NEW a \in Ids, certByReference[a] # None
        PROVE  certByReference[a] = CertRow(a)
    BY <1>3, <1>5 DEF Base, CachesKept, CurrentCert
  <1>6. ASSUME NEW i \in Ids, certByID[i] # None
        PROVE  certByID[i] = CertRowByID(i)
    <2>1. PICK r \in CertRows : r = certByID[i] /\ r.id = i /\ CurrentCert(r)
      BY <1>3, <1>6 DEF Base, CachesKept
    <2>2. PICK a \in Ids : r.ref = a
      BY <2>1 DEF CertRows
    <2>3. certs[a] # None /\ certs[a].id = i /\ r = CertRow(a)
      BY <1>6, <2>1, <2>2 DEF CurrentCert, CertRow
    <2>4. ASSUME NEW b \in Ids, certs[b] # None, certs[b].id = i
          PROVE  b = a
      BY <1>1, <2>3, <2>4 DEF CachesCurrent, CertsSigned
    <2>5. (CHOOSE b \in Ids : certs[b] # None /\ certs[b].id = i) = a
      BY <2>3, <2>4
    <2> QED
      BY <2>1, <2>3, <2>5 DEF CertRowByID
  <1>7. ASSUME NEW n \in Names, appByName[n] # None
        PROVE  \E a \in Named(n) : appByName[n] \in Joined(a)
    <2>1. PICK e \in AppRows : e = appByName[n] /\ e.name = n /\ CurrentApp(e)
      BY <1>3, <1>7 DEF Base, CachesKept
    <2>2. PICK a \in Ids : a = e.id
      BY <2>1 DEF AppRows
    <2>3. apps[a] # None /\ e \in Joined(a) /\ apps[a].name = n
      BY <2>1, <2>2, Joins DEF CurrentApp, Base
    <2> QED
      BY <2>1, <2>3 DEF Named
  <1>8. ASSUME NEW x \in Clients, oauthApp[x] # None
        PROVE  \E r \in clients : r.client = x /\ oauthApp[x] = Client(r)
    BY <1>3, <1>8 DEF Base, CachesKept, CurrentClient, Client
  <1> QED
    BY <1>4, <1>5, <1>6, <1>7, <1>8

-----------------------------------------------------------------------------
(* The theorems.                                                           *)

\* The base says that rows, copies and caches are of their types.
LEMMA BaseTypes ==
    ASSUME Base
    PROVE  TypeOK
  <1>1. /\ certs \in [Ids -> Certs \cup {None}] /\ apps \in [Ids -> Apps \cup {None}]
        /\ clients \subseteq ClientTable
        /\ certByID \in [Ids -> CertRows \cup {None}]
        /\ certByReference \in [Ids -> CertRows \cup {None}]
        /\ appByID \in [Ids -> AppRows \cup {None}]
        /\ appByName \in [Names -> AppRows \cup {None}]
        /\ oauthApp \in [Clients -> ClientRows \cup {None}]
        /\ \A r \in clients : apps[r.app] # None
    BY DEF Base, TablesKept, CachesKept, RowsSigned
  <1>2. ASSUME NEW c \in Calls
        PROVE  /\ call[c].req \in Requests \cup {None}
               /\ call[c].reply \in Replies \cup {None}
               /\ call[c].app \in AppRows \cup {None}
               /\ seen[c] \in Shots \cup {None}
               /\ {call[c].cert, call[c].found} \subseteq CertRows \cup {None}
               /\ {tell[c].drop, tell[c].put} \subseteq CertRows \cup AppRows \cup ClientRows \cup {None}
    <2>1. call[c] \in CallStates /\ tell[c] \in Tellings /\ seen[c] \in Shots \cup {None}
      BY DEF Base, HistoryKept
    <2>2. {tell[c].drop, tell[c].put} \subseteq CertRows \cup AppRows \cup ClientRows \cup {None}
      BY <2>1 DEF Tellings, Nothing, Telling
    <2> QED
      BY <2>1, <2>2 DEF CallStates
  <1> QED
    BY <1>1, <1>2 DEF TypeOK

\* The invariant is inductive.
THEOREM Inductive == Spec => []IInv
  <1>1. Init => IInv
    <2> SUFFICES ASSUME Init
                 PROVE  IInv
      OBVIOUS
    <2>1. \A c \in Calls : AloneRule(c)
      BY DEF Init, AloneRule, Stores, Started, Idle
    <2> QED
      BY <2>1, BaseInit, RegistersInit, GoneInit, CachesInit DEF IInv
  <1>2. IInv /\ [Next]_vars => IInv'
    <2> SUFFICES ASSUME IInv, [Next]_vars
                 PROVE  IInv'
      OBVIOUS
    <2>1. Base /\ Base' /\ Persists
      BY BaseStep DEF IInv
    <2>2. Differ' /\ Rules'
      BY <2>1, RegistersStep DEF IInv
    <2>3. \A c \in Calls : GoneRule(c)'
      BY <2>1, GoneNext DEF IInv
    <2>4. OrphanRule'
      BY <2>1, OrphanNext DEF IInv
    <2>5. \A c \in Calls : AloneRule(c)'
      BY <2>1, AloneNext DEF IInv
    <2>6. CachesRule'
      BY <2>1, CachesNext DEF IInv
    <2> QED
      BY <2>1, <2>2, <2>3, <2>4, <2>5, <2>6 DEF IInv
  <1> QED
    BY <1>1, <1>2, PTL DEF Spec

\* Rows, copies and entries of caches are whole, and no client is without an application.
THEOREM TypesHold == Spec => []TypeOK
  <1>1. IInv => TypeOK
    BY BaseTypes DEF IInv
  <1> QED
    BY <1>1, Inductive, PTL

\* Two applications have one name, or two clients one ID, only if calls that asked for it
\* met or relied on a stale copy; and what a deletion or a failed creation leaves behind is
\* owed to calls that met, to a stale copy or to an error that was reported (the checks, the
\* writes and the rollbacks of application/service.go).
THEOREM RegistrationsAreKept == Spec => []RegistrationsHold
  <1>1. IInv => RegistrationsHold
    BY BaseTypes, DifferMeans, GoneMeans DEF IInv, RegistrationsHold
  <1> QED
    BY <1>1, Inductive, PTL

\* A creation or an update that ends with the error of the store has left everything as it
\* was, if it ran on its own (rollbackAppCertificateCreation and
\* rollbackApplicationCertificateUpdate).
THEOREM FailuresAreUndone == Spec => []FailedChangesNothing
  <1>1. IInv => FailedChangesNothing
    BY AloneMeans DEF IInv
  <1> QED
    BY <1>1, Inductive, PTL

\* When no call runs, every entry of a cache is a row, as long as no writer met another
\* call and no write that was applied was reported as failed (cache_backed_store.go).
THEOREM CachesFollow == Spec => []CachesAgree
  <1>1. IInv => CachesAgree
    BY CachesMeans DEF IInv
  <1> QED
    BY <1>1, Inductive, PTL
=============================================================================
