---------------------------- MODULE Applications ----------------------------
(***************************************************************************)
(* The application service (internal/application): applications with an    *)
(* optional OAuth client and an optional certificate, behind caches by ID, *)
(* by name and by client ID.  Rows and certificates are written in steps   *)
(* of their own, and a failure of the later one is made good by taking     *)
(* back the earlier one.                                                   *)
(*                                                                         *)
(* Flow graphs, brandings, user types and the checks of the OAuth          *)
(* parameters decide only whether a request is refused before anything is  *)
(* read or written; requests here have passed them.                        *)
(***************************************************************************)
EXTENDS Certificates

CONSTANTS
    Names,
    ChosenClients,  \* client IDs that requests bring along
    CertValues,
    Requests,       \* what calls may ask for
    InitialTables   \* the rows that may be there at the start

Clients == Ids \cup ChosenClients

Replies == {"ok", "notFound", "conflict", "error", "certError", "stopped"}

\* Generated IDs are random: they are neither chosen nor like anything else.
ASSUME ValuesAssumption ==
    /\ First \notin Calls
    /\ ChosenClients \cap Ids = {}
    /\ "new" \notin Clients
    /\ None \notin Clients \cup Names \cup CertValues \cup Replies

\* Creations and updates say what an application is to have: the client is None for no
\* OAuth configuration, and new for one without a client ID.
ASSUME RequestsAssumption ==
    LET clientIDs == Clients \cup {None, "new"}
        values == CertValues \cup {None}
    IN  /\ Requests \subseteq
              [op : {"create"}, name : Names, client : clientIDs, cert : values]
              \cup [op : {"update"}, app : Ids, name : Names, client : clientIDs, cert : values]
              \cup [op : {"delete", "get"}, app : Ids]
              \cup [op : {"getClient"}, client : Clients]
        /\ None \notin Requests

CertRows == [id : Ids, ref : Ids, value : CertValues]
ClientRows == [client : Clients, app : Ids, by : Ids]
AppRows == [id : Ids, name : Names, by : Ids, oauth : ClientRows \cup {None}]

\* The content of the tables, and at the start only what First made: at most one
\* client and a certificate, both of its application.
Certs == [id : Ids, value : CertValues]
Apps == [name : Names, by : Ids]
ClientTable == [row : Ids, app : Ids, client : Clients, by : Ids]

\* And what there is of one application.
Shots == [app : Apps \cup {None}, clients : SUBSET ClientTable, cert : Certs \cup {None}]

ASSUME TablesAssumption ==
    /\ None \notin CertRows \cup ClientRows \cup AppRows \cup Certs \cup Apps \cup Shots
    /\ \A t \in InitialTables :
          /\ t.apps \in [Ids -> Apps \cup {None}]
          /\ t.certs \in [Ids -> Certs \cup {None}]
          /\ t.clients \subseteq ClientTable
          /\ \A c \in Calls : t.apps[c] = None /\ t.certs[c] = None
          /\ t.apps[First] # None => t.apps[First].by = First
          /\ t.certs[First] # None => t.certs[First].id = First /\ t.apps[First] # None
          /\ \A r \in t.clients :
                /\ r.row = First /\ r.app = First /\ r.by = First /\ r.client \notin Calls
                /\ t.apps[First] # None
          /\ \A r, s \in t.clients : r = s

VARIABLES
    apps,           \* table SP_APP: a name, and the call that wrote the row
    clients,        \* table IDN_OAUTH_CONSUMER_APPS, a set of rows
    appByID, appByName, oauthApp,       \* the caches
    before,         \* history: the calls that had ended when a call began
    seen            \* history: what there was of its application then

appCaches == <<appByID, appByName, oauthApp>>
appVars == <<apps, clients, appCaches, before, seen>>
certVars == <<certs, certCaches, call, tell, failures, lost>>
vars == <<certVars, appVars>>

-----------------------------------------------------------------------------
(* The store.  A row of clients has, with its content, the call that       *)
(* inserted it: no key of the table keeps two rows apart.                  *)

ClientsOf(a) == {r \in clients : r.app = a}

Client(r) == [client |-> r.client, app |-> r.app, by |-> r.by]

\* What the join of the two tables has for application a.
Joined(a) ==
    {[id |-> a, name |-> apps[a].name, by |-> apps[a].by, oauth |-> o] :
        o \in IF ClientsOf(a) = {} THEN {None} ELSE {Client(r) : r \in ClientsOf(a)}}

Named(n) == {a \in Ids : apps[a] # None /\ apps[a].name = n}

\* The number of rows in the join, of which there has to be one.
Unreadable(found) ==
    Cardinality(found) > 1 \/ \E a \in found : Cardinality(ClientsOf(a)) > 1

AppRow(a) == IF apps[a] = None THEN None ELSE CHOOSE d \in Joined(a) : TRUE

-----------------------------------------------------------------------------
(* The cached store.                                                       *)

Hit(cached, d, next) ==
    /\ cached # None
    /\ d = cached
    /\ next
    /\ UNCHANGED <<appCaches, tell>>

RowOf(found) == IF found = {} THEN None ELSE AppRow(CHOOSE a \in found : TRUE)

\* A row that is read goes on to the caches; a join with several is an error.
Read(c, found, keep, d, next) ==
    /\ d = RowOf(found)
    /\ IF Unreadable(found)
       THEN Answer(c, "error") /\ UNCHANGED tell
       ELSE /\ next
            /\ tell' = IF d = None \/ ~keep THEN tell
                       ELSE [tell EXCEPT ![c] = Telling("app", None, d)]

\* A lookup finds d, the entry of the cache or the row, None if there is none;
\* then comes next.
GetApplicationByID(c, a, keep, d, next) ==
    \/ Hit(appByID[a], d, next)
    \/ /\ appByID' = [appByID EXCEPT ![a] = None]
       /\ Read(c, IF apps[a] = None THEN {} ELSE {a}, keep, d, next)
       /\ UNCHANGED <<appByName, oauthApp>>

GetApplicationByName(c, n, d, next) ==
    \/ Hit(appByName[n], d, next)
    \/ /\ appByName' = [appByName EXCEPT ![n] = None]
       /\ Read(c, Named(n), TRUE, d, next)
       /\ UNCHANGED <<appByID, oauthApp>>

\* One of the rows with client ID x.
ClientRow(x) ==
    LET rows == {r \in clients : r.client = x}
    IN  IF rows = {} THEN {None} ELSE {Client(r) : r \in rows}

\* The first of the rows with this client ID.
GetOAuthApplication(c, x, d, next) ==
    \/ Hit(oauthApp[x], d, next)
    \/ /\ oauthApp' = [oauthApp EXCEPT ![x] = None]
       /\ d \in ClientRow(x)
       /\ next
       /\ tell' = IF d = None THEN tell ELSE [tell EXCEPT ![c] = Telling("client", None, d)]
       /\ UNCHANGED <<appByID, appByName>>

OAuthOf(d) == IF d = None THEN None ELSE d.oauth

\* invalidateApplicationCache and then cacheApplication.
TellApps(t) ==
    /\ appByID' = [a \in Ids |->
          IF t.put # None /\ t.put.id = a THEN t.put
          ELSE IF t.drop # None /\ t.drop.id = a THEN None ELSE appByID[a]]
    /\ appByName' = [n \in Names |->
          IF t.put # None /\ t.put.name = n THEN t.put
          ELSE IF t.drop # None /\ t.drop.name = n THEN None ELSE appByName[n]]
    /\ oauthApp' = [x \in Clients |->
          IF OAuthOf(t.put) # None /\ t.put.oauth.client = x THEN t.put.oauth
          ELSE IF OAuthOf(t.drop) # None /\ t.drop.oauth.client = x THEN None ELSE oauthApp[x]]

TellClients(t) ==
    /\ oauthApp' = [oauthApp EXCEPT ![t.put.client] = t.put]
    /\ UNCHANGED <<appByID, appByName>>

\* Call c tells the caches what it has written or read.
TellCaches(c) ==
    /\ tell[c] # Nothing
    /\ tell' = [tell EXCEPT ![c] = Nothing]
    /\ \/ tell[c].which = "cert" /\ TellCerts(tell[c]) /\ UNCHANGED appCaches
       \/ tell[c].which = "app" /\ TellApps(tell[c]) /\ UNCHANGED certCaches
       \/ tell[c].which = "client" /\ TellClients(tell[c]) /\ UNCHANGED certCaches
    /\ UNCHANGED <<certs, apps, clients, call, failures, lost, before, seen>>

-----------------------------------------------------------------------------
(* The calls.                                                              *)

FirstStep(op) ==
    CASE op = "create" -> "byName"
      [] op = "update" -> "byID"
      [] op = "delete" -> "find"
      [] op = "get" -> "byID"
      [] op = "getClient" -> "byClient"

\* A generated ID is random: nobody asks for one that is not given yet.
Known(i) == i \in Calls => Started(i)

Begin(c, r) ==
    /\ ~Started(c)
    /\ r.op \notin {"create", "getClient"} => Known(r.app)
    /\ r.op \notin {"delete", "get"} => Known(r.client)
    /\ call' = [call EXCEPT ![c].pc = FirstStep(r.op), ![c].req = r]
    /\ before' = [before EXCEPT ![c] = {d \in Calls : Ended(d)}]
    /\ seen' = [seen EXCEPT ![c] =
          IF r.op \in {"update", "delete"}
          THEN [app |-> apps[r.app], clients |-> ClientsOf(r.app), cert |-> certs[r.app]]
          ELSE None]
    /\ UNCHANGED <<certs, certCaches, tell, failures, lost, apps, clients, appCaches>>

\* The client ID the application is to have, None for no OAuth configuration.
ClientID(c) == IF call[c].req.client = "new" THEN c ELSE call[c].req.client

\* A client ID that the request brings along is looked up, unless it is the one
\* the application has.
ChecksClient(c, existing) ==
    /\ call[c].req.client \notin {None, "new"}
    /\ OAuthOf(existing) # None => existing.oauth.client # call[c].req.client

AfterClient(c) ==
    IF call[c].req.op = "update" THEN "certOf"
    ELSE IF call[c].req.cert # None THEN "certExists" ELSE "store"

AfterName(c, existing) ==
    IF ChecksClient(c, existing) THEN "byClient" ELSE AfterClient(c)

ByName(c) ==
    /\ At(c, "byName")
    /\ \E d \in {appByName[call[c].req.name], RowOf(Named(call[c].req.name))} :
          GetApplicationByName(c, call[c].req.name, d,
             IF d = None THEN Goto(c, AfterName(c, call[c].app)) ELSE Answer(c, "conflict"))
    /\ UNCHANGED <<certs, certCaches, failures, lost, apps, clients, before, seen>>

ByClient(c) ==
    /\ At(c, "byClient")
    /\ \E d \in {oauthApp[call[c].req.client]} \cup ClientRow(call[c].req.client) :
          GetOAuthApplication(c, call[c].req.client, d,
             IF call[c].req.op = "getClient"
             THEN Answer(c, IF d = None THEN "notFound" ELSE "ok")
             ELSE IF d = None THEN Goto(c, AfterClient(c)) ELSE Answer(c, "conflict"))
    /\ UNCHANGED <<certs, certCaches, failures, lost, apps, clients, before, seen>>

\* The name is looked up if it is not the one the application has.
ByID(c) ==
    /\ At(c, "byID")
    /\ \E d \in {appByID[call[c].req.app], AppRow(call[c].req.app)} :
          GetApplicationByID(c, call[c].req.app, TRUE, d,
             IF d = None THEN Answer(c, "notFound")
             ELSE call' = [call EXCEPT ![c].app = d,
                    ![c].pc = IF call[c].req.op = "get" THEN "certOf"
                              ELSE IF d.name # call[c].req.name THEN "byName"
                              ELSE AfterName(c, d)])
    /\ UNCHANGED <<certs, certCaches, failures, lost, apps, clients, before, seen>>

\* getApplicationCertificate, and updateApplicationCertificate, which decides
\* what becomes of the certificate r the application has.
CertOf(c) ==
    /\ At(c, "certOf")
    /\ \E r \in {certByReference[About(c)], CertRow(About(c))} :
          GetCertificateByReference(c, About(c), r,
             IF call[c].req.op = "get" THEN Answer(c, "ok")
             ELSE call' = [call EXCEPT ![c].cert = r,
                    ![c].pc = IF call[c].req.cert # None
                              THEN IF r # None THEN "certByID" ELSE "certExists"
                              ELSE IF r # None THEN "certFind" ELSE "store"])
    /\ UNCHANGED <<certs, failures, lost, appVars>>

\* Fault: a certificate that was deleted is not made again.
RollbackKept(c) ==
    LET back(pc) == call' = [call EXCEPT ![c].pc = pc, ![c].undo = TRUE]
    IN  IF call[c].req.cert # None
        THEN IF call[c].cert # None THEN back("certByID") ELSE back("certFind")
        ELSE Answer(c, "error")

\* The change of the certificate is taken back: rollbackAppCertificateCreation
\* and rollbackApplicationCertificateUpdate.
Rollback(c) ==
    LET back(pc) == call' = [call EXCEPT ![c].pc = pc, ![c].undo = TRUE]
    IN  IF call[c].req.cert # None
        THEN IF call[c].cert # None THEN back("certByID") ELSE back("certFind")
        ELSE IF call[c].cert # None THEN back("certExists") ELSE Answer(c, "error")

\* The application as c stores it.
Stored(c) ==
    [id |-> About(c), name |-> call[c].req.name, by |-> c,
     oauth |-> IF ClientID(c) = None THEN None
               ELSE [client |-> ClientID(c), app |-> About(c), by |-> c]]

NewClient(c) == [row |-> c, app |-> About(c), client |-> ClientID(c), by |-> c]

\* One transaction inserts both rows.
InsertRows(c) ==
    /\ apps' = [apps EXCEPT ![c] = [name |-> call[c].req.name, by |-> c]]
    /\ clients' = clients \cup (IF ClientID(c) = None THEN {} ELSE {NewClient(c)})

CreateApplication(c) ==
    /\ InsertRows(c)
    /\ Reported(c, Answer(c, "ok"), Telling("app", None, Stored(c)), Rollback(c))

\* One transaction updates the row of the application, if it is still there, and
\* updates, deletes or inserts the one of its client: the copy that c has of the
\* application decides which.  Only the insertion needs the application's row.
Refused(c) ==
    OAuthOf(call[c].app) = None /\ ClientID(c) # None /\ apps[About(c)] = None

UpdateRows(c) ==
    LET a == About(c)
        old == OAuthOf(call[c].app)
    IN  /\ apps' = IF apps[a] = None THEN apps
                   ELSE [apps EXCEPT ![a] = [name |-> call[c].req.name, by |-> c]]
        /\ clients' =
              IF old # None /\ ClientID(c) # None
              THEN {IF r.app = a THEN [NewClient(c) EXCEPT !.row = r.row] ELSE r : r \in clients}
              ELSE IF old # None THEN {r \in clients : r.client # old.client}
              ELSE IF ClientID(c) # None THEN clients \cup {NewClient(c)} ELSE clients

UpdateApplication(c) ==
    IF Refused(c)
    THEN Rollback(c) /\ UNCHANGED <<apps, clients, tell, failures, lost>>
    ELSE /\ UpdateRows(c)
         /\ Reported(c, Answer(c, "ok"), Telling("app", call[c].app, Stored(c)), Rollback(c))

Store(c) ==
    /\ At(c, "store")
    /\ \/ call[c].req.op = "create" /\ CreateApplication(c)
       \/ call[c].req.op = "update" /\ UpdateApplication(c)
    /\ UNCHANGED <<certs, certCaches, appCaches, before, seen>>

\* Fault: the deletion ends when the application is not there.
FindOrEnd(c) ==
    /\ At(c, "find")
    /\ \E d \in {appByID[call[c].req.app], AppRow(call[c].req.app)} :
          GetApplicationByID(c, call[c].req.app, FALSE, d,
             IF d = None THEN Answer(c, "ok")
             ELSE call' = [call EXCEPT ![c].app = d, ![c].pc = "remove"])
    /\ UNCHANGED <<certs, certCaches, failures, lost, apps, clients, before, seen>>

\* The deletion reads the application for the sake of the caches.  One that is
\* not there is as good as deleted, and its certificate is deleted next.
Find(c) ==
    /\ At(c, "find")
    /\ \E d \in {appByID[call[c].req.app], AppRow(call[c].req.app)} :
          GetApplicationByID(c, call[c].req.app, FALSE, d,
             call' = [call EXCEPT ![c].app = d,
                       ![c].pc = IF d = None THEN "certFind" ELSE "remove"])
    /\ UNCHANGED <<certs, certCaches, failures, lost, apps, clients, before, seen>>

\* The rows of the clients go with the row of the application.
Remove(c) ==
    /\ At(c, "remove")
    /\ apps' = [apps EXCEPT ![About(c)] = None]
    /\ clients' = clients \ ClientsOf(About(c))
    /\ Reported(c, Goto(c, "certFind"), Telling("app", call[c].app, None), Answer(c, "error"))
    /\ UNCHANGED <<certs, certCaches, appCaches, before, seen>>

\* A query or a statement fails and is not applied.
Fails(c) ==
    /\ Running(c)
    /\ tell[c] = Nothing
    /\ failures < MaxFailures
    /\ failures' = failures + 1
    /\ IF call[c].pc = "store" THEN Rollback(c)
       ELSE IF call[c].pc \in CertSteps THEN CertFailed(c)
       ELSE Answer(c, "error")
    /\ UNCHANGED <<certs, certCaches, tell, lost, appVars>>

\* The server stops: its calls end where they are, and it starts again with
\* empty caches.
Restart ==
    /\ failures < MaxFailures
    /\ failures' = failures + 1
    /\ \E c \in Calls : Running(c)
    /\ call' = [c \in Calls |->
          IF Running(c) THEN [call[c] EXCEPT !.pc = "done", !.reply = "stopped"] ELSE call[c]]
    /\ tell' = [c \in Calls |-> Nothing]
    /\ certByID' = [i \in Ids |-> None]
    /\ certByReference' = [a \in Ids |-> None]
    /\ appByID' = [a \in Ids |-> None]
    /\ appByName' = [n \in Names |-> None]
    /\ oauthApp' = [x \in Clients |-> None]
    /\ UNCHANGED <<certs, apps, clients, lost, before, seen>>

\* The rows that are there at the start are in the caches.
Init ==
    /\ \E t \in InitialTables : apps = t.apps /\ clients = t.clients /\ certs = t.certs
    /\ certByReference = [a \in Ids |-> CertRow(a)]
    /\ certByID = [i \in Ids |-> CertRowByID(i)]
    /\ appByID = [a \in Ids |-> AppRow(a)]
    /\ appByName = [n \in Names |->
          IF Named(n) = {} THEN None ELSE AppRow(CHOOSE a \in Named(n) : TRUE)]
    /\ oauthApp = [x \in Clients |->
          IF \A r \in clients : r.client # x THEN None
          ELSE Client(CHOOSE r \in clients : r.client = x)]
    /\ call = [c \in Calls |-> Idle]
    /\ tell = [c \in Calls |-> Nothing]
    /\ failures = 0
    /\ lost = FALSE
    /\ before = [c \in Calls |-> {}]
    /\ seen = [c \in Calls |-> None]

Next ==
    \/ \E c \in Calls, r \in Requests : Begin(c, r)
    \/ \E c \in Calls :
          \/ ByName(c) \/ ByClient(c) \/ ByID(c) \/ CertOf(c)
          \/ Store(c) \/ Find(c) \/ Remove(c)
          \/ CertService(c) /\ UNCHANGED appVars
          \/ TellCaches(c)
          \/ Fails(c)
    \/ Restart

Spec == Init /\ [][Next]_vars

-----------------------------------------------------------------------------
(* Properties.                                                             *)

TypeOK ==
    /\ certs \in [Ids -> Certs \cup {None}]
    /\ apps \in [Ids -> Apps \cup {None}]
    /\ clients \subseteq ClientTable
    /\ certByID \in [Ids -> CertRows \cup {None}]
    /\ certByReference \in [Ids -> CertRows \cup {None}]
    /\ appByID \in [Ids -> AppRows \cup {None}]
    /\ appByName \in [Names -> AppRows \cup {None}]
    /\ oauthApp \in [Clients -> ClientRows \cup {None}]
    /\ \A c \in Calls :
          /\ call[c].req \in Requests \cup {None}
          /\ call[c].reply \in Replies \cup {None}
          /\ call[c].app \in AppRows \cup {None}
          /\ seen[c] \in Shots \cup {None}
          /\ {call[c].cert, call[c].found} \subseteq CertRows \cup {None}
          /\ {tell[c].drop, tell[c].put} \subseteq
                CertRows \cup AppRows \cup ClientRows \cup {None}
    \* A client row belongs to a row of an application.
    /\ \A r \in clients : apps[r.app] # None

Overlap(c, d) ==
    /\ c # d
    /\ c \in Calls /\ d \in Calls
    /\ Started(c) /\ Started(d)
    /\ c \notin before[d] /\ d \notin before[c]

Writes(c) == Started(c) /\ call[c].req.op \in {"create", "update", "delete"}

Quiet == \A c \in Calls : ~Running(c)

\* Whatever was read, written, taken back or failed: once no call is running, an
\* entry of a cache is the row it was read from, unless a call that writes met
\* another one or a write that was applied was reported as failed.  (There is no
\* lock between a row and its copies in cache_backed_store.go.)
CachesAgree ==
    Quiet /\ ~lost /\ ~(\E c, d \in Calls : Overlap(c, d) /\ Writes(c)) =>
        /\ \A a \in Ids :
              /\ appByID[a] # None => apps[a] # None /\ appByID[a] \in Joined(a)
              /\ certByReference[a] # None => certByReference[a] = CertRow(a)
              /\ certByID[a] # None => certByID[a] = CertRowByID(a)
        /\ \A n \in Names : appByName[n] # None =>
              \E a \in Named(n) : appByName[n] \in Joined(a)
        /\ \A x \in Clients : oauthApp[x] # None =>
              \E r \in clients : r.client = x /\ oauthApp[x] = Client(r)

\* A copy on which call c decided, of the application or of its certificate, was
\* not what was there when c began.
Stale(c) ==
    /\ c \in Calls
    /\ seen[c] # None
    /\ \/ /\ call[c].app # None
          /\ \/ seen[c].app # [name |-> call[c].app.name, by |-> call[c].app.by]
             \/ call[c].app.oauth = None /\ seen[c].clients # {}
             \/ call[c].app.oauth # None /\ call[c].app.oauth \notin {Client(r) : r \in seen[c].clients}
       \/ /\ call[c].cert # None
          /\ seen[c].cert # [id |-> call[c].cert.id, value |-> call[c].cert.value]

\* One of the calls of C met one of D, or relied on a stale copy.
Meet(C, D) ==
    \/ \E c \in C \cup D : Stale(c)
    \/ \E c \in C, d \in D : Overlap(c, d)

\* The calls that ask for the name of application a, and for the client of row r.
Naming(a) ==
    {c \in Calls : Writes(c) /\ call[c].req.op # "delete"
                  /\ About(c) = a /\ call[c].req.name = apps[a].name}
Registering(r) ==
    {c \in Calls : Writes(c) /\ call[c].req.op # "delete"
                  /\ About(c) = r.app /\ ClientID(c) = r.client}

\* Names differ, client IDs differ and an application has one client, though no
\* key of the tables says so: when two rows agree, calls that asked for it met,
\* or one of them relied on a stale copy (checks and writes of service.go).
RegistrationsDiffer ==
    /\ \A a, b \in Ids :
          a # b /\ apps[a] # None /\ apps[b] # None /\ apps[a].name = apps[b].name
          => Meet(Naming(a), Naming(b))
    /\ \A r, s \in clients :
          /\ r # s /\ r.app = s.app => Meet({r.row}, {s.row})
          /\ r.app # s.app /\ r.client = s.client => Meet(Registering(r), Registering(s))

\* An application that was deleted is gone with its clients and its certificate,
\* also if earlier attempts failed on the way, unless another writer met the
\* deletion or relied on a stale copy.  And a certificate without an application
\* is otherwise only left by a call that was stopped or answered with an error.
NothingLeftBehind ==
    /\ \A c \in Calls :
          Ended(c) /\ call[c].req.op = "delete" /\ call[c].reply = "ok"
          => \/ apps[About(c)] = None /\ ClientsOf(About(c)) = {} /\ certs[About(c)] = None
             \/ \E d \in Calls : Writes(d) /\ (Overlap(c, d) \/ Stale(d))
    /\ \A a \in Ids :
          Quiet /\ certs[a] # None /\ apps[a] = None =>
             \/ \E c \in Calls : Started(c) /\ call[c].req.op # "getClient" /\ About(c) = a
                                /\ \/ call[c].reply \in {"certError", "stopped"}
                                   \/ call[c].req.op = "delete" /\ call[c].reply = "error"
             \/ \E c, d \in Calls : Writes(c) /\ Writes(d) /\ Meet({c}, {d})

\* Rows and copies are whole, registrations differ, and nothing is left behind
\* by a deletion or a failed creation, other than by calls that meet, by a stale
\* copy or by a call that is answered with an error (application/service.go).
RegistrationsHold == TypeOK /\ RegistrationsDiffer /\ NothingLeftBehind

\* A creation or an update c that ends with the error of the store, its change of
\* the certificate taken back, leaves all as it was before,
\* provided that c ran on its own and on what was there.
FailedChangesNothing ==
    \A c \in Calls :
        /\ Ended(c)
        /\ Writes(c) /\ call[c].req.op # "delete"
        /\ call[c].reply = "error"
        /\ ~lost /\ ~Stale(c)
        /\ \A d \in Calls \ {c} : Started(d) /\ Writes(d) => d \in before[c]
        => IF call[c].req.op = "create"
           THEN apps[c] = None /\ certs[c] = None /\ ClientsOf(c) = {}
           ELSE /\ apps[About(c)] = seen[c].app
                /\ ClientsOf(About(c)) = seen[c].clients
                /\ (certs[About(c)] = None <=> seen[c].cert = None)
                /\ seen[c].cert # None => certs[About(c)].value = seen[c].cert.value

=============================================================================
