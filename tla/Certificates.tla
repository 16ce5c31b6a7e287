---------------------------- MODULE Certificates ----------------------------
(***************************************************************************)
(* The certificate service (internal/cert) behind its two caches, as far   *)
(* as the application service uses it, and the course of the calls of the  *)
(* application service.                                                    *)
(*                                                                         *)
(* A call has a goroutine of its own, and each query or statement it sends *)
(* is one step.  What it then tells the caches, the entries to drop and    *)
(* the one to keep, is a step of its own: other calls come in between.  A  *)
(* cache may have forgotten any entry (CacheSpec), so a lookup may miss    *)
(* what is there, and has then removed it.                                 *)
(***************************************************************************)
EXTENDS Naturals, FiniteSets

CONSTANTS
    Calls,
    First,          \* stands for the calls that made what is there at the start
    None,
    MaxFailures     \* bound: the queries that fail and the stops of the server

\* Applications, certificates and generated client IDs are named after the call
\* that makes them.
Ids == Calls \cup {First}

VARIABLES
    certs,                          \* table CERTIFICATE, by the ID of the application
    certByID, certByReference,      \* the caches
    call,           \* where each call is and what it has in hand
    tell,           \* what each call is about to tell the caches
    failures,
    lost            \* history: a statement was applied and reported as failed

certCaches == <<certByID, certByReference>>

\* Fields: pc, the next step; req, what is asked for; app and cert, the application
\* and the certificate the call has read as they were; found, the certificate
\* it is about to delete; undo, whether it takes back its change; reply.
Idle == [pc |-> "idle", req |-> None, app |-> None, cert |-> None, found |-> None,
         undo |-> FALSE, reply |-> None]

\* For the caches of which, the value whose entries go and the one that is kept.
Telling(which, drop, put) == [which |-> which, drop |-> drop, put |-> put]
Nothing == Telling(None, None, None)

Started(c) == call[c].pc # "idle"
Ended(c) == call[c].pc = "done" /\ tell[c] = Nothing
Running(c) == Started(c) /\ ~Ended(c)

At(c, pc) == call[c].pc = pc /\ tell[c] = Nothing

Goto(c, pc) == call' = [call EXCEPT ![c].pc = pc]

Answer(c, reply) == call' = [call EXCEPT ![c].pc = "done", ![c].reply = reply]

\* The application that call c is about: a new one has an ID of its own.
About(c) == IF call[c].req.op = "create" THEN c ELSE call[c].req.app

\* The result of a statement that was applied: c goes on and tells the caches,
\* or it is told that the statement failed.
Reported(c, done, telling, failed) ==
    \/ /\ done
       /\ tell' = [tell EXCEPT ![c] = telling]
       /\ UNCHANGED <<failures, lost>>
    \/ /\ failures < MaxFailures
       /\ failures' = failures + 1
       /\ lost' = TRUE
       /\ failed
       /\ UNCHANGED tell

-----------------------------------------------------------------------------
(* The cached store.                                                       *)

CertRow(a) ==
    IF certs[a] = None THEN None
    ELSE [id |-> certs[a].id, ref |-> a, value |-> certs[a].value]

CertRowByID(i) ==
    IF \E a \in Ids : certs[a] # None /\ certs[a].id = i
    THEN CertRow(CHOOSE a \in Ids : certs[a] # None /\ certs[a].id = i)
    ELSE None

\* A lookup finds r, the entry of the cache or the row (None if there is none),
\* which a read puts into the caches; then comes next.
HitCert(cached, r) ==
    /\ cached # None
    /\ r = cached
    /\ UNCHANGED <<certCaches, tell>>

KeepCert(c, r) ==
    tell' = [tell EXCEPT ![c] = IF r = None THEN Nothing ELSE Telling("cert", None, r)]

GetCertificateByReference(c, a, r, next) ==
    /\ next
    /\ \/ HitCert(certByReference[a], r)
       \/ /\ r = CertRow(a)
          /\ certByReference' = [certByReference EXCEPT ![a] = None]
          /\ KeepCert(c, r)
          /\ UNCHANGED certByID

GetCertificateByID(c, i, r, next) ==
    /\ next
    /\ \/ HitCert(certByID[i], r)
       \/ /\ r = CertRowByID(i)
          /\ certByID' = [certByID EXCEPT ![i] = None]
          /\ KeepCert(c, r)
          /\ UNCHANGED certByReference

\* Before a deletion the store looks for the certificate itself.
FindCertificate(c, a, r, next) ==
    /\ next
    /\ \/ HitCert(certByReference[a], r)
       \/ /\ r = CertRow(a)
          /\ certByReference' = [certByReference EXCEPT ![a] = None]
          /\ UNCHANGED <<certByID, tell>>

\* Fault: the cache by reference keeps what was dropped.
TellCertsByID(t) ==
    /\ certByID' = [i \in Ids |->
          IF t.put # None /\ t.put.id = i THEN t.put
          ELSE IF t.drop # None /\ t.drop.id = i THEN None ELSE certByID[i]]
    /\ certByReference' = [a \in Ids |->
          IF t.put # None /\ t.put.ref = a THEN t.put ELSE certByReference[a]]

\* invalidateCertificateCache and then cacheCertificate.
TellCerts(t) ==
    /\ certByID' = [i \in Ids |->
          IF t.put # None /\ t.put.id = i THEN t.put
          ELSE IF t.drop # None /\ t.drop.id = i THEN None ELSE certByID[i]]
    /\ certByReference' = [a \in Ids |->
          IF t.put # None /\ t.put.ref = a THEN t.put
          ELSE IF t.drop # None /\ t.drop.ref = a THEN None ELSE certByReference[a]]

-----------------------------------------------------------------------------
(* The operations of the service.  A call that fails in one of them is     *)
(* answered with an error about the certificate; otherwise the call goes   *)
(* on, and one that was taking back its change is answered now.            *)

CertFailed(c) == Answer(c, "certError")

AfterCert(c) ==
    IF call[c].undo THEN Answer(c, "error")
    ELSE IF call[c].req.op = "delete" THEN Answer(c, "ok")
    ELSE Goto(c, "store")

\* The certificate that c wants its application to have.
Wanted(c) ==
    [id |-> IF call[c].cert = None THEN c ELSE call[c].cert.id,
     ref |-> About(c),
     value |-> IF call[c].undo THEN call[c].cert.value ELSE call[c].req.cert]

\* CreateCertificate: one for the same reference must not exist, and the key of
\* the table sees to it.
CertExists(c) ==
    /\ At(c, "certExists")
    /\ \E r \in {certByReference[About(c)], CertRow(About(c))} :
          GetCertificateByReference(c, About(c), r,
             IF r = None THEN Goto(c, "certInsert") ELSE CertFailed(c))
    /\ UNCHANGED <<certs, failures, lost>>

CertInsert(c) ==
    /\ At(c, "certInsert")
    /\ LET new == [Wanted(c) EXCEPT !.id = c]
       IN  IF certs[new.ref] = None
           THEN /\ certs' = [certs EXCEPT ![new.ref] = [id |-> new.id, value |-> new.value]]
                /\ Reported(c, AfterCert(c), Telling("cert", None, new), CertFailed(c))
           ELSE CertFailed(c) /\ UNCHANGED <<certs, tell, failures, lost>>
    /\ UNCHANGED certCaches

\* UpdateCertificateByID: the certificate is looked up again, by its ID.  Its
\* reference is the same, as IDs are never given twice.
CertByID(c) ==
    /\ At(c, "certByID")
    /\ \E r \in {certByID[call[c].cert.id], CertRowByID(call[c].cert.id)} :
          GetCertificateByID(c, call[c].cert.id, r,
             IF r = None THEN CertFailed(c) ELSE Goto(c, "certUpdate"))
    /\ UNCHANGED <<certs, failures, lost>>

CertUpdate(c) ==
    /\ At(c, "certUpdate")
    /\ LET new == Wanted(c)
       IN  IF CertRowByID(new.id) # None
           THEN /\ certs' = [certs EXCEPT ![new.ref] = [id |-> new.id, value |-> new.value]]
                /\ Reported(c, AfterCert(c), Telling("cert", new, new), CertFailed(c))
           ELSE CertFailed(c) /\ UNCHANGED <<certs, tell, failures, lost>>
    /\ UNCHANGED certCaches

\* DeleteCertificateByReference.
CertFind(c) ==
    /\ At(c, "certFind")
    /\ \E r \in {certByReference[About(c)], CertRow(About(c))} :
          FindCertificate(c, About(c), r,
             IF r = None THEN AfterCert(c)
             ELSE call' = [call EXCEPT ![c].pc = "certDelete", ![c].found = r])
    /\ UNCHANGED <<certs, failures, lost>>

CertDelete(c) ==
    /\ At(c, "certDelete")
    /\ certs' = [certs EXCEPT ![About(c)] = None]
    /\ Reported(c, AfterCert(c), Telling("cert", call[c].found, None), CertFailed(c))
    /\ UNCHANGED certCaches

CertSteps == {"certOf", "certExists", "certInsert", "certByID", "certUpdate", "certFind", "certDelete"}

CertService(c) ==
    \/ CertExists(c) \/ CertInsert(c)
    \/ CertByID(c) \/ CertUpdate(c)
    \/ CertFind(c) \/ CertDelete(c)

=============================================================================
