---------------------------- MODULE Registries ----------------------------
(***************************************************************************)
(* Identity providers (internal/idp), notification senders                 *)
(* (internal/notification) and brandings (internal/branding) with the      *)
(* applications that use them.  No key of the tables keeps the names of    *)
(* identity providers, or those of senders, apart.                         *)
(*                                                                         *)
(* Properties of providers and senders, preferences of brandings and the   *)
(* rest of an application decide only whether a request is refused before  *)
(* anything is read; requests here have passed those checks.               *)
(***************************************************************************)
EXTENDS ConfigDB

RegistryOps ==
    {"createIdp", "updateIdp", "deleteIdp", "getIdp",
     "createSender", "updateSender", "deleteSender"}
BrandingOps == {"createBranding", "updateBranding", "deleteBranding"}

\* A call on the registries begins with this step.
FirstRegistryStep(req) ==
    CASE req.op \in {"createIdp", "createSender"} -> "byName"
      [] req.op \in {"updateIdp", "deleteIdp", "getIdp", "updateSender"} -> "byID"
      [] req.op \in {"deleteSender", "createBranding", "updateBranding"} -> "write"
      [] req.op = "deleteBranding" -> "exists"
      [] req.op = "brandApp" -> IF req.branding = None THEN "write" ELSE "exists"
      [] req.op = "resolve" -> "app"

\* In immutable mode writes are refused before anything else.
Refused(req) ==
    /\ db.immutable
    /\ req.op \in (RegistryOps \ {"getIdp"}) \cup {"defineType"}

-----------------------------------------------------------------------------
(* Identity providers.                                                     *)

WithName(table, name) == {i \in Present(table) : db[table][i].name = name}

\* An update looks the name up only if it is not the one the provider has.
IdpKeepsName(c) == Asks(c, {"updateIdp"}) /\ call[c].row.name = call[c].req.name

IdpByID(c) ==
    LET row == db.idps[call[c].req.id]
    IN  /\ At(c, "byID")
        /\ IF row = None
           THEN Answer(c, IF Asks(c, {"deleteIdp"}) THEN "ok" ELSE "notFound")
           ELSE IF Asks(c, {"getIdp"}) THEN Answer(c, "ok")
           ELSE call' = [call EXCEPT ![c].row = row,
                  ![c].pc = IF Asks(c, {"deleteIdp"}) THEN "write" ELSE "byName"]
        /\ UNCHANGED db

\* Several rows with the name are an error of the store.
IdpByName(c) ==
    LET found == WithName("idps", call[c].req.name)
    IN  /\ At(c, "byName")
        /\ IF IdpKeepsName(c) \/ found = {} THEN Goto(c, "write")
           ELSE Answer(c, IF Cardinality(found) > 1 THEN "failed" ELSE "conflict")
        /\ UNCHANGED db

NamedBy(c, table, i) ==
    IF db[table][i] # None /\ db[table][i].name = call[c].req.name
    THEN db[table][i].named ELSE c

IdpRow(c, i) == [name |-> call[c].req.name, named |-> NamedBy(c, "idps", i)]

InsertIdp(c) ==
    /\ At(c, "write")
    /\ Write(c, TRUE, TRUE, With("idps", c, IdpRow(c, c)))

StoreIdp(c) ==
    /\ At(c, "write")
    /\ Write(c, TRUE, TRUE, Replaced("idps", call[c].req.id, IdpRow(c, call[c].req.id)))

RemoveIdp(c) ==
    /\ At(c, "write")
    /\ Write(c, TRUE, TRUE, Without("idps", call[c].req.id))

-----------------------------------------------------------------------------
(* Notification senders.                                                   *)

SenderByID(c) ==
    LET row == db.senders[call[c].req.id]
    IN  /\ At(c, "byID")
        /\ IF row = None THEN Answer(c, "notFound")
           ELSE call' = [call EXCEPT ![c].row = row, ![c].pc = "byName"]
        /\ UNCHANGED db

\* The name is looked up if it is new, and then the type may not change.
SenderByName(c) ==
    LET req == call[c].req
        found == WithName("senders", req.name)
        updates == req.op = "updateSender"
    IN  /\ At(c, "byName")
        /\ IF updates /\ call[c].row.name = req.name
           THEN IF call[c].row.type # req.type THEN Answer(c, "refused") ELSE Goto(c, "write")
           ELSE IF Cardinality(found) > 1 THEN Answer(c, "failed")
           ELSE IF ~(found \subseteq (IF updates THEN {req.id} ELSE {})) THEN Answer(c, "conflict")
           ELSE IF updates /\ call[c].row.type # req.type THEN Answer(c, "refused")
           ELSE Goto(c, "write")
        /\ UNCHANGED db

SenderRow(c, i) ==
    [name |-> call[c].req.name, type |-> call[c].req.type, named |-> NamedBy(c, "senders", i)]

InsertSender(c) ==
    /\ At(c, "write")
    /\ Write(c, TRUE, TRUE, With("senders", c, SenderRow(c, c)))

\* The statement asks for the type, too.
StoreSender(c) ==
    LET i == call[c].req.id
    IN  /\ At(c, "write")
        /\ Write(c, TRUE, TRUE,
              IF db.senders[i] # None /\ db.senders[i].type # call[c].req.type THEN db
              ELSE Replaced("senders", i, SenderRow(c, i)))

RemoveSender(c) ==
    /\ At(c, "write")
    /\ Write(c, TRUE, TRUE, Without("senders", call[c].req.id))

-----------------------------------------------------------------------------
(* Brandings, and the applications that use them.                          *)

InsertBranding(c) ==
    /\ At(c, "write")
    /\ Write(c, TRUE, TRUE, With("brandings", c, [content |-> c]))

\* No row is updated: the branding is not there.
StoreBranding(c) ==
    LET i == call[c].req.branding
    IN  /\ At(c, "write")
        /\ IF db.brandings[i] = None THEN Answer(c, "notFound") /\ UNCHANGED db
           ELSE Write(c, TRUE, TRUE, Replaced("brandings", i, [content |-> c]))

\* IsBrandingExist, for a deletion and for an application that is to use it.
BrandingExists(c) ==
    /\ At(c, "exists")
    /\ Check(c, db.brandings[call[c].req.branding] # None,
          IF Asks(c, {"deleteBranding"}) THEN "ok" ELSE "notFound",
          IF Asks(c, {"deleteBranding"}) THEN "inUse" ELSE "write")

ApplicationsOf(i) == {a \in Present("apps") : db.apps[a].branding = i}

BrandingInUse(c) ==
    /\ At(c, "inUse")
    /\ Check(c, ApplicationsOf(call[c].req.branding) = {}, "refused", "write")

\* Fault: a branding is deleted whatever uses it.
DropBranding(c) ==
    /\ At(c, "write")
    /\ Write(c, TRUE, TRUE, Without("brandings", call[c].req.branding))

RemoveBranding(c) ==
    LET i == call[c].req.branding
    IN  /\ At(c, "write")
        /\ Write(c, TRUE, ~ReferringTo("brandings", i), Without("brandings", i))

\* The application service updates an application with a branding, or without.
StoreApplication(c) ==
    LET req == call[c].req
    IN  /\ At(c, "write")
        /\ Write(c, TRUE, req.branding = None \/ db.brandings[req.branding] # None,
              Replaced("apps", req.app, [branding |-> req.branding]))

\* ResolveBranding reads the application, then its branding.
GetApplication(c) ==
    LET row == db.apps[call[c].req.app]
    IN  /\ At(c, "app")
        /\ IF row = None THEN Answer(c, "notFound")
           ELSE IF row.branding = None THEN Answer(c, "notFound")
           ELSE call' = [call EXCEPT ![c].row = row, ![c].pc = "branding"]
        /\ UNCHANGED db

GetBranding(c) ==
    /\ At(c, "branding")
    /\ Answer(c, IF db.brandings[call[c].row.branding] = None THEN "dangling" ELSE "ok")
    /\ UNCHANGED db

-----------------------------------------------------------------------------
(* The operations.                                                         *)

CreateIdentityProvider(c) == Asks(c, {"createIdp"}) /\ (IdpByName(c) \/ InsertIdp(c))
UpdateIdentityProvider(c) ==
    Asks(c, {"updateIdp"}) /\ (IdpByID(c) \/ IdpByName(c) \/ StoreIdp(c))
DeleteIdentityProvider(c) == Asks(c, {"deleteIdp"}) /\ (IdpByID(c) \/ RemoveIdp(c))
GetIdentityProvider(c) == Asks(c, {"getIdp"}) /\ IdpByID(c)

CreateSender(c) == Asks(c, {"createSender"}) /\ (SenderByName(c) \/ InsertSender(c))
UpdateSender(c) ==
    Asks(c, {"updateSender"}) /\ (SenderByID(c) \/ SenderByName(c) \/ StoreSender(c))
DeleteSender(c) == Asks(c, {"deleteSender"}) /\ RemoveSender(c)

CreateBranding(c) == Asks(c, {"createBranding"}) /\ InsertBranding(c)
UpdateBranding(c) == Asks(c, {"updateBranding"}) /\ StoreBranding(c)
DeleteBranding(c) ==
    Asks(c, {"deleteBranding"}) /\ (BrandingExists(c) \/ BrandingInUse(c) \/ RemoveBranding(c))
BrandApplication(c) == Asks(c, {"brandApp"}) /\ (BrandingExists(c) \/ StoreApplication(c))
ResolveBranding(c) == Asks(c, {"resolve"}) /\ (GetApplication(c) \/ GetBranding(c))

RegistryService(c) ==
    \/ CreateIdentityProvider(c) \/ UpdateIdentityProvider(c) \/ DeleteIdentityProvider(c)
    \/ GetIdentityProvider(c)
    \/ CreateSender(c) \/ UpdateSender(c) \/ DeleteSender(c)
    \/ CreateBranding(c) \/ UpdateBranding(c) \/ DeleteBranding(c)
    \/ BrandApplication(c) \/ ResolveBranding(c)

=============================================================================
