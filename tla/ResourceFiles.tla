--------------------------- MODULE ResourceFiles ---------------------------
(***************************************************************************)
(* Resources as files (internal/system/export, system/immutable_resource,  *)
(* and immutable_resource.go and file_based_store.go of four packages).    *)
(* One server exports what its database has, with variables in place of    *)
(* the values that differ from one deployment to the next.  Another one,   *)
(* in immutable mode, loads files at its start, with the values that its   *)
(* environment has for the variables.  The files of a directory are read   *)
(* by one goroutine each and loaded in the order in which these end.       *)
(*                                                                         *)
(* A name is the sequence of its characters, as the names of the variables *)
(* are made of it.  Other values are text that YAML reads as it was.       *)
(***************************************************************************)
EXTENDS FlowGraphs

CONSTANTS
    Capital,        \* of each lower case letter
    Digits,
    Numeral,        \* the digits of the numbers from 0 to more than there are in a list
    Deployments,    \* [database: resources, request: IDs by kind, written: files made by hand,
                    \*  environment: variables that are set besides those of what is exported]
    RequiredProps,  \* what an identity provider must have
    SchemaOUs,      \* organization units that exist where the files are loaded
    DefaultFlow,    \* ID of the default authentication flow
    Absent  \* no client, no branding

\* In the order in which their packages are initialized.
Kinds == <<"schema", "idp", "sender", "application">>

VARIABLES
    deployment,  \* the one that is started
    files,       \* in its directories
    environ,     \* the variables of its environment
    kindsLeft,   \* kinds whose directories are not read yet
    toLoad,      \* files that were read and are not loaded yet
    loaded,      \* the store of entities, by kind and ID
    refused      \* a directory cannot be read, or a file cannot be loaded

fileVars == <<deployment, files, environ, kindsLeft, toLoad, loaded, refused>>

-----------------------------------------------------------------------------
(* Variables.                                                              *)

Capitals == {Capital[l] : l \in DOMAIN Capital}
Letters == DOMAIN Capital \cup Capitals
Underscore == "_"

\* toSnakeCase: capitals only, with an underscore where a word begins.
Snake(s) ==
    LET Begins(i) ==
            /\ i > 1 /\ s[i] \in Capitals
            /\ \/ s[i - 1] \in DOMAIN Capital
               \/ s[i - 1] # Underscore /\ i < Len(s) /\ s[i + 1] \in DOMAIN Capital
        Place(i) == i + Cardinality({j \in 1..i : Begins(j)})
        At(p) == s[CHOOSE i \in DOMAIN s : p = Place(i)]
    IN  [p \in 1..Place(Len(s)) |->
            IF \A i \in DOMAIN s : p # Place(i) THEN Underscore
            ELSE IF At(p) \in DOMAIN Capital THEN Capital[At(p)] ELSE At(p)]

Underscored(name) == [i \in DOMAIN name |-> IF name[i] = " " THEN Underscore ELSE name[i]]

\* The variable for a field or a property of a resource; the names of those are snake
\* case already and stand for themselves.
With(v, name) == v \o <<Underscore, name>>
VariableName(name, field) == With(Snake(Underscored(name)), field)

\* What the patterns for variables match: fields are letters and underscores.
IsVariable(v) ==
    /\ v[1] \in Letters \cup {Underscore}
    /\ \A i \in 1..(Len(v) - 1) : v[i] \in Letters \cup Digits \cup {Underscore}

Text(t) == [text |-> t, var |-> <<>>]
Var(v) == [text |-> "", var |-> v]
Texts(s) == [texts |-> s, var |-> <<>>]
Each(v) == [texts |-> <<>>, var |-> v]

-----------------------------------------------------------------------------
(* The export.                                                             *)

\* sanitizeFileName, with a name of its own for those that nothing is left of.
FileName(name) ==
    LET Stays(c) == c \in Letters \cup Digits \cup {"-", Underscore}
        kept == SelectSeq(Underscored(name), Stays)
    IN  IF kept = <<>> THEN <<"resource">> ELSE kept

\* ToParameterizedYAML under the rules of the kind.  GetApplication knows no secret, a
\* schema is written as the bytes of its definition.
Export(r) ==
    CASE r.kind = "application" /\ r.client # Absent ->
            [r EXCEPT !.client =
                [id |-> Var(VariableName(r.name, "CLIENT_ID")),
                 secret |-> Var(VariableName(r.name, "CLIENT_SECRET")),
                 uris |-> Each(VariableName(r.name, "REDIRECT_URIS")),
                 public |-> @.public]]
      [] r.kind \in {"idp", "sender"} ->
            [r EXCEPT !.props = [p \in DOMAIN @ |->
                [value |-> Var(VariableName(r.name, p)), secret |-> @[p].secret]]]
      [] r.kind = "schema" -> [r EXCEPT !.definition = "bytes"]
      [] OTHER -> r

\* "*" asks for all; for the schemas limit and offset change places, and none are found.
Requested(d) ==
    {r \in d.database :
        /\ r.name # <<>>
        /\ \/ r.id \in d.request[r.kind]
           \/ d.request[r.kind] = {"*"} /\ r.kind # "schema"}

\* The exported files that are left when those with the same name overwrite each other.
SavedAs(f) == <<f.kind, FileName(f.name)>>
Saved(fs) ==
    {kept \in SUBSET fs : /\ {SavedAs(f) : f \in kept} = {SavedAs(f) : f \in fs}
                          /\ Cardinality(kept) = Cardinality({SavedAs(f) : f \in fs})}

\* The variables that a resource was exported with, and their values.
Indexed(v, i) == With(v, Numeral[i])
ValuesOf(r) ==
    CASE r.kind = "application" /\ r.client # Absent ->
            LET id == VariableName(r.name, "CLIENT_ID")
                secret == VariableName(r.name, "CLIENT_SECRET")
                At(i) == Indexed(VariableName(r.name, "REDIRECT_URIS"), i - 1)
            IN  [v \in {id, secret} \cup {At(i) : i \in DOMAIN r.client.uris} |->
                    CASE v = id -> r.client.id
                      [] v = secret -> r.client.secret
                      [] OTHER -> r.client.uris[CHOOSE i \in DOMAIN r.client.uris : v = At(i)]]
      [] r.kind \in {"idp", "sender"} ->
            [v \in {VariableName(r.name, p) : p \in DOMAIN r.props} |->
                r.props[CHOOSE p \in DOMAIN r.props : v = VariableName(r.name, p)].value]
      [] OTHER -> << >>

\* The environment of the other server: where two resources have a variable, one of them
\* gives it its value.
Environment(d) ==
    LET Set(v) == {r \in Requested(d) : v \in DOMAIN ValuesOf(r)}
    IN  [v \in DOMAIN d.environment \cup UNION {DOMAIN ValuesOf(r) : r \in Requested(d)} |->
            IF v \in DOMAIN d.environment THEN d.environment[v]
            ELSE ValuesOf(CHOOSE r \in Set(v) : TRUE)[v]]

-----------------------------------------------------------------------------
(* The loader.                                                             *)

Variables(f) ==
    CASE f.kind = "application" /\ f.client # Absent ->
            {f.client.id.var, f.client.secret.var} \ {<<>>}
      [] f.kind \in {"idp", "sender"} -> {f.props[p].value.var : p \in DOMAIN f.props} \ {<<>>}
      [] OTHER -> {}

Ranges(f) ==
    IF f.kind = "application" /\ f.client # Absent THEN {f.client.uris.var} \ {<<>>} ELSE {}

\* substituteEnvironmentVariables and the parsers: a variable that is not set is an
\* error; one that is no variable stays as it is, which is no YAML, and neither are
\* bytes a definition.
Readable(f) ==
    /\ \A v \in Variables(f) \cup Ranges(f) : IsVariable(v)
    /\ Variables(f) \subseteq DOMAIN environ
    /\ f.kind = "schema" => f.definition # "bytes"

\* Fault: elements are counted from one.
ElementsFromOne(v) ==
    LET Ends(i) == LET e == Indexed(v, i) IN e \notin DOMAIN environ \/ environ[e] = ""
        n == CHOOSE n \in DOMAIN Numeral \ {0} :
                Ends(n) /\ \A i \in 1..(n - 1) : ~Ends(i)
    IN  [i \in 1..(n - 1) |-> environ[Indexed(v, i)]]

\* buildArrayFromEnvVars: up to an element that is empty or not set.
Elements(v) ==
    LET Ends(i) == LET e == Indexed(v, i) IN e \notin DOMAIN environ \/ environ[e] = ""
        n == CHOOSE n \in DOMAIN Numeral :
                Ends(n) /\ \A i \in 0..(n - 1) : ~Ends(i)
    IN  [i \in 1..n |-> environ[Indexed(v, i - 1)]]

Value(t) == IF t.var = <<>> THEN t.text ELSE environ[t.var]

\* A generated ID or secret is like no other: it is told from the name.
Given(t, name) == IF t = "" THEN ToString(name) ELSE t

\* What a file says once it is parsed and has its defaults.  What branding stands for
\* (template, policies, contacts, certificate, scopes of the client) is not taken over.
Parsed(f) ==
    CASE f.kind = "application" ->
            [f EXCEPT !.id = Given(@, f.name), !.branding = Absent,
                      !.flow = IF @ = "" THEN DefaultFlow ELSE @,
                      !.client = IF @ = Absent THEN Absent
                                 ELSE [id |-> Given(Value(@.id), f.name),
                                       secret |-> IF @.public THEN Value(@.secret)
                                                  ELSE Given(Value(@.secret), f.name),
                                       uris |-> IF @.uris.var = <<>> THEN @.uris.texts
                                                ELSE Elements(@.uris.var),
                                       public |-> @.public]]
      [] f.kind \in {"idp", "sender"} ->
            [f EXCEPT !.props = [p \in DOMAIN @ |->
                [value |-> Value(@[p].value), secret |-> @[p].secret]]]
      [] OTHER -> f

Stored(kind) == {loaded[k] : k \in {k \in DOMAIN loaded : k[1] = kind}}

\* ValidateApplication, as far as it depends on anything but the file.
ValidApplication(r) ==
    /\ \A a \in Stored("application") :
          /\ a.name # r.name
          /\ a.client # Absent /\ r.client # Absent => a.client.id # r.client.id
    /\ r.client # Absent => r.client.uris # <<>> /\ (r.client.public => r.client.secret = "")
    /\ r.flow = DefaultFlow \/ r.flow \in DOMAIN graphs
    /\ r.types \subseteq {s.name : s \in Stored("schema")}

Valid(r) ==
    /\ r.name # <<>> /\ r.id # ""
    /\ CASE r.kind = "schema" -> r.ou \in SchemaOUs
         [] r.kind = "idp" -> /\ RequiredProps \subseteq DOMAIN r.props
                              /\ \A p \in DOMAIN r.props : r.props[p].value # ""
         [] r.kind = "application" -> ValidApplication(r)
         [] OTHER -> TRUE

FilesInit ==
    /\ deployment \in Deployments
    /\ \E kept \in Saved({Export(r) : r \in Requested(deployment)}) :
          files = kept \cup deployment.written
    /\ environ = Environment(deployment)
    /\ kindsLeft = Kinds
    /\ toLoad = {}
    /\ loaded = << >>
    /\ refused = FALSE

\* GetConfigs: all files of a directory are read before the first is loaded.
ReadDirectory ==
    /\ toLoad = {} /\ kindsLeft # <<>> /\ ~refused
    /\ LET found == {f \in files : f.kind = Head(kindsLeft)}
       IN  IF \A f \in found : Readable(f)
           THEN toLoad' = found /\ UNCHANGED refused
           ELSE refused' = TRUE /\ UNCHANGED toLoad
    /\ kindsLeft' = Tail(kindsLeft)
    /\ UNCHANGED <<deployment, files, environ, loaded>>

\* loadSingleResource: an entity with the same ID is replaced.
LoadFile(f) ==
    /\ f \in toLoad
    /\ LET r == Parsed(f)
       IN  IF Valid(r)
           THEN /\ loaded' = Put(loaded, <<r.kind, r.id>>, r)
                /\ toLoad' = toLoad \ {f}
                /\ UNCHANGED refused
           ELSE refused' = TRUE /\ toLoad' = {} /\ UNCHANGED loaded
    /\ UNCHANGED <<deployment, files, environ, kindsLeft>>

-----------------------------------------------------------------------------
(* What the services keep in a database, and what is set besides.          *)

SoundClient(client) ==
    /\ client = [id |-> client.id, secret |-> client.secret, uris |-> client.uris,
                 public |-> client.public]
    /\ client.public \in BOOLEAN /\ (client.secret = "" <=> client.public) /\ client.id # ""
    /\ client.uris \in Seq(STRING) \ {<<>>} /\ "" \notin ToSet(client.uris)
    /\ Len(client.uris) \in DOMAIN Numeral

SoundProps(props) ==
    /\ props = [p \in DOMAIN props |-> [value |-> props[p].value, secret |-> props[p].secret]]
    /\ \A p \in DOMAIN props : props[p].value # "" /\ \A i \in DOMAIN Numeral : p # Numeral[i]

Sound(r) ==
    /\ r = [field \in DOMAIN r |-> r[field]] /\ r.id # "" /\ r.name \in Seq(STRING)
    /\ r.kind = "application" =>
          /\ {"client", "types", "flow", "branding"} \subseteq DOMAIN r /\ r.flow # ""
          /\ r.client # Absent => SoundClient(r.client) /\ Export(r).client # Absent
    /\ r.kind \in {"idp", "sender"} => "props" \in DOMAIN r /\ SoundProps(r.props)
    /\ r.kind = "idp" => RequiredProps \subseteq DOMAIN r.props

\* IDs and client IDs are unique, no generated ID is that of a resource, and the
\* variables of an export are set for it only.
ASSUME ResourcesAssumption ==
    /\ \E n \in DOMAIN Numeral : DOMAIN Numeral = 0..n
    /\ IsInjective(Numeral)
    /\ \A i \in DOMAIN Numeral : Numeral[i] \notin {"CLIENT_ID", "CLIENT_SECRET", "REDIRECT_URIS"}
    /\ \A d \in Deployments :
          /\ \A r \in d.database \cup d.written :
                {"kind", "id", "name"} \subseteq DOMAIN r /\ r.kind \in ToSet(Kinds)
          /\ \A r \in d.database : Sound(r) /\ \A f \in d.written : Given("", f.name) # r.id
          /\ \A r, s \in d.database : r.kind = s.kind /\ r # s =>
                /\ r.id # s.id
                /\ r.kind = "application" /\ r.client # Absent /\ s.client # Absent =>
                      r.client.id # s.client.id
          /\ \A r \in Requested(d) : \A v \in DOMAIN d.environment :
                /\ v \notin Variables(Export(r))
                /\ \A range \in Ranges(Export(r)), i \in DOMAIN Numeral : v # Indexed(range, i)

-----------------------------------------------------------------------------
(* Properties.                                                             *)

Loadable == {r \in Requested(deployment) : r.kind # "schema"}

\* Names that the export can tell apart, and that its variables can have.
Separate ==
    LET Vars(r) == Variables(Export(r)) \cup Ranges(Export(r))
    IN  /\ \A r \in Loadable : \A v \in Vars(r) : IsVariable(v)
        /\ \A r, s \in Loadable : r # s =>
              Vars(r) \cap Vars(s) = {} /\ SavedAs(Export(r)) # SavedAs(Export(s))

\* What comes back of a resource.
Kept(r) == IF r.kind = "application" THEN [r EXCEPT !.branding = Absent] ELSE r

\* The files made by hand are sound user types with IDs of their own, and with what was
\* exported they say all that is referred to.
Supported ==
    LET types == deployment.written
    IN  /\ \A f \in types : /\ f.kind = "schema" /\ f.definition # "bytes"
                              /\ f.ou \in SchemaOUs /\ f.id # "" /\ f.name # <<>>
        /\ \A f, g \in types : f.id = g.id => f = g
        /\ Loadable = Requested(deployment)
        /\ \A r \in Loadable : r.kind = "application" =>
              /\ r.types \subseteq {f.name : f \in types}
              /\ kindsLeft = <<>> => r.flow \in DOMAIN graphs

\* What was exported is there again when all files are loaded, in whichever order: with
\* every property, secret and redirect URI, unless a file made by hand has its ID.  And
\* it is loaded, if what it refers to is there.
ExportsComeBack ==
    Separate =>
        /\ Supported => ~refused
        /\ kindsLeft = <<>> /\ toLoad = {} /\ ~refused =>
              \A r \in Loadable :
                  \/ <<r.kind, r.id>> \in DOMAIN loaded /\ loaded[<<r.kind, r.id>>] = Kept(r)
                  \/ \E f \in deployment.written : f.kind = r.kind /\ f.id = r.id

\* The store of files has no constraints, and no administrator has looked at the files:
\* still an application leads to flows and user types that are there, and no two of
\* them have the same name or client ID.
LoadedHolds ==
    LET apps == Stored("application")
    IN  /\ \A a \in apps : /\ a.types \subseteq {s.name : s \in Stored("schema")}
                           /\ a.flow \in DOMAIN graphs
        /\ \A a, b \in apps : a # b =>
              /\ a.name # b.name
              /\ a.client # Absent /\ b.client # Absent => a.client.id # b.client.id
=============================================================================
