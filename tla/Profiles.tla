------------------------------ MODULE Profiles ------------------------------
(***************************************************************************)
(* The attributes of users and the definition of their type                *)
(* (internal/userschema/model, the stores and services of internal/user    *)
(* and internal/userschema): what a definition is compiled to, what it     *)
(* accepts, and how the users that have a value already are found, in the  *)
(* table of indexed attributes or in the JSON of the attributes.           *)
(*                                                                         *)
(* A property is a function from the fields that are given.  A value has a *)
(* kind and, an object, the values of its names or, an array, its items;   *)
(* others have a text, the one they are indexed by.  There is one type of  *)
(* users; organization units, credentials and the steps of other calls on  *)
(* users are in module UserStore.                                          *)
(***************************************************************************)
EXTENDS ConfigDB

CONSTANTS
    Indexed,        \* names of attributes that are indexed
    Properties,     \* the properties of definitions, and those below them
    Values          \* the values of attributes, and those in them

Lacks(p, field) == field \notin DOMAIN p

ASSUME ProfilesAssumption ==
    /\ \A p \in Properties :
          /\ Lacks(p, "properties") \/ \A n \in DOMAIN p.properties : p.properties[n] \in Properties
          /\ Lacks(p, "items") \/ p.items \in Properties
    /\ \A v \in Values :
          /\ v.kind = "object" => \A n \in DOMAIN v.of : v.of[n] \in Values
          /\ v.kind = "array" => ToSet(v.items) \subseteq Values

-----------------------------------------------------------------------------
(* Compilation: CompileUserSchema and the function of each kind.           *)

Only(p, fields) == DOMAIN p \subseteq {"type", "required"} \cup fields
EnumOK(p) == Lacks(p, "enum") \/ p.enum # {}

PatternOK(p) == Lacks(p, "regex") \/ Lacks(p, "pattern")

CompilesString(p) ==
    /\ Only(p, {"unique", "enum", "regex", "pattern"})
    /\ EnumOK(p) /\ PatternOK(p)

CompilesNumber(p) == Only(p, {"unique", "enum"}) /\ EnumOK(p)
CompilesBoolean(p) == Only(p, {})

CompilesObject(p, compiles) ==
    /\ Only(p, {"properties"})
    /\ ~Lacks(p, "properties")
    /\ \A n \in DOMAIN p.properties : compiles[p.properties[n]]

CompilesArray(p, compiles) ==
    Only(p, {"items"}) /\ ~Lacks(p, "items") /\ compiles[p.items]

Compiles[p \in Properties] ==
    /\ ~Lacks(p, "type")
    /\ CASE p.type = "string" -> CompilesString(p)
         [] p.type = "number" -> CompilesNumber(p)
         [] p.type = "boolean" -> CompilesBoolean(p)
         [] p.type = "object" -> CompilesObject(p, Compiles)
         [] p.type = "array" -> CompilesArray(p, Compiles)
         [] OTHER -> FALSE

CompilesSchema(definition) ==
    /\ DOMAIN definition # {}
    /\ \A n \in DOMAIN definition : Compiles[definition[n]]

-----------------------------------------------------------------------------
(* Validation: Schema.Validate and validateValue of each kind.             *)

Flag(p, field) == ~Lacks(p, field) /\ p[field]
InEnum(p, v) == Lacks(p, "enum") \/ v.text \in p.enum

\* A pattern is the set of the texts that match it.
StringValid(p, v) ==
    /\ v.kind = "string" /\ InEnum(p, v)
    /\ \A field \in {"regex", "pattern"} : Lacks(p, field) \/ v.text \in p[field]

NumberValid(p, v) == v.kind = "number" /\ InEnum(p, v)
BooleanValid(v) == v.kind = "boolean"

\* Below an attribute, null is passed over.
ObjectValid(p, v, valid) ==
    /\ v.kind = "object"
    /\ \A n \in DOMAIN p.properties :
          IF n \in DOMAIN v.of
          THEN v.of[n].kind = "null" \/ valid[p.properties[n], v.of[n]]
          ELSE ~Flag(p.properties[n], "required")

ArrayValid(p, v, valid) ==
    /\ v.kind = "array"
    /\ Flag(p, "required") => v.items # <<>>
    /\ \A item \in ToSet(v.items) : valid[p.items, item]

ValueValid[p \in Properties, v \in Values] ==
    CASE p.type = "string" -> StringValid(p, v)
      [] p.type = "number" -> NumberValid(p, v)
      [] p.type = "boolean" -> BooleanValid(v)
      [] p.type = "object" -> ObjectValid(p, v, ValueValid)
      [] p.type = "array" -> ArrayValid(p, v, ValueValid)

\* A request without attributes has nothing to validate.
Validate(definition, attrs) ==
    attrs.kind = "object" =>
        \A n \in DOMAIN definition :
            IF n \in DOMAIN attrs.of THEN ValueValid[definition[n], attrs.of[n]]
            ELSE ~Flag(definition[n], "required")

-----------------------------------------------------------------------------
(* Uniqueness: who has a value already.                                    *)

Absent == [kind |-> "absent"]

\* What the operators -> and #>> of the JSON column find.
ValueAt(attrs, path) ==
    FoldLeft(LAMBDA v, n : IF v.kind = "object" /\ n \in DOMAIN v.of THEN v.of[n] ELSE Absent,
             attrs, path)

Users == {u \in Ids : db.users[u] # None}

FoundByIndex(name, text) == {u \in Users : <<u, name, text>> \in db.index}
FoundInJSON(path, v) == {u \in Users : ValueAt(db.users[u].attrs, path) = v}

\* Nobody is found by null, by an object or by an array.
IdentifyUser(path, v) ==
    IF Lacks(v, "text") THEN {}
    ELSE IF Len(path) = 1 /\ path[1] \in Indexed THEN FoundByIndex(path[1], v.text)
    ELSE FoundInJSON(path, v)

ObjectLookups(p, v, path, lookups) ==
    IF v.kind # "object" THEN {<<p, v, path>>}
    ELSE UNION {lookups[p.properties[n], v.of[n], Append(path, n)] :
                  n \in DOMAIN p.properties \cap DOMAIN v.of}

\* The values to be looked up below one that is at path, with their properties and paths,
\* and what is no object where there should be one.
Lookups[p \in Properties, v \in Values, path \in Seq(STRING)] ==
    CASE p.type \in {"string", "number"} -> {<<p, v, path>>}
      [] p.type = "object" -> ObjectLookups(p, v, path, Lookups)
      [] OTHER -> {}

\* All lookups of a request, which are made in any order.
LookupsOf(definition, attrs) ==
    IF attrs.kind # "object" THEN {}
    ELSE UNION {Lookups[definition[n], attrs.of[n], <<n>>] : n \in DOMAIN definition \cap DOMAIN attrs.of}

\* Several users are an error of the store.
LeafUnique(p, v, path) ==
    LET found == IdentifyUser(path, v)
    IN  IF ~Flag(p, "unique") \/ found = {} THEN {}
        ELSE IF Cardinality(found) = 1 THEN {"conflict"} ELSE {"failed"}

\* What may come of the lookups: the first refusal is the answer. null in place of an
\* object below another counts as a conflict.
Refusals(definition, attrs) ==
    UNION {IF l[1].type = "object" THEN {"conflict"} ELSE LeafUnique(l[1], l[2], l[3]) :
             l \in LookupsOf(definition, attrs)}

-----------------------------------------------------------------------------
(* The calls.                                                              *)

ProfileOps == {"createUser", "updateUser", "deleteUser", "defineType"}

FirstProfileStep(req) ==
    CASE req.op \in {"createUser", "updateUser"} -> "validate"
      [] req.op = "deleteUser" -> "write"
      [] req.op = "defineType" ->
            IF CompilesSchema(req.definition) THEN "write" ELSE "refused"

ValidateUser(c) ==
    /\ At(c, "validate")
    /\ Check(c, Validate(db.type.definition, call[c].req.attrs), "refused", "unique")

ValidateUserUniqueness(c) ==
    LET refusals == Refusals(db.type.definition, call[c].req.attrs)
    IN  /\ At(c, "unique")
        /\ IF refusals = {} THEN Goto(c, "write") ELSE \E a \in refusals : Answer(c, a)
        /\ UNCHANGED db

\* syncIndexedAttributes: objects and arrays are not indexed.
Entries(u, attrs) ==
    IF attrs.kind # "object" THEN {}
    ELSE {<<u, n, attrs.of[n].text>> :
            n \in {m \in Indexed \cap DOMAIN attrs.of :
                     attrs.of[m].kind \in {"string", "number", "boolean"}}}

\* Fault: what was indexed for the user goes, and nothing is put in its place.
WithUserUnindexed(u, row, entries) ==
    [db EXCEPT !.users[u] = row, !.index = {e \in db.index : e[1] # u}]

\* The index goes with the user, in one transaction or by a foreign key.
WithUser(u, row, entries) ==
    [db EXCEPT !.users[u] = row,
               !.index = {e \in db.index : e[1] # u} \cup entries]

StoreUser(c, u) ==
    LET attrs == call[c].req.attrs
    IN  Write(c, TRUE, TRUE, WithUser(u, [attrs |-> attrs, by |-> c], Entries(u, attrs)))

CreateUser(c) ==
    /\ Asks(c, {"createUser"})
    /\ \/ ValidateUser(c) \/ ValidateUserUniqueness(c)
       \/ At(c, "write") /\ StoreUser(c, c)

UpdateUser(c) ==
    LET u == call[c].req.user
    IN  /\ Asks(c, {"updateUser"})
        /\ \/ ValidateUser(c) \/ ValidateUserUniqueness(c)
           \/ At(c, "write") /\ u \in Users /\ StoreUser(c, u)
           \/ At(c, "write") /\ u \notin Users /\ Answer(c, "notFound") /\ UNCHANGED db

DeleteUser(c) ==
    /\ Asks(c, {"deleteUser"})
    /\ At(c, "write")
    /\ Write(c, TRUE, TRUE, WithUser(call[c].req.user, None, {}))

UpdateUserSchema(c) ==
    /\ Asks(c, {"defineType"})
    /\ At(c, "write")
    /\ Write(c, TRUE, TRUE, [db EXCEPT !.type = [definition |-> call[c].req.definition, by |-> c]])

ProfileService(c) == CreateUser(c) \/ UpdateUser(c) \/ DeleteUser(c) \/ UpdateUserSchema(c)

-----------------------------------------------------------------------------
(* What the properties say of a profile, path by path.                     *)

Below(n, paths) == {<<n>>} \cup {<<n>> \o path : path \in paths}

PathsIn[p \in Properties] ==
    IF p.type = "object"
    THEN UNION {Below(n, PathsIn[p.properties[n]]) : n \in DOMAIN p.properties} ELSE {}

Paths(definition) == UNION {Below(n, PathsIn[definition[n]]) : n \in DOMAIN definition}

PropertyAt(definition, path) ==
    FoldLeft(LAMBDA p, n : p.properties[n], [properties |-> definition], path)

\* Every property that is required is there if the object it belongs to is, and what is
\* there is of the kind, and of the values, that the definition says, unless the user
\* was given no attributes at all.
Fits(definition, attrs) ==
    attrs = Absent \/ \A path \in Paths(definition) :
        LET p == PropertyAt(definition, path)
            v == ValueAt(attrs, path)
        IN  /\ Flag(p, "required") /\ ValueAt(attrs, Front(path)).kind = "object"
                  => v.kind # "absent"
            /\ v.kind \in {p.type, "absent"} \cup (IF Len(path) > 1 THEN {"null"} ELSE {})
            /\ v.kind \in {"string", "number"} => InEnum(p, v)
            /\ v.kind = "array" => \A item \in ToSet(v.items) : item.kind = p.items.type

UniquePaths(definition) == {path \in Paths(definition) : Flag(PropertyAt(definition, path), "unique")}
=============================================================================
