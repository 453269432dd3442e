-------------------------- MODULE DictionaryTypes --------------------------
(***************************************************************************)
(* shared/dictionary-types.ts of the lint plugin: which types are          *)
(* dictionaries of values without a contract, and which types are so broad *)
(* that a known value loses its type in them.                              *)
(*                                                                         *)
(* The substitutions here map names to nodes, not to closures, and nothing *)
(* stops a substitution that mentions its own name: the functions that     *)
(* follow one count their depth, and at MaxDepth the stack of the          *)
(* JavaScript engine is taken to overflow.                                 *)
(***************************************************************************)
EXTENDS TypeAliases

CONSTANT MaxDepth

Paren(type) == [type |-> "paren", of |-> type]
Readonly(type) == [type |-> "readonly", of |-> type]
Intersection(types) == [type |-> "intersection", types |-> types]
Literal(members) == [type |-> "literal", members |-> members]
Mapped(key, constraint, value) ==
    [type |-> "mapped", key |-> key, constraint |-> constraint, value |-> value]
IndexSignature(type) == [type |-> "index", of |-> type]
Property(optional, type) == [type |-> "property", optional |-> optional, of |-> type]

MappedValue(n) ==
    Node(n.type.value, [scope |-> n.at.scope, names |-> n.at.names \cup {n.type.key}])

null == "null"
RangeError == "RangeError"

TRANSPARENT_WRAPPERS == {"Readonly", "Partial", "Required", "NonNullable"}
BUILT_INS == TRANSPARENT_WRAPPERS \cup {"Record", "Pick", "Omit", "PropertyKey"}

isBuiltIn(name, at, env) ==
    name \in BUILT_INS /\ ~hasVisibleTypeBinding(name, at, env)

IsWrapper(n, env) ==
    n.type.name \in TRANSPARENT_WRAPPERS /\ isBuiltIn(n.type.name, n.at, env)

RECURSIVE unwrapTransparentType(_)
unwrapTransparentType(n) ==
    IF n.type.type \in {"paren", "readonly"}
    THEN unwrapTransparentType(Child(n, n.type.of)) ELSE n

isUnappliedReferenceTo(n, name) ==
    unwrapTransparentType(n).type = Reference(name, << >>)

\* No members, or none but optional ones of type never.
IsEffectivelyEmpty(members, at) ==
    \A k \in DOMAIN members :
        /\ members[k].type = "property" /\ members[k].optional
        /\ unwrapTransparentType(Node(members[k].of, at)).type = Keyword("never")

\* environment.interfaces: those declared at the top of the file.
Interfaces(name, env) ==
    {b \in DOMAIN env : /\ env[b].kind = "interface" /\ env[b].name = name
                        /\ env[b].at.scope = << >>}

isEffectivelyEmptyInterface(declarations, env) ==
    /\ Cardinality(declarations) = 1
    /\ \A b \in declarations :
          ~env[b].extends /\ IsEffectivelyEmpty(env[b].members, env[b].at)

RECURSIVE resolvedSubstitutionArgument(_, _, _)
resolvedSubstitutionArgument(n, base, resolving) ==
    LET t == unwrapTransparentType(n).type IN
    IF t.type = "reference" /\ t.name \in DOMAIN base \ resolving
    THEN resolvedSubstitutionArgument(base[t.name], base, resolving \cup {t.name})
    ELSE n

ArgumentsAsWritten(d, reference, base) ==
    FoldLeft(LAMBDA next, k : Bind(next, d.params[k].name, Argument(d, reference, k)),
             base, [k \in DOMAIN d.params |-> k])

aliasSubstitution(d, reference, base) ==
    FoldLeft(LAMBDA next, k :
                Bind(next, d.params[k].name,
                     resolvedSubstitutionArgument(Argument(d, reference, k), next, {})),
             base, [k \in DOMAIN d.params |-> k])

Body(d) == Node(d.body, Inside(d))

RECURSIVE unsafeDirectValue(_, _, _, _, _)
unsafeDirectValue(type, env, substitutions, resolvingAliases, depth) ==
    LET n == unwrapTransparentType(type)
        t == n.type
        alias == visibleTypeAlias(t.name, n.at, env)
        of(m) == unsafeDirectValue(m, env, substitutions, resolvingAliases, depth + 1)
        members == [k \in DOMAIN t.types |-> of(Child(n, t.types[k]))]
        hits == {k \in DOMAIN members : members[k] # null}
    IN IF depth = MaxDepth THEN RangeError ELSE
       CASE t.type = "keyword" ->
              IF t.keyword \in {"unknown", "any", "object"} THEN t.keyword ELSE null
         [] t.type = "literal" ->
              IF IsEffectivelyEmpty(t.members, n.at) THEN "empty-object" ELSE null
         [] t.type = "union" ->
              IF hits = {} THEN null
              ELSE IF members[Min(hits)] = RangeError THEN RangeError ELSE "union"
         [] t.type = "intersection" ->
              IF \E k \in hits : members[k] = RangeError THEN RangeError
              ELSE IF \E k \in hits : members[k] = "any" THEN "any"
              ELSE IF hits = DOMAIN members THEN members[1] ELSE null
         [] t.type = "reference" ->
              IF IsWrapper(n, env)
              THEN IF t.arguments = << >> THEN null ELSE of(Child(n, t.arguments[1]))
              ELSE IF t.name \in DOMAIN substitutions
              THEN IF isUnappliedReferenceTo(substitutions[t.name], t.name) THEN null
                   ELSE of(substitutions[t.name])
              ELSE IF Interfaces(t.name, env) # {}
              THEN IF isEffectivelyEmptyInterface(Interfaces(t.name, env), env)
                   THEN "empty-object" ELSE null
              ELSE IF /\ alias # none /\ t.name \notin resolvingAliases
                      /\ Applicable(env[alias], n)
              THEN unsafeDirectValue(Body(env[alias]), env,
                                     aliasSubstitution(env[alias], n, substitutions),
                                     resolvingAliases \cup {t.name}, depth + 1)
              ELSE null
         [] t.type = "mapped" -> null

\* A substitution that leads nowhere but to itself.
Overflow ==
    <<[node |-> Node(NoType, [scope |-> << >>, names |-> {}]), substitutions |-> NoSubstitutions]>>

\* The value types of a dictionary, each with the substitutions it stands under.
RECURSIVE dictionaryValueTypes(_, _, _, _, _)
dictionaryValueTypes(type, env, substitutions, resolvingAliases, depth) ==
    LET n == unwrapTransparentType(type)
        t == n.type
        alias == visibleTypeAlias(t.name, n.at, env)
        value(m) == <<[node |-> m, substitutions |-> substitutions]>>
        of(m) == dictionaryValueTypes(m, env, substitutions, resolvingAliases, depth + 1)
        indexes == SelectSeq(t.members, LAMBDA m : m.type = "index")
    IN IF depth = MaxDepth THEN Overflow ELSE
       CASE t.type = "literal" ->
              [k \in DOMAIN indexes |-> value(Child(n, indexes[k].of))[1]]
         [] t.type = "mapped" -> value(MappedValue(n))
         [] t.type = "reference" ->
              IF t.name \in DOMAIN substitutions
              THEN IF isUnappliedReferenceTo(substitutions[t.name], t.name) THEN << >>
                   ELSE of(substitutions[t.name])
              ELSE IF \/ IsWrapper(n, env)
                      \/ t.name \in {"Pick", "Omit"} /\ isBuiltIn(t.name, n.at, env)
              THEN IF t.arguments = << >> THEN << >> ELSE of(Child(n, t.arguments[1]))
              ELSE IF t.name = "Record" /\ isBuiltIn(t.name, n.at, env)
              THEN IF Len(t.arguments) < 2 THEN << >> ELSE value(Child(n, t.arguments[2]))
              ELSE IF /\ alias # none /\ t.name \notin resolvingAliases
                      /\ Applicable(env[alias], n)
              THEN dictionaryValueTypes(Body(env[alias]), env,
                                        aliasSubstitution(env[alias], n, substitutions),
                                        resolvingAliases \cup {t.name}, depth + 1)
              ELSE << >>
         [] OTHER -> << >>

classifyUnsafeDictionaryValue(n, env) ==
    unsafeDirectValue(n, env, NoSubstitutions, {}, 0)

\* The first unsafe value type decides.
classifyUnsafeDictionary(n, env) ==
    LET values == dictionaryValueTypes(n, env, NoSubstitutions, {}, 0)
        unsafe == [k \in DOMAIN values |->
                     unsafeDirectValue(values[k].node, env, values[k].substitutions, {}, 0)]
        hits == {k \in DOMAIN unsafe : unsafe[k] # null}
    IN  IF values = Overflow THEN RangeError
        ELSE IF hits = {} THEN null ELSE unsafe[Min(hits)]

RECURSIVE isBroadMappedKey(_, _, _, _)
isBroadMappedKey(type, env, substitutions, visitedAliases) ==
    LET n == unwrapTransparentType(type)
        t == n.type
        alias == visibleTypeAlias(t.name, n.at, env)
    IN CASE t.type = "keyword" -> t.keyword \in {"string", "number", "symbol"}
         [] t.type = "union" ->
              \E k \in DOMAIN t.types :
                isBroadMappedKey(Child(n, t.types[k]), env, substitutions, visitedAliases)
         [] t.type = "reference" ->
              IF /\ t.name \in DOMAIN substitutions
                 /\ ~isUnappliedReferenceTo(substitutions[t.name], t.name)
              THEN isBroadMappedKey(substitutions[t.name], env, substitutions, visitedAliases)
              ELSE \/ t.name = "PropertyKey" /\ isBuiltIn(t.name, n.at, env)
                   \/ /\ alias # none /\ t.name \notin visitedAliases
                      /\ env[alias].params = << >>
                      /\ isBroadMappedKey(Body(env[alias]), env, substitutions,
                                          visitedAliases \cup {t.name})
         [] OTHER -> FALSE

hasBroadRecordKey(n, env, substitutions) ==
    n.type.arguments = << >>
        \/ isBroadMappedKey(Child(n, n.type.arguments[1]), env, substitutions, {})

HasIndexSignature(t) == \E k \in DOMAIN t.members : t.members[k].type = "index"

BroadKeyword(t) == IF t.keyword \in {"unknown", "object"} THEN t.keyword ELSE null

\* What an alias stands for.
RECURSIVE classifyAliasBroadTarget(_, _, _, _, _)
classifyAliasBroadTarget(type, env, substitutions, resolvingAliases, depth) ==
    LET n == unwrapTransparentType(type)
        t == n.type
        alias == visibleTypeAlias(t.name, n.at, env)
        open(broad) == IF broad THEN "open dictionary" ELSE null
        of(m) == classifyAliasBroadTarget(m, env, substitutions, resolvingAliases, depth + 1)
    IN IF depth = MaxDepth THEN RangeError ELSE
       CASE t.type = "keyword" -> BroadKeyword(t)
         [] t.type = "literal" -> open(HasIndexSignature(t))
         [] t.type = "mapped" ->
              open(isBroadMappedKey(Child(n, t.constraint), env, substitutions, {}))
         [] t.type = "reference" ->
              IF t.name \in DOMAIN substitutions
              THEN IF isUnappliedReferenceTo(substitutions[t.name], t.name) THEN null
                   ELSE of(substitutions[t.name])
              ELSE IF IsWrapper(n, env)
              THEN IF t.arguments = << >> THEN null ELSE of(Child(n, t.arguments[1]))
              ELSE IF t.name = "Record" /\ isBuiltIn(t.name, n.at, env)
              THEN open(hasBroadRecordKey(n, env, substitutions))
              ELSE IF /\ alias # none /\ t.name \notin resolvingAliases
                      /\ Applicable(env[alias], n)
              THEN classifyAliasBroadTarget(
                       Body(env[alias]), env,
                       aliasSubstitution(env[alias], n, substitutions),
                       resolvingAliases \cup {t.name}, depth + 1)
              ELSE null
         [] OTHER -> null

\* What a type written at a binding takes from a known value.
RECURSIVE classifyWideningTarget(_, _)
classifyWideningTarget(type, env) ==
    LET n == unwrapTransparentType(type)
        t == n.type
        alias == visibleTypeAlias(t.name, n.at, env)
        resolved == classifyAliasBroadTarget(
                        Body(env[alias]), env,
                        aliasSubstitution(env[alias], n, NoSubstitutions), {t.name}, 0)
    IN CASE t.type = "keyword" -> BroadKeyword(t)
         [] t.type = "literal" ->
              IF HasIndexSignature(t) THEN "open dictionary"
              ELSE IF t.members # << >> THEN "anonymous object" ELSE null
         [] t.type = "mapped" -> "open dictionary"
         [] t.type = "reference" ->
              IF IsWrapper(n, env)
              THEN IF t.arguments = << >> THEN null
                   ELSE classifyWideningTarget(Child(n, t.arguments[1]), env)
              ELSE IF t.name = "Record" /\ isBuiltIn(t.name, n.at, env)
              THEN IF hasBroadRecordKey(n, env, NoSubstitutions)
                   THEN "open dictionary" ELSE null
              ELSE IF alias = none \/ ~Applicable(env[alias], n) THEN null
              ELSE IF env[alias].params = << >> \/ resolved = RangeError THEN resolved
              ELSE IF resolved = "open dictionary" THEN "generic container" ELSE null
         [] OTHER -> null
=============================================================================
