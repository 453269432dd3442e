---------------------------- MODULE TypeAliases ----------------------------
(***************************************************************************)
(* How the vendored lint plugin looks through type aliases                 *)
(* (shared/type-alias-resolution.ts and shared/lexical-type-parameters.ts  *)
(* under .agents/skills/install-anti-slop/assets/anti-slop).               *)
(*                                                                         *)
(* A node is a type and the place it is written at.  A place is the block  *)
(* it is in, given by its path from the program << >>, and the names of    *)
(* the type parameters bound there.  An environment is the sequence of the *)
(* type declarations of a file; a binding is an index into it.             *)
(***************************************************************************)
EXTENDS Integers, Sequences, FiniteSets, SequencesExt

Keyword(k) == [type |-> "keyword", keyword |-> k]
Reference(name, arguments) ==
    [type |-> "reference", name |-> name, arguments |-> arguments]
Union(types) == [type |-> "union", types |-> types]

Node(type, at) == [type |-> type, at |-> at]

\* The node of a part of n that binds no name of its own.
Child(n, type) == Node(type, n.at)

Parameters(d) == {d.params[k].name : k \in DOMAIN d.params}

\* lexicalTypeParameterNames of the body and the defaults of a declaration.
Inside(d) == [scope |-> d.at.scope, names |-> d.at.names \cup Parameters(d)]

AllTypeBindings(name, at, env) ==
    {b \in DOMAIN env : env[b].name = name /\ IsPrefix(env[b].at.scope, at.scope)}

\* The bindings of the name in the nearest block that has one.
nearestTypeBindings(name, at, env) ==
    LET candidates == AllTypeBindings(name, at, env) IN
    {b \in candidates :
        \A c \in candidates : Len(env[c].at.scope) <= Len(env[b].at.scope)}

none == 0

\* The binding if the name is that of one alias, and no type parameter's.
visibleTypeAlias(name, at, env) ==
    LET bindings == nearestTypeBindings(name, at, env) IN
    IF name \in at.names \/ Cardinality(bindings) # 1 THEN none
    ELSE LET b == CHOOSE c \in bindings : TRUE IN
         IF env[b].kind = "alias" THEN b ELSE none

hasVisibleTypeBinding(name, at, env) ==
    name \in at.names \/ nearestTypeBindings(name, at, env) # {}

\* A substitution maps names to closures: a node and the substitution it was
\* written under.
NoSubstitutions == [name \in {} |-> none]

Bind(substitutions, name, value) ==
    [m \in DOMAIN substitutions \cup {name} |->
        IF m = name THEN value ELSE substitutions[m]]

Argument(d, reference, k) ==
    IF k <= Len(reference.type.arguments)
    THEN Child(reference, reference.type.arguments[k])
    ELSE Node(d.params[k].default, Inside(d))

NoType == Keyword("none")

\* Every parameter has an argument or a default.
Applicable(d, reference) ==
    \A k \in DOMAIN d.params :
        k <= Len(reference.type.arguments) \/ d.params[k].default # NoType

\* Arguments close over the caller's substitutions, defaults over those of the
\* parameters before them.
aliasSubstitutions(d, reference, base) ==
    FoldLeft(LAMBDA next, k :
                Bind(next, d.params[k].name,
                     [node |-> Argument(d, reference, k),
                      substitutions |-> IF k <= Len(reference.type.arguments)
                                        THEN base ELSE next]),
             base, [k \in DOMAIN d.params |-> k])

\* The rules' matchers: the keyword itself, or a union with it; for a return
\* type also a promise of it.
Matcher(keyword, containers) == [keyword |-> keyword, containers |-> containers]

RECURSIVE evaluate(_, _, _, _, _)
evaluate(n, env, matcher, substitutions, resolvingAliases) ==
    LET t == n.type
        alias == visibleTypeAlias(t.name, n.at, env)
        below(type) == evaluate(Child(n, type), env, matcher, substitutions,
                                resolvingAliases)
    IN CASE t.type = "keyword" -> t.keyword = matcher.keyword
         [] t.type = "paren" -> below(t.of)
         [] t.type = "union" -> \E k \in DOMAIN t.types : below(t.types[k])
         [] t.type = "reference" ->
              IF t.name \in DOMAIN substitutions /\ t.arguments = << >>
              THEN LET s == substitutions[t.name] IN
                   evaluate(s.node, env, matcher, s.substitutions, resolvingAliases)
              ELSE IF /\ alias # none /\ alias \notin resolvingAliases
                      /\ Applicable(env[alias], n)
              THEN evaluate(Node(env[alias].body, Inside(env[alias])), env, matcher,
                            aliasSubstitutions(env[alias], n, substitutions),
                            resolvingAliases \cup {alias})
              ELSE /\ t.name \in matcher.containers /\ t.arguments # << >>
                   /\ below(t.arguments[1])
         [] OTHER -> FALSE

resolvedTypeMatches(n, env, matcher) ==
    evaluate(n, env, matcher, NoSubstitutions, {})
=============================================================================
