---------------------------- MODULE TypeMeaning ----------------------------
(***************************************************************************)
(* What the types of a file mean, by expanding every alias where it is     *)
(* used, and what the rules of Lint promise in terms of that.              *)
(***************************************************************************)
EXTENDS Lint

\* The declaration a name refers to: lexical scoping, innermost block first.
RECURSIVE Lookup(_, _, _)
Lookup(name, scope, env) ==
    LET here == {b \in DOMAIN env : env[b].name = name /\ env[b].at.scope = scope} IN
    IF here # {} THEN here
    ELSE IF scope = << >> THEN {} ELSE Lookup(name, Front(scope), env)

Denoted(n, env) ==
    LET found == Lookup(n.type.name, n.at.scope, env)
        aliases == {b \in found : env[b].kind = "alias"}
    IN  IF n.type.name \in n.at.names \/ Cardinality(found) # 1 \/ aliases = {} THEN none
        ELSE CHOOSE b \in aliases : TRUE

\* A name that is no alias: a built-in type, an empty interface, or opaque.
Builtin(name, arguments) == [type |-> "builtin", name |-> name, arguments |-> arguments]
Unexpanded(n, arguments, env) ==
    LET found == Lookup(n.type.name, n.at.scope, env) IN
    IF n.type.name \in n.at.names THEN [type |-> "opaque"]
    ELSE IF found = {} THEN Builtin(n.type.name, arguments)
    ELSE IF \A b \in found : env[b].kind = "interface" /\ env[b].at.scope = << >>
    THEN IF isEffectivelyEmptyInterface(found, env) THEN Literal(<< >>) ELSE [type |-> "opaque"]
    ELSE [type |-> "opaque"]

\* The type with every alias replaced by its body and every parameter by its
\* argument, where given has the arguments of the alias n stands in.
RECURSIVE Expand(_, _, _)
Expand(n, env, given) ==
    LET t == n.type
        d == env[Denoted(n, env)]
        all(types) == [k \in DOMAIN types |-> Expand(Child(n, types[k]), env, given)]
        arguments == FoldLeft(LAMBDA g, k :
                         Bind(g, d.params[k].name,
                              Expand(Argument(d, n, k), env,
                                     IF k <= Len(t.arguments) THEN given ELSE g)),
                         NoSubstitutions, [k \in DOMAIN d.params |-> k])
    IN CASE t.type = "keyword" -> t
         [] t.type \in {"paren", "readonly"} -> [t EXCEPT !.of = Expand(Child(n, @), env, given)]
         [] t.type \in {"union", "intersection"} -> [t EXCEPT !.types = all(@)]
         [] t.type = "literal" ->
              [t EXCEPT !.members = [k \in DOMAIN @ |->
                   [@[k] EXCEPT !.of = Expand(Child(n, @), env, given)]]]
         [] t.type = "mapped" ->
              [t EXCEPT !.constraint = Expand(Child(n, @), env, given),
                        !.value = Expand(MappedValue(n), env, given)]
         [] t.type = "reference" ->
              IF t.name \in DOMAIN given THEN given[t.name]
              ELSE IF Denoted(n, env) # none THEN Expand(Body(d), env, arguments)
              ELSE Unexpanded(n, all(t.arguments), env)

Meaning(n, env) == Expand(n, env, NoSubstitutions)

\* On expanded types: unknown or object, itself or in a union or a container.
RECURSIVE Has(_, _, _)
Has(t, keyword, containers) ==
    CASE t.type = "keyword" -> t.keyword = keyword
      [] t.type = "paren" -> Has(t.of, keyword, containers)
      [] t.type = "union" -> \E k \in DOMAIN t.types : Has(t.types[k], keyword, containers)
      [] t.type = "builtin" -> /\ t.name \in containers /\ t.arguments # << >>
                               /\ Has(t.arguments[1], keyword, containers)
      [] OTHER -> FALSE

RECURSIVE Peel(_)
Peel(t) ==
    IF t.type \in {"paren", "readonly"} THEN Peel(t.of)
    ELSE IF t.type = "builtin" /\ t.name \in TRANSPARENT_WRAPPERS /\ t.arguments # << >>
    THEN Peel(t.arguments[1]) ELSE t

EmptyLiteral(t) ==
    \A k \in DOMAIN t.members : /\ t.members[k].type = "property" /\ t.members[k].optional
                                /\ Peel(t.members[k].of) = Keyword("never")

\* A value without a contract.
RECURSIVE NoContract(_)
NoContract(type) ==
    LET t == Peel(type) IN
    CASE t.type = "keyword" -> t.keyword \in {"unknown", "any", "object"}
      [] t.type = "literal" -> EmptyLiteral(t)
      [] t.type = "union" -> \E k \in DOMAIN t.types : NoContract(t.types[k])
      [] t.type = "intersection" ->
           \/ \A k \in DOMAIN t.types : NoContract(t.types[k])
           \/ \E k \in DOMAIN t.types : Peel(t.types[k]) = Keyword("any")
      [] OTHER -> FALSE

RECURSIVE ValueTypes(_)
ValueTypes(type) ==
    LET t == Peel(type) IN
    CASE t.type = "literal" -> {t.members[k].of : k \in {j \in DOMAIN t.members :
                                                            t.members[j].type = "index"}}
      [] t.type = "mapped" -> {t.value}
      [] t.type = "builtin" ->
           IF t.name = "Record" /\ Len(t.arguments) >= 2 THEN {t.arguments[2]}
           ELSE IF t.name \in {"Pick", "Omit"} /\ t.arguments # << >>
           THEN ValueTypes(t.arguments[1]) ELSE {}
      [] OTHER -> {}

UnsafeDictionary(n, env) == \E t \in ValueTypes(Meaning(n, env)) : NoContract(t)

----------------------------------------------------------------------------

References(n) == {v.node : v \in {w \in Visits(n, {}) : w.node.type.type = "reference"}}

DeclarationRoots(d) ==
    {Body(d)} \cup {Node(d.params[k].default, Inside(d)) :
                      k \in {j \in DOMAIN d.params : d.params[j].default # NoType}}

\* The aliases whose expansion leads through the references.
Uses(references, env) == {Denoted(r, env) : r \in references} \ {none}

AliasUses(b, env) ==
    Uses(UNION {References(n) : n \in DeclarationRoots(env[b])}, env)

\* The set and what can be reached from it.
RECURSIVE Reach(_, _)
Reach(set, next) ==
    LET more == set \cup UNION {next[x] : x \in set} IN
    IF more = set THEN set ELSE Reach(more, next)

\* The aliases each alias leads to, in one step or more.
LeadsTo(f) ==
    LET next == [b \in Aliases(f) |-> AliasUses(b, f.declarations)] IN
    [b \in Aliases(f) |-> Reach(next[b], next)]

AllParameters(f) == UNION {Parameters(f.declarations[b]) : b \in Aliases(f)}

Roots(f) == AliasRoots(f) \cup OtherRoots(f)

AllReferences(f) == UNION {References(n) : n \in Roots(f)}

\* What the TypeScript compiler accepts: no alias that leads to itself, an
\* argument or a default for every parameter.
Legal(f, references, leads) ==
    /\ \A b \in Aliases(f) : b \notin leads[b]
    /\ \A r \in references :
          LET b == Denoted(r, f.declarations) IN
          /\ b # none => /\ Applicable(f.declarations[b], r)
                         /\ Len(r.type.arguments) <= Len(f.declarations[b].params)
          /\ r.type.name \in r.at.names => r.type.arguments = << >>

\* No alias has a parameter named like a type that is used in another alias:
\* substitutions go from alias to alias by name.
Hygienic(f) ==
    \A b \in Aliases(f) : \A n \in DeclarationRoots(f.declarations[b]) :
        \A r \in References(n) :
            r.type.name \in Parameters(f.declarations[b]) \/ r.type.name \notin AllParameters(f)

\* No generic alias is met again in an argument it was given: an alias that is
\* being resolved is not resolved inside itself.
NotNested(f, references, leads) ==
    LET env == f.declarations
        closure(s) == s \cup UNION {leads[b] : b \in s}
        generic == {b \in Aliases(f) : env[b].params # << >>}
    IN  \A r \in references :
          Denoted(r, env) # none =>
            generic \cap closure({Denoted(r, env)})
              \cap closure(UNION {Uses(References(Child(r, r.type.arguments[k])), env) :
                                    k \in DOMAIN r.type.arguments}) = {}

\* The files for which resolving by substitution is expanding.
Tame(f) ==
    LET references == AllReferences(f)
        leads == LeadsTo(f)
    IN  Legal(f, references, leads) /\ Hygienic(f) /\ NotNested(f, references, leads)

\* dictionary-types.ts keeps names where type-alias-resolution.ts keeps
\* closures and declarations, and looks an argument up when it is bound only if
\* it is a name.  So an argument in an alias (b, or none) that is no name must
\* not mention a parameter another alias has too, and a name must not be that of
\* a parameter bound before it.
Unmistakable(n, b, before, f) ==
    LET others == UNION {Parameters(f.declarations[c]) : c \in Aliases(f) \ {b}}
        t == unwrapTransparentType(n).type
    IN  IF t.type = "reference" /\ t.arguments = << >> THEN t.name \notin before
        ELSE \A r \in References(n) : r.type.name \notin others

ArgumentsUnmistakable(n, b, f) ==
    \A r \in References(n) : \A k \in DOMAIN r.type.arguments :
        Denoted(r, f.declarations) # none =>
            LET params == f.declarations[Denoted(r, f.declarations)].params IN
            Unmistakable(Child(r, r.type.arguments[k]), b,
                         {params[j].name : j \in 1..(k - 1)}, f)

NamesDiffer(f) ==
    LET env == f.declarations
        leads == LeadsTo(f)
    IN
    /\ \A n \in OtherRoots(f) : ArgumentsUnmistakable(n, none, f)
    /\ \A b \in Aliases(f) :
          /\ \A n \in DeclarationRoots(env[b]) : ArgumentsUnmistakable(n, b, f)
          /\ \A n \in DeclarationRoots(env[b]) \ {Body(env[b])} : Unmistakable(n, b, {}, f)
          /\ \A c \in leads[b] : env[b].name # env[c].name
          /\ Interfaces(env[b].name, env) = {}

\* The files, once the host has linted the last one.
Linted == {k \in DOMAIN files : file = Len(files) /\ walked}

Reported(k, rule) == {r.node : r \in {s \in reports : s.file = k /\ s.rule = rule}}

\* A rule that resolves aliases reports exactly the types whose meaning has
\* what it looks for, through parameters, defaults and declarations that hide
\* each other, whatever file was linted before.
AliasesAreTransparent ==
    \A k \in Linted : Tame(files[k]) =>
        LET f == files[k]
            env == f.declarations
            of(kind) == {Annotation(f.signatures[s]) : s \in Signatures(f, kind)}
        IN  /\ Reported(k, "no-unknown-type-aliases") =
                 {n \in {Body(env[b]) : b \in Aliases(f)} : Has(Meaning(n, env), "unknown", {})}
            /\ Reported(k, "no-unknown-returns") =
                 {n \in of("return") : Has(Meaning(n, env), "unknown", {"Promise", "PromiseLike"})}
            /\ Reported(k, "no-object-parameters") =
                 {n \in of("parameter") : Has(Meaning(n, env), "object", {})}

\* The parameters that may be unknown.
MayBeUnknown(s) ==
    functionParameterBindingName(s.parameter) \in {"cause", s.predicate}

\* Two rules together: no-unknown-parameters looks at what is written, but an
\* unknown parameter cannot hide behind aliases without parameters, because
\* then no-unknown-type-aliases reports one of them.  It never reports a cause
\* or the subject of a type predicate, however it is wrapped.
UnknownCannotHide ==
    \A k \in Linted :
        LET f == files[k]
            env == f.declarations
            strict == {s \in Signatures(f, "parameter") : ~MayBeUnknown(f.signatures[s])}
            reported == Reported(k, "no-unknown-parameters")
        IN  /\ reported \subseteq {Annotation(f.signatures[s]) : s \in strict}
            /\ /\ Tame(f) /\ \A b \in Aliases(f) : env[b].params = << >>
               => \A s \in strict :
                     LET n == Annotation(f.signatures[s]) IN
                     Has(Meaning(n, env), "unknown", {})
                     => \/ n \in reported
                        \/ \E b \in Uses(References(n), env) :
                             Body(env[b]) \in Reported(k, "no-unknown-type-aliases")

Handled(n) == n.type.type \in {"reference", "literal", "mapped"}

\* What no-unsafe-dictionary-type reports is a dictionary of values without a
\* contract, and it reports every one: where it is written, or, for a plain use
\* of an alias, where the alias is declared.  Following substitutions by name
\* always ends.  (Left out, because the code misses them: a dictionary in
\* parentheses, and one that is a default of the alias's parameters.)
DictionariesAreFound ==
    \A k \in Linted : Tame(files[k]) /\ NamesDiffer(files[k]) =>
        LET f == files[k]
            env == f.declarations
            found == Reported(k, "no-unsafe-dictionary-type")
            plain(n) == n.type.type = "reference" /\ n.type.arguments = << >>
                        /\ Denoted(n, env) # none
        IN  /\ \A r \in reports : r.file = k => r.verdict # RangeError
            /\ \A n \in found : \/ UnsafeDictionary(n, env)
                                \/ n \in IndexSignatures(f) /\ NoContract(Meaning(n, env))
            /\ \A n \in Roots(f) : Handled(n) /\ UnsafeDictionary(n, env) =>
                  \/ n \in found
                  \/ /\ plain(n)
                     /\ LET d == env[Denoted(n, env)] IN
                        Body(d) \in found \/ ~Handled(Body(d)) \/ d.params # << >>

----------------------------------------------------------------------------

RECURSIVE BroadKey(_)
BroadKey(type) ==
    LET t == Peel(type) IN
    \/ t.type = "keyword" /\ t.keyword \in {"string", "number", "symbol"}
    \/ t.type = "union" /\ \E k \in DOMAIN t.types : BroadKey(t.types[k])
    \/ t = Builtin("PropertyKey", << >>)

OpenDictionary(type) ==
    LET t == Peel(type) IN
    \/ t.type = "literal" /\ HasIndexSignature(t)
    \/ t.type = "mapped" /\ BroadKey(t.constraint)
    \/ t.type = "builtin" /\ t.name = "Record"
       /\ (t.arguments = << >> \/ BroadKey(t.arguments[1]))

\* The types a known value is not to be widened to.
RECURSIVE Broad(_, _)
Broad(type, env) ==
    LET n == unwrapTransparentType(type)
        t == n.type
        meaning == Peel(Meaning(n, env))
    IN CASE t.type = "reference" ->
              IF Denoted(n, env) # none
              THEN \/ OpenDictionary(meaning)
                   \/ /\ env[Denoted(n, env)].params = << >>
                      /\ meaning \in {Keyword("unknown"), Keyword("object")}
              ELSE \/ OpenDictionary(meaning)
                   \/ /\ IsWrapper(n, env) /\ t.arguments # << >>
                      /\ Broad(Child(n, t.arguments[1]), env)
         [] t.type = "keyword" -> t.keyword \in {"unknown", "object"}
         [] t.type = "literal" -> t.members # << >>
         [] OTHER -> t.type = "mapped"

\* The variables whose value is that of v: it copies one that copies one...
Copies(v, variables, Passes(_), Unwrapped(_)) ==
    LET next == [u \in DOMAIN variables |->
                   LET e == Unwrapped(variables[u].init) IN
                   IF Passes(variables[u]) /\ e.type = "name"
                   THEN {resolveVariable(e.name, variables[u].scope, variables)} \ {none}
                   ELSE {}]
    IN  {variables[w] : w \in Reach({v} \ {none}, next)}

Constant(x) == x.def = "variable" /\ x.const /\ ~x.written

\* A value, or a name that leads through constants to one.
Known(expression, scope, variables) ==
    LET e == unwrapExpression(expression) IN
    \/ e.type \in {"value", "function"}
    \/ /\ e.type = "name"
       /\ \E x \in Copies(resolveVariable(e.name, scope, variables), variables,
                          Constant, unwrapExpression) :
             Constant(x) /\ unwrapExpression(x.init).type \in {"value", "function"}

RECURSIVE Satisfied(_)
Satisfied(e) == IF e.type = "satisfies" THEN Satisfied(e.of) ELSE e

Unannotated(x) == Constant(x) /\ x.annotation.type = NoType

\* The functions that a callee can only be: itself, or what its name is
\* declared as, once.
Callees(callee, scope, variables) ==
    LET e == unwrapExpression(callee)
        declared == {v \in DOMAIN variables : /\ e.type = "name"
                                              /\ v = resolveVariable(e.name, scope, variables)
                                              /\ variables[v].def \notin {"parameter", "several"}}
    IN  {fn \in {e} \cup {unwrapExpression(variables[v].init) : v \in declared} :
           fn.type = "function"}

\* The annotations of a variable, or of the parameter it is.
Annotations(x) ==
    CASE x.def = "variable" -> {x.annotation}
      [] x.def = "parameter" ->
           {functionParameterTypeAnnotation(x.init.params[k]) :
              k \in {j \in DOMAIN x.init.params :
                       functionParameterBindingName(x.init.params[j]) = x.name}}
      [] OTHER -> {}

\* What an expression says of its type: by an assertion, by the return type of
\* what is called, by an annotation on the way, or by being a value.
Contracted(expression, scope, variables, env) ==
    LET contract(n) == n.type # NoType /\ ~NoContract(Meaning(n, env))
        says(e, at) == CASE e.type = "as" -> contract(e.annotation)
                         [] e.type = "call" ->
                              \E fn \in Callees(e.callee, at, variables) : contract(fn.returns)
                         [] OTHER -> e.type \in {"value", "function"}
        e == Satisfied(expression)
    IN  IF e.type # "name" THEN says(e, scope)
        ELSE \E x \in Copies(resolveVariable(e.name, scope, variables), variables,
                             Unannotated, Satisfied) :
               \/ \E n \in Annotations(x) : contract(n)
               \/ Unannotated(x) /\ says(Satisfied(x.init), x.scope)

\* The places of a file that a value goes to and that have a type.
Places(f) ==
    LET place(e, scope, to) == [expression |-> e, scope |-> scope, to |-> to]
        asserted(e, scope) == {place(a.of, scope, a.annotation) : a \in Assertions(e)}
        target(flow) == resolveVariable(flow.to, flow.scope, f.variables)
        of(x) == {place(x.init, x.scope, x.annotation)} \cup asserted(x.init, x.scope)
        into(flow) == UNION {asserted(e, flow.scope) : e \in Expressions(flow)} \cup
                      CASE flow.kind = "annotated" ->
                             {place(flow.expression, flow.scope, flow.to)}
                        [] /\ flow.kind = "assignment" /\ target(flow) # none
                           /\ f.variables[target(flow)].def = "variable" ->
                             {place(flow.expression, flow.scope,
                                    f.variables[target(flow)].annotation)}
                        [] OTHER -> {}
    IN  UNION {of(x) : x \in {f.variables[v] : v \in {w \in DOMAIN f.variables :
                                                        f.variables[w].def = "variable"}}}
        \cup UNION {into(f.flows[k]) : k \in DOMAIN f.flows}

\* The arguments that a call hands to a type predicate as unknown: not one that
\* is missing or spread.
Subjects(call, variables) ==
    UNION {{call.arguments[k] : k \in {j \in DOMAIN fn.params \cap DOMAIN call.arguments :
                /\ functionParameterBindingName(fn.params[j]) = fn.predicate
                /\ call.arguments[j].type # "spread"
                /\ containsUnknownType(functionParameterTypeAnnotation(fn.params[j]).type)}} :
             fn \in Callees(call.callee, call.scope, variables)}

\* no-known-value-widening reports every known value that goes to a place with
\* a broad type, unless it is {} for a dictionary, every argument with a
\* contract that a type predicate takes as unknown, and nothing else: through
\* constants that copy each other, hide each other or form a cycle, and through
\* names that are functions, parameters or defined twice.
WideningIsFound ==
    \A k \in Linted : Tame(files[k]) /\ NamesDiffer(files[k]) =>
        LET f == files[k]
            env == f.declarations
            starts(p) == /\ unwrapExpression(p.expression) = Value(TRUE)
                         /\ \/ OpenDictionary(Meaning(p.to, env))
                            \/ unwrapTransparentType(p.to).type.type = "mapped"
            widened == {p \in Places(f) : /\ p.to.type # NoType
                                          /\ Broad(p.to, env) /\ ~starts(p)
                                          /\ Known(p.expression, p.scope, f.variables)}
            calls == {f.flows[j] : j \in {i \in DOMAIN f.flows : f.flows[i].kind = "call"}}
        IN  Reported(k, "no-known-value-widening") =
              {[expression |-> p.expression] : p \in widened} \cup
              UNION {{[expression |-> e] : e \in {s \in Subjects(call, f.variables) :
                        Contracted(s, call.scope, f.variables, env)}} : call \in calls}
=============================================================================
