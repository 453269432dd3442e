-------------------------------- MODULE Lint --------------------------------
(***************************************************************************)
(* The rules of the vendored lint plugin that look through type aliases,   *)
(* and the host that runs them: rule objects are made once and linted with *)
(* for file after file, so what a rule keeps in its closure outlives a     *)
(* file (rules/*.ts, createOnce).                                          *)
(*                                                                         *)
(* A file is its program, a tree of blocks and type declarations, and what  *)
(* the host visits in it: those declarations with their places, signatures *)
(* (a return type or a parameter each), variables with what defines them,  *)
(* and flows: assignments, calls and values for annotated places.          *)
(***************************************************************************)
EXTENDS DictionaryTypes

CONSTANT Files  \* the sequences of files that are linted

VARIABLES files,        \* the files of this run of the host
          file,         \* the one being linted
          environment,  \* what the rules keep: the declarations of a file
          walked,       \* the nodes of the file have been visited
          reports       \* [file, rule, node, verdict]

vars == <<files, file, environment, walked, reports>>

\* environment === null
NoEnvironment == << >>

Init ==
    /\ files \in Files
    /\ file = 0 /\ walked = TRUE
    /\ environment = NoEnvironment
    /\ reports = {}

----------------------------------------------------------------------------

UnknownAlias == Matcher("unknown", {})
ObjectParameter == Matcher("object", {})
UnknownReturn == Matcher("unknown", {"Promise", "PromiseLike"})

Aliases(f) == {b \in DOMAIN f.declarations : f.declarations[b].kind = "alias"}

\* A parameter: a name, or one in a rest, default or property parameter, each
\* of which may have an annotation of its own (a property parameter has not).
Identifier(name, annotation) ==
    [type |-> "identifier", name |-> name, annotation |-> annotation]
Wrapped(type, of, annotation) == [type |-> type, of |-> of, annotation |-> annotation]

RECURSIVE functionParameterTypeAnnotation(_)
functionParameterTypeAnnotation(p) ==
    IF \/ p.type = "property"
       \/ p.type \in {"rest", "default"} /\ p.annotation.type = NoType
    THEN functionParameterTypeAnnotation(p.of) ELSE p.annotation

RECURSIVE functionParameterBindingName(_)
functionParameterBindingName(p) ==
    IF p.type = "identifier" THEN p.name ELSE functionParameterBindingName(p.of)

\* The type that a signature gives its result or its parameter.
Annotation(s) ==
    IF s.kind = "return" THEN s.node ELSE functionParameterTypeAnnotation(s.parameter)

Signatures(f, kind) ==
    {k \in DOMAIN f.signatures :
        f.signatures[k].kind = kind /\ Annotation(f.signatures[k]).type # NoType}

Report(rule, node, verdict) ==
    [file |-> file, rule |-> rule, node |-> node, verdict |-> verdict]

RECURSIVE containsUnknownType(_)
containsUnknownType(t) ==
    \/ t = Keyword("unknown")
    \/ t.type = "paren" /\ containsUnknownType(t.of)
    \/ t.type = "union" /\ \E k \in DOMAIN t.types : containsUnknownType(t.types[k])

noUnknownTypeAliases(f, env) ==
    {Report("no-unknown-type-aliases", Body(f.declarations[b]), "unknown") :
        b \in {a \in Aliases(f) :
                 resolvedTypeMatches(Body(f.declarations[a]), env, UnknownAlias)}}

noUnknownReturns(f, env) ==
    {Report("no-unknown-returns", Annotation(f.signatures[k]), "unknown") :
        k \in {s \in Signatures(f, "return") :
                 resolvedTypeMatches(Annotation(f.signatures[s]), env, UnknownReturn)}}

noObjectParameters(f, env) ==
    {Report("no-object-parameters", Annotation(f.signatures[k]), "object") :
        k \in {s \in Signatures(f, "parameter") :
                 resolvedTypeMatches(Annotation(f.signatures[s]), env, ObjectParameter)}}

\* The owner of the parameter returns a type predicate for that name.
isTypePredicateSubject(s, name) == s.predicate = name

noUnknownParameters(f) ==
    {Report("no-unknown-parameters", Annotation(f.signatures[k]), "unknown") :
        k \in {j \in Signatures(f, "parameter") :
                 LET s == f.signatures[j]
                     name == functionParameterBindingName(s.parameter)
                 IN  /\ containsUnknownType(Annotation(s).type)
                     /\ name # "cause" /\ ~isTypePredicateSubject(s, name)}}

----------------------------------------------------------------------------

\* The nodes of a type, each with the type nodes around it.
RECURSIVE Visits(_, _)
Visits(n, above) ==
    LET t == n.type
        all(types) == UNION {Visits(Child(n, types[k]), above \cup {n}) : k \in DOMAIN types}
    IN  {[node |-> n, above |-> above]} \cup
        CASE t.type = "keyword" -> {}
          [] t.type \in {"paren", "readonly"} -> all(<<t.of>>)
          [] t.type \in {"union", "intersection"} -> all(t.types)
          [] t.type = "reference" -> all(t.arguments)
          [] t.type = "literal" -> all([k \in DOMAIN t.members |-> t.members[k].of])
          [] t.type = "mapped" ->
               all(<<t.constraint>>) \cup Visits(MappedValue(n), above \cup {n})

\* A plain use of an alias is left to the declaration of the alias.
isPlainAliasConsumerUse(n, inAlias, env) ==
    /\ n.type.type = "reference" /\ n.type.arguments = << >>
    /\ visibleTypeAlias(n.type.name, n.at, env) # none
    /\ ~inAlias

shouldReportType(visit, inAlias, env) ==
    /\ ~isPlainAliasConsumerUse(visit.node, inAlias, env)
    /\ classifyUnsafeDictionary(visit.node, env) # null
    /\ \A n \in visit.above : classifyUnsafeDictionary(n, env) = null

\* Bodies and defaults of the aliases; constraints are never reported.
AliasRoots(f) ==
    LET d == f.declarations IN
    {Body(d[b]) : b \in Aliases(f)} \cup
    UNION {{Node(d[b].params[k].default, Inside(d[b])) :
              k \in {j \in DOMAIN d[b].params : d[b].params[j].default # NoType}} :
              b \in Aliases(f)}

\* Types written elsewhere: in signatures, on variables, in interfaces.
OtherRoots(f) ==
    {n \in {Annotation(f.signatures[k]) : k \in DOMAIN f.signatures} : n.type # NoType}
    \cup {f.variables[v].annotation :
            v \in {w \in DOMAIN f.variables : f.variables[w].annotation.type # NoType}}
    \cup UNION {{Node(f.declarations[b].members[k].of, f.declarations[b].at) :
                   k \in DOMAIN f.declarations[b].members} :
                   b \in DOMAIN f.declarations \ Aliases(f)}

UnsafeIn(roots, inAlias, env) ==
    {Report("no-unsafe-dictionary-type", v.node, classifyUnsafeDictionary(v.node, env)) :
        v \in {w \in UNION {Visits(n, {}) : n \in roots} :
                 /\ w.node.type.type \in {"reference", "literal", "mapped"}
                 /\ shouldReportType(w, inAlias, env)}}

\* The index signatures of an interface have no type literal around them.
IndexSignatures(f) ==
    UNION {{Node(f.declarations[b].members[k].of, f.declarations[b].at) :
              k \in {j \in DOMAIN f.declarations[b].members :
                       f.declarations[b].members[j].type = "index"}} :
              b \in DOMAIN f.declarations \ Aliases(f)}

noUnsafeDictionaryType(f, env) ==
    UnsafeIn(AliasRoots(f), TRUE, env) \cup UnsafeIn(OtherRoots(f), FALSE, env)
    \cup {Report("no-unsafe-dictionary-type", n, classifyUnsafeDictionaryValue(n, env)) :
            n \in {m \in IndexSignatures(f) : classifyUnsafeDictionaryValue(m, env) # null}}

----------------------------------------------------------------------------

Value(empty) == [type |-> "value", empty |-> empty]  \* a literal, {}, new X...
Name(name) == [type |-> "name", name |-> name]
Call(callee) == [type |-> "call", callee |-> callee]
Spread(expression) == [type |-> "spread", of |-> expression]
As(expression, type) == [type |-> "as", of |-> expression, annotation |-> type]
Satisfies(expression) == [type |-> "satisfies", of |-> expression]

\* A function: its parameters, its return type, and the parameter that this
\* type is a predicate of ("" if it is none).
Function(params, returns, predicate) ==
    [type |-> "function", params |-> params, returns |-> returns, predicate |-> predicate]

\* Expressions that show their value.
IsEvidence(e) == e.type \in {"value", "function"}

RECURSIVE unwrapExpression(_)
unwrapExpression(e) ==
    IF e.type \in {"as", "satisfies"} THEN unwrapExpression(e.of) ELSE e

\* The variable a name stands for in a block: that of the nearest scope.
resolveVariable(name, scope, variables) ==
    LET candidates == {v \in DOMAIN variables : /\ variables[v].name = name
                                                /\ IsPrefix(variables[v].scope, scope)}
        nearest == {v \in candidates :
                      \A w \in candidates : Len(variables[w].scope) <= Len(variables[v].scope)}
    IN  IF nearest = {} THEN none ELSE CHOOSE v \in nearest : TRUE

AnyVariable(v) == TRUE

isStableConstVariable(v) == v.const /\ ~v.written

\* A variable is defined by a declarator, a function's name or a parameter, or
\* several times.  Its init is the initializer, or the function.
variableDeclarator(v) == v.def = "variable"

\* The function that is called, as a set: empty if it is not known.
localFunctionForCall(callee, scope, variables) ==
    LET e == unwrapExpression(callee)
        v == resolveVariable(e.name, scope, variables)
    IN  {owner \in IF e.type # "name" THEN {e}
                   ELSE IF v = none \/ variables[v].def \notin {"variable", "function"} THEN {}
                   ELSE {unwrapExpression(variables[v].init)} : owner.type = "function"}

\* The first of the parameters with this name, as a set.
ParameterNamed(name, params) ==
    LET named == {k \in DOMAIN params : functionParameterBindingName(params[k]) = name} IN
    {k \in named : \A j \in named : k <= j}

\* The annotation of a variable or parameter, as a set.
variableTypeAnnotation(v) ==
    {n \in CASE v.def = "variable" -> {v.annotation}
             [] v.def = "parameter" ->
                  {functionParameterTypeAnnotation(v.init.params[k]) :
                     k \in ParameterNamed(v.name, v.init.params)}
             [] OTHER -> {} : n.type # NoType}

RECURSIVE hasKnownEvidence(_, _, _, _)
hasKnownEvidence(expression, scope, variables, visitedVariables) ==
    LET e == unwrapExpression(expression)
        v == resolveVariable(e.name, scope, variables)
    IN  \/ IsEvidence(e)
        \/ /\ e.type = "name" /\ v \notin visitedVariables \cup {none}
           /\ variableDeclarator(variables[v]) /\ isStableConstVariable(variables[v])
           /\ hasKnownEvidence(variables[v].init, variables[v].scope, variables,
                               visitedVariables \cup {v})

hasInformativeType(n, env) == classifyUnsafeDictionaryValue(n, env) = null

\* For an argument, an assertion and an annotation have the last word.
RECURSIVE hasKnownCallArgumentEvidence(_, _, _, _, _)
hasKnownCallArgumentEvidence(e, scope, variables, env, visitedVariables) ==
    LET v == resolveVariable(e.name, scope, variables) IN
    CASE e.type = "as" -> hasInformativeType(e.annotation, env)
      [] e.type = "satisfies" ->
           hasKnownCallArgumentEvidence(e.of, scope, variables, env, visitedVariables)
      [] e.type = "call" ->
           \E owner \in localFunctionForCall(e.callee, scope, variables) :
              owner.returns.type # NoType /\ hasInformativeType(owner.returns, env)
      [] e.type = "name" ->
           /\ v \notin visitedVariables \cup {none}
           /\ IF variableTypeAnnotation(variables[v]) # {}
              THEN \A n \in variableTypeAnnotation(variables[v]) : hasInformativeType(n, env)
              ELSE /\ variableDeclarator(variables[v]) /\ isStableConstVariable(variables[v])
                   /\ hasKnownCallArgumentEvidence(
                          variables[v].init, variables[v].scope, variables, env,
                          visitedVariables \cup {v})
      [] OTHER -> IsEvidence(e)

\* {} may grow into a dictionary.
IsAccumulator(e, target) ==
    /\ target \in {"open dictionary", "generic container"}
    /\ unwrapExpression(e) = Value(TRUE)

Widening(e, verdict) == Report("no-known-value-widening", [expression |-> e], verdict)

\* reportFlow: expression flows into a place with this annotation.
reportFlow(expression, scope, annotation, f, env) ==
    LET target == classifyWideningTarget(annotation, env) IN
    IF /\ annotation.type # NoType /\ target # null
       /\ ~IsAccumulator(expression, target)
       /\ hasKnownEvidence(expression, scope, f.variables, {})
    THEN {Widening(expression, target)} ELSE {}

typePredicateSubjectIndex(owner) ==
    IF owner.predicate = "" THEN {} ELSE ParameterNamed(owner.predicate, owner.params)

\* CallExpression: the argument for the subject of a type predicate.
CallReports(call, f, env) ==
    {Widening(call.arguments[k], "unknown") :
       k \in {j \in DOMAIN call.arguments :
                \E owner \in localFunctionForCall(call.callee, call.scope, f.variables) :
                  /\ j \in typePredicateSubjectIndex(owner)
                  /\ call.arguments[j].type # "spread"
                  /\ LET to == functionParameterTypeAnnotation(owner.params[j]) IN
                     to.type # NoType /\ containsUnknownType(to.type)
                  /\ hasKnownCallArgumentEvidence(call.arguments[j], call.scope, f.variables,
                                                  env, {})}}

\* A flow is an assignment to a name, a value for a return type or a property
\* with an annotation, or a call.
FlowReports(flow, f, env) ==
    LET v == resolveVariable(flow.to, flow.scope, f.variables) IN
    CASE flow.kind = "assignment" ->
           IF v = none \/ ~variableDeclarator(f.variables[v]) THEN {}
           ELSE reportFlow(flow.expression, flow.scope, f.variables[v].annotation, f, env)
      [] flow.kind = "annotated" ->
           reportFlow(flow.expression, flow.scope, flow.to, f, env)
      [] flow.kind = "call" -> CallReports(flow, f, env)

\* The expressions of a flow.
Expressions(flow) ==
    IF flow.kind = "call" THEN {flow.arguments[k] : k \in DOMAIN flow.arguments} \cup {flow.callee}
    ELSE {flow.expression}

\* The assertions in an expression that are not themselves asserted.
RECURSIVE Assertions(_)
Assertions(e) ==
    CASE e.type = "as" -> {e} \cup (IF e.of.type = "as" THEN Assertions(e.of) \ {e.of}
                                    ELSE Assertions(e.of))
      [] e.type \in {"satisfies", "spread"} -> Assertions(e.of)
      [] OTHER -> {}

AssertionReports(expression, scope, f, env) ==
    UNION {reportFlow(e.of, scope, e.annotation, f, env) : e \in Assertions(expression)}

noKnownValueWidening(f, env) ==
    UNION {LET v == f.variables[k] IN
           reportFlow(v.init, v.scope, v.annotation, f, env)
           \cup AssertionReports(v.init, v.scope, f, env) :
             k \in {j \in DOMAIN f.variables : variableDeclarator(f.variables[j])}}
    \cup UNION {FlowReports(f.flows[k], f, env)
                \cup UNION {AssertionReports(e, f.flows[k].scope, f, env) :
                              e \in Expressions(f.flows[k])} : k \in DOMAIN f.flows}

----------------------------------------------------------------------------

\* Every declaration of a type below a block, with the block it is in.
RECURSIVE collectTypeBindings(_, _)
collectTypeBindings(body, scope) ==
    FlattenSeq([k \in DOMAIN body |->
        IF body[k].kind = "block" THEN collectTypeBindings(body[k].body, Append(scope, k))
        ELSE <<[body[k] EXCEPT !.at.scope = scope]>>])

\* The environment of the file before, if there was one.
FirstEnvironment(f) ==
    IF environment # NoEnvironment THEN environment
    ELSE <<collectTypeBindings(f.program, << >>)>>

\* One environment for each program, in the cache of createTypeAliasEnvironment.
createTypeEnvironment(f) == <<collectTypeBindings(f.program, << >>)>>

\* The host opens the next file: the Program handlers run.
Program ==
    /\ walked /\ file < Len(files)
    /\ file' = file + 1 /\ walked' = FALSE
    /\ environment' = createTypeEnvironment(files[file + 1])
    /\ UNCHANGED <<files, reports>>

\* The host walks the file and calls the other handlers.
Walk ==
    /\ ~walked
    /\ walked' = TRUE
    /\ LET f == files[file]
           env == environment[1]
       IN  reports' = reports
              \cup noUnknownTypeAliases(f, env) \cup noUnknownReturns(f, env)
              \cup noObjectParameters(f, env) \cup noUnknownParameters(f)
              \cup noUnsafeDictionaryType(f, env) \cup noKnownValueWidening(f, env)
    /\ UNCHANGED <<files, file, environment>>

Next == Program \/ Walk

Spec == Init /\ [][Next]_vars
=============================================================================
