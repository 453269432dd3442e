------------------------------- MODULE MCLint -------------------------------
(* Pairs of files: one that declares A, and one with aliases A and B at the  *)
(* top, perhaps another A in a block, and signatures and variables that use  *)
(* them outside and in the block.                                            *)
EXTENDS TypeMeaning

Top == [scope |-> << >>, names |-> {}]
Block == [scope |-> <<1>>, names |-> {}]

unknown == Keyword("unknown")
object == Keyword("object")
string == Keyword("string")
Ref(name) == Reference(name, << >>)
Of(name, type) == Reference(name, <<type>>)
Record(key, value) == Reference("Record", <<key, value>>)
Index(type) == Literal(<<IndexSignature(type)>>)

Alias(name, params, body, at) ==
    [kind |-> "alias", name |-> name, at |-> at, params |-> params, body |-> body]
Interface(name, members) ==
    [kind |-> "interface", name |-> name, at |-> Top, members |-> members, extends |-> FALSE]

Param(name, default) == [name |-> name, default |-> default]

ParamsOfA == {<< >>, <<Param("T", NoType)>>, <<Param("T", NoType), Param("S", Ref("T"))>>}
ParamsOfB == {<< >>, <<Param("U", unknown)>>, <<Param("T", unknown)>>}

\* A use of an alias, with the argument if it has parameters.
Use(name, params, type) == IF params = << >> THEN Ref(name) ELSE Of(name, type)

\* Its last parameter, or a type of another file.
LastOf(params) == Ref(IF params = << >> THEN "X" ELSE params[Len(params)].name)

Returns(node) == [kind |-> "return", node |-> node]
Takes(parameter, predicate) ==
    [kind |-> "parameter", parameter |-> parameter, predicate |-> predicate]

\* The four forms of a parameter, the annotation inside or outside.
Form(k, name, node) ==
    LET bare == Identifier(name, Node(NoType, Top)) IN
    CASE k % 4 = 0 -> Identifier(name, node)
      [] k % 4 = 1 -> Wrapped("default", Identifier(name, node), Node(NoType, Top))
      [] k % 4 = 2 -> Wrapped("rest", bare, node)
      [] k % 4 = 3 -> Wrapped("property", Wrapped("default", bare, node), Node(NoType, Top))

\* Every type as that of a result and of a parameter, at the top and in the block.
Signed(types) ==
    LET at(place) == [k \in DOMAIN types |-> Returns(Node(types[k], place))]
                     \o [k \in DOMAIN types |->
                           Takes(Identifier("a", Node(types[k], place)), "b")]
    IN  at(Top) \o at(Block)

\* Parameters of each form, ones that may be unknown, and one with no type.
Formed ==
    [k \in 1..3 |-> Takes(Form(k, "a", Node(Ref("A"), Top)), "b")] \o
    <<Takes(Form(1, "cause", Node(Union(<<unknown, string>>), Top)), ""),
      Takes(Form(2, "b", Node(Union(<<string, unknown>>), Block)), "b"),
      Takes(Form(3, "a", Node(NoType, Top)), "")>>

\* The program with these declarations, those in the block in its first statement.
ProgramOf(declarations) ==
    LET bare(scope) == LET ds == SelectSeq(declarations, LAMBDA d : d.at.scope = scope) IN
                       [k \in DOMAIN ds |-> [ds[k] EXCEPT !.at.scope = << >>]]
    IN  <<[kind |-> "block", body |-> bare(<<1>>)]>> \o bare(<< >>)

Declares(declarations, types) ==
    [program |-> ProgramOf(declarations), declarations |-> declarations,
     signatures |-> Signed(types),
     variables |-> << >>, flows |-> << >>]

\* Aliases for unknown and object, by way of each other.
Bodies(name, params, T) ==
    {unknown, string, T, Union(<<string, T>>), Use(name, params, unknown),
     Use(name, params, Union(<<T, object>>)), Of("Promise", Use(name, params, T))}

Hides(pa) ==
    LET hidden(body) ==
          <<Alias("A", IF pa = << >> THEN << >> ELSE <<Param("H", NoType)>>, body, Block)>>
    IN  {<< >>, hidden(object), hidden(Ref("B")), <<[Interface("A", << >>) EXCEPT !.at = Block]>>}

AliasFiles(pa, pb) ==
    {Declares(<<Alias("A", pa, a, Top), Alias("B", pb, b, Top)>> \o hide,
              <<Use("A", pa, unknown), Use("A", pa, object), Use("B", pb, string), Ref("B"),
                Paren(unknown), Of("Promise", Use("B", pb, object)),
                Use("B", pb, Of("Promise", Use("A", pa, object)))>>) :
       a \in Bodies("B", pb, LastOf(pa)), b \in Bodies("A", pa, LastOf(pb)), hide \in Hides(pa)}

\* Dictionaries, with values by way of parameters and aliases.
DictionaryFiles(pa, pb) ==
    LET T == LastOf(pa)
        U == LastOf(pb)
        values == {T, Use("B", pb, T), Intersection(<<T, object>>), Literal(<< >>)}
        dictionaries == UNION {{Record(string, v), Index(v), Mapped("P", T, v),
                                Of("Partial", Record(Ref("PropertyKey"), v))} : v \in values}
        broads == {unknown, string, Union(<<string, U>>), Ref("I"), Readonly(Index(U)),
                   Literal(<<Property(TRUE, Keyword("never"))>>), Record(U, object),
                   Of("Readonly", Use("A", pa, U))}
        uses == <<Use("A", pa, unknown), Use("A", pa, string), Use("A", pa, Index(object)),
                  Ref("B"), Use("B", pb, string), Record(string, Ref("B")),
                  Of("Required", Use("A", pa, string)),
                  Literal(<<Property(FALSE, Use("A", pa, unknown))>>)>>
    IN  {[Declares(<<Alias("A", pa, a, Top), Alias("B", pb, b, Top), Interface("I", members)>>,
                   uses)
            EXCEPT !.variables = [k \in DOMAIN uses |->
                      [name |-> "v", scope |-> <<k>>, def |-> "variable",
                       const |-> TRUE, written |-> FALSE, init |-> Value(k = 1), annotation |-> Node(uses[k], Top)]]] :
           a \in dictionaries \cup {T},
           <<b, members>> \in {<<Ref("I"), <<Property(FALSE, string)>>>>,
                              <<Ref("I"), <<IndexSignature(Ref("B"))>>>>}
                             \cup {<<broad, << >>>> : broad \in broads}}

At(type) == Node(type, Top)

\* Functions: one with a type, one without, and predicates whose subject is the
\* second or the first parameter.
Typed == Function(<<Form(1, "p", At(Ref("A")))>>, At(Ref("A")), "")
Untyped == Function(<< >>, At(NoType), "")
Second == Function(<<Form(0, "z", At(string)), Form(2, "s", At(Paren(unknown)))>>,
                   At(Keyword("predicate")), "s")
Only == Function(<<Form(3, "s", At(Union(<<unknown, string>>)))>>, At(Keyword("predicate")), "s")

\* A name that no declarator defines.
Defined(name, scope, def, function) ==
    [name |-> name, scope |-> scope, def |-> def, const |-> TRUE, written |-> FALSE,
     init |-> function, annotation |-> At(NoType)]

\* The functions g and is, a parameter p, and a name that is declared twice.
Fixed == <<Defined("g", << >>, "function", Typed), Defined("is", << >>, "function", Second),
           Defined("p", << >>, "parameter", Typed), Defined("twice", << >>, "several", Only)>>

Assign(e, scope, to) == [kind |-> "assignment", expression |-> e, scope |-> scope, to |-> to]
Annotated(e, scope, to) == [kind |-> "annotated", expression |-> e, scope |-> scope, to |-> to]
Calls(callee, arguments, scope) ==
    [kind |-> "call", callee |-> callee, arguments |-> arguments, scope |-> scope]

Flows ==
    <<Assign(Name("y"), <<1>>, "x"), Assign(Value(FALSE), << >>, "p"),
      Assign(Name("x"), << >>, "twice"),
      Annotated(Name("x"), <<1>>, At(Literal(<<Property(FALSE, string)>>))),
      Calls(Name("is"), <<Name("y"), Name("x")>>, <<1>>),
      Calls(Satisfies(Only), <<Satisfies(As(Name("y"), At(Ref("A"))))>>, << >>),
      Calls(Name("is"), <<Name("x")>>, << >>), Calls(Name("g"), <<Name("p")>>, << >>),
      Calls(Name("is"), <<Name("x"), Spread(Name("x"))>>, << >>),
      Calls(Name("twice"), <<Name("x")>>, << >>), Calls(Name("x"), <<Name("p")>>, << >>)>>

\* Variables x and y, perhaps another x or is in the block, and values that go
\* there.
ValueFiles ==
    LET inits == {Value(FALSE), Value(TRUE), Call(Satisfies(Untyped)), Call(Name("g")),
                  Name("x"), Name("y"), Satisfies(Name("y")), As(Name("x"), At(unknown)),
                  Name("g"), Name("p"), Call(Name("twice")), As(Only, At(object))}
        variables(name, scope, types) ==
            {[name |-> name, scope |-> scope, def |-> "variable", const |-> c, written |-> w,
              init |-> init, annotation |-> At(type)] :
                c \in BOOLEAN, w \in BOOLEAN, init \in inits, type \in types}
        hidden == {x \in variables("x", <<1>>, {NoType}) :
                     Constant(x) /\ x.init \in {Value(FALSE), Name("y")}}
                  \cup {Defined("is", <<1>>, "parameter", Second)}
    IN  {[Declares(<<Alias("A", << >>, Index(string), Top)>>, << >>) EXCEPT
          !.signatures = Formed, !.variables = <<x, y>> \o inner \o Fixed, !.flows = Flows] :
            x \in {v \in variables("x", << >>, {NoType, Ref("A")}) :
                     ~v.written /\ (v.const \/ v.init \in {Value(FALSE), Name("y")})},
            y \in {v \in variables("y", << >>, {NoType, unknown}) :
                     /\ v.const # v.written
                     /\ v.init \in {Value(FALSE), Call(Name("g")), Name("x"),
                                    Satisfies(Name("y")), As(Name("x"), At(unknown))}},
            inner \in {<< >>} \cup {<<h>> : h \in hidden}}

First == Declares(<<Alias("A", << >>, object, Top)>>, <<Ref("A")>>)

MCFiles ==
    {<<First, f>> :
       f \in ValueFiles \cup UNION {AliasFiles(pa, pb) \cup DictionaryFiles(pa, pb) :
                                      pa \in ParamsOfA, pb \in ParamsOfB}}
=============================================================================
