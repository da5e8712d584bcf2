---------------------------- MODULE Expressions -----------------------------
(***************************************************************************)
(* The parser of template expressions: recursive descent over the tokens   *)
(* of the lexer, with one function per level of precedence.  A behaviour   *)
(* makes an expression larger step by step; what is checked is that the    *)
(* parser reads each one, written down by the rules of JavaScript, as      *)
(* itself.                                                                 *)
(***************************************************************************)
EXTENDS Integers, Sequences

CONSTANT MaxGrowth   \* bound: how often the expression grows

VARIABLES
  expr,     \* an AST: [op, args]
  growth

vars == <<expr, growth>>

Node(op, args) == [op |-> op, args |-> args]
Name(x) == Node("Identifier", <<Node(x, <<>>)>>)
Text(s) == Node("Literal", <<Node(s, <<>>)>>)

\* Tokens: a string literal has the type "string" and any value, also that of a punctuator.
Punct(v) == <<[type |-> "punctuator", value |-> v]>>
EOF == [type |-> "eof", value |-> ""]

------------------------------------------------------------------------------
(* The parser.  A result is a node and the position after it, or Failed.   *)
Failed == [node |-> Node("error", <<>>), at |-> 0]
At(s, p) == IF p <= Len(s) THEN s[p] ELSE EOF
match(s, p, values) == At(s, p).type = "punctuator" /\ At(s, p).value \in values
\* expect looks at the value only.
expect(s, p, value) == At(s, p).value = value
After(s, r, value) == IF r # Failed /\ expect(s, r.at, value) THEN [r EXCEPT !.at = @ + 1] ELSE Failed

\* The functions of the parser by level, from the conditional down to the primary expression.
\* Each is given the others as P: P[level, p] is what the one of that level reads at p.
Operators == <<{"||", "??"}, {"&&"}, {"==", "==="}, {"<", ">"}, {"+", "-"}, {"*", "/"}>>
Conditional == 0
Unary == Len(Operators) + 1
MemberOrCall == Unary + 1
Primary == Unary + 2

\* The levels above the unary operators, all of them left-associative.
\* Faulty variant: the operators of a level associate to the right.
ChainRight(P, s, level, left) ==
  IF left = Failed \/ ~match(s, left.at, Operators[level]) THEN left
  ELSE LET right == P[level, left.at + 1]
       IN IF right = Failed THEN Failed
          ELSE [node |-> Node(At(s, left.at).value, <<left.node, right.node>>), at |-> right.at]

RECURSIVE Chain(_, _, _, _)
Chain(P, s, level, left) ==
  IF left = Failed \/ ~match(s, left.at, Operators[level]) THEN left
  ELSE LET right == P[level + 1, left.at + 1]
       IN IF right = Failed THEN Failed
          ELSE Chain(P, s, level, [node |-> Node(At(s, left.at).value, <<left.node, right.node>>), at |-> right.at])
parseBinary(P, s, level, p) == Chain(P, s, level, P[level + 1, p])

parseConditional(P, s, p) ==
  LET test == P[1, p]
      then == After(s, P[Conditional, test.at + 1], ":")
      else == P[Conditional, then.at]
  IN IF test = Failed \/ ~match(s, test.at, {"?"}) THEN test
     ELSE IF then = Failed \/ else = Failed THEN Failed
     ELSE [node |-> Node("?:", <<test.node, then.node, else.node>>), at |-> else.at]

\* What follows a unary operator is its operand.
UnaryOf(P, s, p, argument) ==
  IF ~match(s, p, {"!", "-"}) THEN P[MemberOrCall, p]
  ELSE IF argument = Failed THEN Failed
  ELSE [node |-> Node(At(s, p).value, <<argument.node>>), at |-> argument.at]

\* Faulty variant: the operand of a unary operator is everything that follows.
parseUnaryWide(P, s, p) == UnaryOf(P, s, p, P[5, p + 1])

parseUnary(P, s, p) == UnaryOf(P, s, p, P[Unary, p + 1])

\* A list of expressions up to close; a call and an array look for the empty list differently.
RECURSIVE Arguments(_, _, _, _, _)
Arguments(P, s, p, close, seen) ==
  LET next  == P[Conditional, p]
      empty == IF close = "]" THEN At(s, p).value = "]" ELSE match(s, p, {close})
      trail == close = "]" /\ match(s, p, {close})
      all   == Append(seen, next.node)
  IN IF (seen = <<>> /\ empty) \/ (seen # <<>> /\ trail) THEN [node |-> Node(close, seen), at |-> p + 1]
     ELSE IF next = Failed THEN Failed
     ELSE IF match(s, next.at, {","}) THEN Arguments(P, s, next.at + 1, close, all)
     ELSE After(s, [node |-> Node(close, all), at |-> next.at], close)

\* Members, computed members and calls, as many as follow.
RECURSIVE Postfix(_, _, _)
Postfix(P, s, left) ==
  LET p        == left.at
      property == P[Primary, p + 1]
      index    == After(s, P[Conditional, p + 1], "]")
      optional == After(s, P[Conditional, p + 2], "]")   \* ?.[ and .[
      call     == Arguments(P, s, p + 1, ")", <<>>)
      Then(r, op, args) == IF r = Failed THEN Failed ELSE [node |-> Node(op, args), at |-> r.at]
      longer == CASE match(s, p, {"."}) ->
                       IF match(s, p + 1, {"["}) THEN Then(optional, "[]", <<left.node, optional.node>>)
                       ELSE IF property.node.op # "Identifier" THEN Failed
                       ELSE Then(property, ".", <<left.node, property.node>>)
                  [] match(s, p, {"["}) -> Then(index, "[]", <<left.node, index.node>>)
                  [] match(s, p, {"("}) -> Then(call, "()", <<left.node>> \o call.node.args)
  IN IF left = Failed \/ ~match(s, p, {".", "[", "("}) THEN left ELSE Postfix(P, s, longer)
parseMemberOrCall(P, s, p) == Postfix(P, s, P[Primary, p])

\* ( x ) => : the loop over the parameters ends after the first comma it has consumed.
RECURSIVE Params(_, _, _)
Params(s, p, seen) ==
  LET comma == match(s, p + 1, {","})
      more  == Append(seen, Node(At(s, p).value, <<>>))
  IN IF At(s, p).value = ")" /\ seen = <<>> THEN [node |-> Node("()", seen), at |-> p]
     ELSE IF At(s, p).type # "identifier" THEN Failed
     ELSE IF ~comma THEN [node |-> Node("()", more), at |-> p + 1]
     ELSE IF At(s, p + 2).value = "," THEN Params(s, p + 2, more)
     ELSE [node |-> Node("()", more), at |-> p + 2]

RECURSIVE Properties(_, _, _, _)
Properties(P, s, p, seen) ==
  LET key   == At(s, p)
      value == IF expect(s, p + 1, ":") THEN P[Conditional, p + 2] ELSE Failed
      all   == Append(seen, Node(key.value, <<value.node>>))
  IN IF match(s, p, {"}"}) THEN [node |-> Node("{}", seen), at |-> p + 1]
     ELSE IF key.type \notin {"string", "identifier"} \/ value = Failed THEN Failed
     ELSE IF match(s, value.at, {","}) THEN Properties(P, s, value.at + 1, all)
     ELSE After(s, [node |-> Node("{}", all), at |-> value.at], "}")

\* An arrow function is tried first after "(", and everything that goes wrong in it, in its
\* body too, makes the parser try again with an expression in parentheses.
parsePrimary(P, s, p) ==
  LET params == After(s, After(s, Params(s, p + 1, <<>>), ")"), "=>")
      body   == P[Conditional, params.at]
      single == P[Conditional, p + 2]
      arrow  == match(s, p, {"("}) /\ params # Failed /\ body # Failed
      Arrow(names, r) == IF r = Failed THEN Failed
                         ELSE [node |-> Node("=>", <<Node("()", names), r.node>>), at |-> r.at]
  IN CASE At(s, p).type = "string" -> [node |-> Text(At(s, p).value), at |-> p + 1]
       [] At(s, p).type = "identifier" /\ At(s, p + 1).value = "=>" -> Arrow(<<Node(At(s, p).value, <<>>)>>, single)
       [] At(s, p).type = "identifier" /\ At(s, p + 1).value # "=>" -> [node |-> Name(At(s, p).value), at |-> p + 1]
       [] match(s, p, {"("}) -> IF arrow THEN Arrow(params.node.args, body)
                                ELSE After(s, P[Conditional, p + 1], ")")
       [] match(s, p, {"["}) -> Arguments(P, s, p + 1, "]", <<>>)
       [] match(s, p, {"{"}) -> Properties(P, s, p + 1, <<>>)
       [] OTHER -> Failed

parse(s) ==
  LET P[level \in Conditional..Primary, p \in Nat] ==
        CASE level = Conditional  -> parseConditional(P, s, p)
          [] level = Unary        -> parseUnary(P, s, p)
          [] level = MemberOrCall -> parseMemberOrCall(P, s, p)
          [] level = Primary      -> parsePrimary(P, s, p)
          [] OTHER                -> parseBinary(P, s, level, p)
      r == P[Conditional, 1]
  IN IF r # Failed /\ At(s, r.at) = EOF THEN r.node ELSE Failed.node

------------------------------------------------------------------------------
(* How JavaScript writes an expression: a level for each operator, and     *)
(* parentheses around what stands where a higher level is expected.        *)
RECURSIVE write(_, _), Listed(_)
Level(op) ==
  IF op \in {"?:", "=>"} THEN 0
  ELSE IF \E l \in DOMAIN Operators : op \in Operators[l] THEN CHOOSE l \in DOMAIN Operators : op \in Operators[l]
  ELSE IF op = "!" THEN 7 ELSE 8

Listed(es) ==
  IF es = <<>> THEN <<>>
  ELSE write(Head(es), 0) \o (IF Len(es) = 1 THEN <<>> ELSE Punct(",") \o Listed(Tail(es)))

Plain(e) ==
  LET a == e.args
  IN CASE e.op = "Identifier" -> <<[type |-> "identifier", value |-> a[1].op]>>
       [] e.op = "Literal" -> <<[type |-> "string", value |-> a[1].op]>>
       [] e.op = "." -> write(a[1], 8) \o Punct(".") \o write(a[2], 8)
       [] e.op = "[]" -> write(a[1], 8) \o Punct("[") \o write(a[2], 0) \o Punct("]")
       [] e.op = "()" -> write(a[1], 8) \o Punct("(") \o Listed(Tail(a)) \o Punct(")")
       [] e.op = "]" -> Punct("[") \o Listed(a) \o Punct("]")
       [] e.op = "{}" -> Punct("{") \o <<[type |-> "identifier", value |-> a[1].op]>> \o Punct(":")
                           \o write(a[1].args[1], 0) \o Punct("}")
       [] e.op = "=>" -> Punct("(") \o <<[type |-> "identifier", value |-> a[1].args[1].op]>> \o Punct(")")
                           \o Punct("=>") \o write(a[2], 0)
       [] e.op = "?:" -> write(a[1], 1) \o Punct("?") \o write(a[2], 0) \o Punct(":") \o write(a[3], 0)
       [] e.op = "!" -> Punct("!") \o write(a[1], 7)
       [] e.op = "-" /\ Len(a) = 1 -> Punct("-") \o write(a[1], 7)
       [] OTHER -> write(a[1], Level(e.op)) \o Punct(e.op) \o write(a[2], Level(e.op) + 1)
LevelOf(e) == IF e.op = "-" /\ Len(e.args) = 1 THEN 7 ELSE Level(e.op)
write(e, least) == IF LevelOf(e) < least THEN Punct("(") \o Plain(e) \o Punct(")") ELSE Plain(e)

------------------------------------------------------------------------------
Init == expr \in {Name("x"), Text("]")} /\ growth = 0

y == Name("y")
Larger(e) ==
  {Node(op, <<e, y>>) : op \in {"||", "??", "&&", "==", "<", "-", "*", ".", "[]", "()"}}
    \cup {Node(op, <<y, e>>) : op \in {"||", "??", "&&", "==", "<", "-", "*", "[]", "()"}}
    \cup {Node("?:", <<e, y, y>>), Node("?:", <<y, e, y>>), Node("?:", <<y, y, e>>)}
    \cup {Node("!", <<e>>), Node("-", <<e>>), Node("()", <<e>>), Node("()", <<y, y, e>>)}
    \cup {Node("]", <<y, e>>), Node("{}", <<Node("k", <<e>>)>>)}
    \cup {Node("=>", <<Node("()", <<Node("y", <<>>)>>), e>>)}
    \* An array whose first element begins with the string "]" is read as empty.
    \cup {a \in {Node("]", <<e>>)} : Plain(e)[1].value # "]"}

Grow == growth < MaxGrowth /\ growth' = growth + 1 /\ expr' \in Larger(expr)

Next == Grow
Spec == Init /\ [][Next]_vars

\* The parser reads every expression as the one that was written: precedence, associativity,
\* nesting and the second try after "(" lose and move nothing.
ReadsWhatIsWritten == parse(write(expr, 0)) = expr

------------------------------------------------------------------------------
(***************************************************************************)
(* What the compiler and the runtime do with an expression that was        *)
(* parsed: the evaluator, which tracks dependencies by what it reads, and  *)
(* extractDependencies (packages/dependency-graph), which finds them       *)
(* without evaluating.                                                     *)
(***************************************************************************)

\* Values: what they are, and for a closure its parameter, body and context.  A name that the
\* context does not have is Absent.
Kind(kind) == [kind |-> kind]
Undefined == Kind("undefined")
Falsy == Kind("falsy")
Thing == Kind("object")
Function == Kind("function")
Absent == Kind("absent")
Contexts == [{"x", "y"} -> {Undefined, Falsy, Thing, Function, Absent}]

IsTruthy(v) == v \notin {Undefined, Falsy}
IsCallable(v) == v.kind \in {"function", "closure"}

\* What arithmetic and comparisons give is a value that depends on both operands.
Binary(op, l, r) ==
  CASE op = "==" -> IF l = r THEN Thing ELSE Falsy
    [] op = "<" -> IF IsTruthy(r) THEN l ELSE r
    [] OTHER -> IF IsTruthy(l) THEN r ELSE Falsy

\* A result: the value or an error, and the names read, in order.
Gives(v) == [value |-> v, reads |-> <<>>, ok |-> TRUE]
Throws == [value |-> Undefined, reads |-> <<>>, ok |-> FALSE]
AndThen(r, Rest(_)) ==
  IF ~r.ok THEN r
  ELSE LET q == Rest(r.value) IN [q EXCEPT !.reads = r.reads \o @]

RECURSIVE evaluate(_, _), Values(_, _), Called(_, _, _)

Operands(e, context, Use(_, _)) ==
  AndThen(evaluate(e.args[1], context), LAMBDA l : AndThen(evaluate(e.args[2], context), LAMBDA r : Use(l, r)))

\* A member of what is not there is undefined; those of an object are functions.
MemberOf(v) == IF v = Thing THEN Function ELSE Undefined

\* Arguments are evaluated after the callee turned out to be a function.
Called(callee, args, context) ==
  IF ~IsCallable(callee) THEN Throws
  ELSE AndThen(Values(args, context),
             LAMBDA vs : IF callee.kind = "function" THEN Gives(Thing)
                         ELSE evaluate(callee.body,
                                [callee.context EXCEPT ![callee.param] = IF vs = <<>> THEN Undefined ELSE vs[1]]))

\* Faulty variant: the last one is evaluated first.
ValuesReversed(es, context) ==
  IF es = <<>> THEN Gives(<<>>)
  ELSE AndThen(Values(Tail(es), context),
               LAMBDA vs : AndThen(evaluate(Head(es), context), LAMBDA v : Gives(<<v>> \o vs)))

Values(es, context) ==
  IF es = <<>> THEN Gives(<<>>)
  ELSE AndThen(evaluate(Head(es), context),
             LAMBDA v : AndThen(Values(Tail(es), context), LAMBDA vs : Gives(<<v>> \o vs)))

evaluate(e, context) ==
  LET a     == e.args
      Eval(i) == evaluate(a[i], context)
  IN CASE e.op = "Literal" -> Gives(Thing)
       [] e.op = "Identifier" ->
            LET v == context[a[1].op]
            IN IF v = Absent THEN Throws ELSE [Gives(v) EXCEPT !.reads = <<a[1].op>>]
       [] e.op = "." -> AndThen(Eval(1), LAMBDA v : Gives(MemberOf(v)))
       [] e.op = "[]" -> Operands(e, context, LAMBDA v, i : Gives(MemberOf(v)))
       \* The object of a method is evaluated for this, and again with the callee.
       [] e.op = "()" ->
            LET callee == AndThen(Eval(1), LAMBDA c : Called(c, Tail(a), context))
            IN IF a[1].op \in {".", "[]"} THEN AndThen(evaluate(a[1].args[1], context), LAMBDA this : callee) ELSE callee
       [] e.op = "&&" -> AndThen(Eval(1), LAMBDA v : IF IsTruthy(v) THEN Eval(2) ELSE Gives(v))
       [] e.op = "||" -> AndThen(Eval(1), LAMBDA v : IF IsTruthy(v) THEN Gives(v) ELSE Eval(2))
       [] e.op = "??" -> AndThen(Eval(1), LAMBDA v : IF v = Undefined THEN Eval(2) ELSE Gives(v))
       [] e.op = "?:" -> AndThen(Eval(1), LAMBDA v : IF IsTruthy(v) THEN Eval(2) ELSE Eval(3))
       [] e.op = "!" -> AndThen(Eval(1), LAMBDA v : Gives(IF IsTruthy(v) THEN Falsy ELSE Thing))
       [] e.op = "-" /\ Len(a) = 1 -> AndThen(Eval(1), LAMBDA v : Gives(IF v = Undefined THEN Falsy ELSE v))
       [] e.op = "=>" -> Gives([kind |-> "closure", param |-> a[1].args[1].op, body |-> a[2], context |-> context])
       [] e.op = "]" -> AndThen(Values(a, context), LAMBDA vs : Gives(Thing))
       [] e.op = "{}" -> AndThen(Values([i \in 1..Len(a) |-> a[i].args[1]], context), LAMBDA vs : Gives(Thing))
       [] OTHER -> Operands(e, context, LAMBDA l, r : Gives(Binary(e.op, l, r)))

------------------------------------------------------------------------------
(* extractDependencies: signals with the path below them, by a walk of the *)
(* tree.                                                                   *)
RECURSIVE walk(_), extractPath(_)

\* Names and literals of the path, "*" for what is computed.
extractPath(e) ==
  IF e.op \notin {".", "[]"} THEN <<>>
  ELSE extractPath(e.args[1]) \o
       <<IF e.op = "." \/ e.args[2].op = "Literal" THEN e.args[2].args[1].op ELSE "*">>

\* Faulty variant: what stands in brackets is not looked at.
InBracketsUnseen(e) == {}

InBrackets(e) == IF e.op = "[]" THEN walk(e.args[2]) ELSE {}

\* Of a longer path only the first member is kept.  Arrays, ?? and arrow functions have no case.
walk(e) ==
  LET a == e.args
  IN CASE e.op = "Identifier" -> {[signal |-> a[1].op, path |-> <<>>]}
       [] e.op \in {".", "[]"} ->
            (IF a[1].op = "Identifier" THEN {[signal |-> a[1].args[1].op, path |-> extractPath(e)]} ELSE walk(a[1]))
              \cup InBrackets(e)
       [] e.op = "{}" -> UNION {walk(a[i].args[1]) : i \in 1..Len(a)}
       [] e.op \in {"Literal", "]", "??", "=>"} -> {}
       [] OTHER -> UNION {walk(a[i]) : i \in 1..Len(a)}

extractDependencies(e) == walk(e)

------------------------------------------------------------------------------
(* What is checked *)
RECURSIVE Uses(_, _)
Uses(e, ops) == e.op \in ops \/ \E i \in DOMAIN e.args : Uses(e.args[i], ops)

\* Whatever the context, an expression reads no signal that was not extracted from it, unless it
\* has a part extractDependencies does not look into.
ReadsAreExtracted ==
  ~Uses(expr, {"]", "??", "=>"}) =>
    LET signals == {d.signal : d \in extractDependencies(expr)}
    IN \A context \in Contexts : LET r == evaluate(expr, context).reads IN \A i \in DOMAIN r : r[i] \in signals

\* Names are read in the order in which they are written, each once, whatever is cut short, but
\* for the object of a method, which is read twice, and for functions written in place.
RECURSIVE IsWithin(_, _)
IsWithin(short, long) ==
  \/ short = <<>>
  \/ long # <<>> /\ IF Head(short) = Head(long) THEN IsWithin(Tail(short), Tail(long)) ELSE IsWithin(short, Tail(long))

RECURSIVE CallsMethod(_)
CallsMethod(e) ==
  (e.op = "()" /\ e.args # <<>> /\ e.args[1].op \in {".", "[]"}) \/ \E i \in DOMAIN e.args : CallsMethod(e.args[i])

ReadsInOrder ==
  ~Uses(expr, {"=>"}) /\ ~CallsMethod(expr) =>
    LET tokens == SelectSeq(write(expr, 0), LAMBDA t : t.type = "identifier")
        names  == [i \in DOMAIN tokens |-> tokens[i].value]
    IN \A context \in Contexts : IsWithin(evaluate(expr, context).reads, names)
=============================================================================
