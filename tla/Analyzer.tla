------------------------------- MODULE Analyzer -------------------------------
(***************************************************************************)
(* compiler/analyzer.py: a form is checked and becomes a tree of nodes.      *)
(*                                                                         *)
(* The context holds stacks of symbol-table frames, recursion points and     *)
(* function contexts.  They are pushed by context managers that pop only     *)
(* when their block ends without an exception, so a rejected form leaves     *)
(* behind what it had pushed; only the stack of syntactic positions is       *)
(* restored whatever happens, which is why a position is an argument here.   *)
(***************************************************************************)
EXTENDS Lisp

Position == {"expression", "statement"}

(* The first frame is the context's own, in which nothing is ever bound.     *)
Context ==
  {c \in [frames : Seq(SUBSET Symbol), points : Seq(Nat), functions : Seq(BOOLEAN)] :
     c.frames # <<>> /\ c.frames[1] = {}}

NewContext == [frames |-> <<{}>>, points |-> <<>>, functions |-> <<>>]

NewSymbolTable(ctx, names)  == [ctx EXCEPT !.frames = Append(@, names)]
NewRecurPoint(ctx, arity)   == [ctx EXCEPT !.points = Append(@, arity)]
NewFuncCtx(ctx)             == [ctx EXCEPT !.functions = Append(@, FALSE)]
PopSymbolTable(ctx)         == [ctx EXCEPT !.frames = Front(@)]
PopRecurPoint(ctx)          == [ctx EXCEPT !.points = Front(@)]
PopFuncCtx(ctx)             == [ctx EXCEPT !.functions = Front(@)]
PutNewSymbols(ctx, names)   == [ctx EXCEPT !.frames[Len(ctx.frames)] = @ \cup names]

(* The frames that bind a name; the innermost counts.                        *)
FindSymbol(ctx, x) == {k \in DOMAIN ctx.frames : x \in ctx.frames[k]}

(***************************************************************************)
(* Nodes.  What a visitor finds below a node is kept with it: whether a recur *)
(* belongs to a point above it (_assert_no_recur), whether each such recur   *)
(* is in its tail position (_assert_recur_is_tail), and the frames and       *)
(* recursion points that its symbols and recurs refer to.                    *)
(***************************************************************************)
NoneRecurs(ns) == \A i \in DOMAIN ns : ~ns[i].recurs

(* A function's body, the last of its parts, is a recursion point of its own; *)
(* a loop is not looked into at all, not even its init forms.                *)
Recurs(op, args) ==
  CASE op = "recur" -> TRUE
    [] op = "loop*" -> FALSE
    [] op = "fn*"   -> ~NoneRecurs(Front(args))
    [] OTHER        -> ~NoneRecurs(args)

\* Mutant: a recur may end the finally of a try.
RecurEndsTry(op, args) ==
  CASE op = "try"            -> \A i \in DOMAIN args : args[i].tail
    [] op \in {"do", "let*"} -> NoneRecurs(Front(args)) /\ Last(args).tail
    [] op = "loop*"          -> NoneRecurs(Front(args))
    [] op = "if"             -> ~args[1].recurs /\ args[2].tail /\ args[3].tail
    [] op = "recur"          -> TRUE
    [] OTHER                 -> ~Recurs(op, args)

RecurIsTail(op, args) ==
  CASE op \in {"do", "let*"} -> NoneRecurs(Front(args)) /\ Last(args).tail
    [] op = "loop*"          -> NoneRecurs(Front(args))
    [] op = "if"             -> ~args[1].recurs /\ args[2].tail /\ args[3].tail
    [] op = "recur"          -> TRUE
    [] op = "try"            -> args[1].tail /\ NoneRecurs(Tail(args))
    [] OTHER                 -> ~Recurs(op, args)

NoInfo == [none |-> TRUE]

Node(op, pos, args, info) ==
  [op |-> op, pos |-> pos, args |-> args, info |-> info,
   recurs |-> Recurs(op, args),
   tail   |-> RecurIsTail(op, args),
   frames |-> (IF op = "local" THEN {info.frame} ELSE {}) \cup UNION {args[i].frames : i \in DOMAIN args},
   points |-> (IF op = "recur" THEN {info.point} ELSE {}) \cup UNION {args[i].points : i \in DOMAIN args}]
ConstNode(v, pos) == Node("const", pos, <<>>, [val |-> v])

(***************************************************************************)
(* Analyzing.  A result is the context, and the nodes unless it raised.  A   *)
(* says what analyzing a part of the form gives.                             *)
(***************************************************************************)
Raises(ctx)      == [ok |-> FALSE, ctx |-> ctx, nodes |-> <<>>]
Returns(ctx, ns) == [ok |-> TRUE, ctx |-> ctx, nodes |-> ns]

Statements(fs, pos) ==
  [i \in DOMAIN fs |-> [form |-> fs[i], pos |-> IF i = Len(fs) THEN pos ELSE "statement", binds |-> {}]]
Expressions(fs) == [i \in DOMAIN fs |-> [form |-> fs[i], pos |-> "expression", binds |-> {}]]
InitForms(f, pos) ==
  [i \in DOMAIN f.names |-> [form |-> f.args[i], pos |-> pos, binds |-> {f.names[i]}]]

Branches(f, pos) ==
  [i \in 1..3 |-> [form |-> f.args[i], pos |-> IF i = 1 THEN "expression" ELSE pos, binds |-> {}]]

(* One form after another, each with its position and the names that are     *)
(* bound after it, until one raises.                                         *)
AnalyzeNext(A, item, before) ==
  LET r == A[item.form][item.pos][before.ctx]
  IN  IF ~before.ok THEN before
      ELSE IF r.ok THEN Returns(PutNewSymbols(r.ctx, item.binds), before.nodes \o r.nodes)
      ELSE r

AnalyzeAll(A, items, ctx) ==
  LET upTo[n \in 0..Len(items)] ==
        IF n = 0 THEN Returns(ctx, <<>>) ELSE AnalyzeNext(A, items[n], upTo[n - 1])
  IN  upTo[Len(items)]

(* What is made of the nodes, unless an analysis raised.                     *)
Makes(a, node) == IF a.ok THEN Returns(a.ctx, <<node>>) ELSE a

(* A body: all but the last form as statements, the last in the position of  *)
(* the form they are the body of; an empty one returns nil.                  *)
AnalyzeBody(A, fs, pos, ctx) ==
  LET a == AnalyzeAll(A, Statements(fs, pos), ctx)
  IN  Makes(a, Node("do", pos, IF fs = <<>> THEN <<ConstNode(Nil, pos)>> ELSE a.nodes, NoInfo))

(* Bindings: each init in the position of the whole form, then its name.     *)
LetAst(A, f, pos, ctx) ==
  LET i == AnalyzeAll(A, InitForms(f, pos), NewSymbolTable(ctx, {}))
      b == AnalyzeBody(A, BodyOf(f), pos, i.ctx)
  IN  IF ~i.ok THEN i ELSE IF ~b.ok THEN b
      ELSE Returns(PopSymbolTable(b.ctx),
                   <<Node("let*", pos, i.nodes \o b.nodes, [names |-> f.names])>>)

\* Mutant: the recursion point outlives the loop.
LoopAstLeft(A, f, pos, ctx) ==
  LET i == AnalyzeAll(A, InitForms(f, pos), NewSymbolTable(ctx, {}))
      b == AnalyzeBody(A, BodyOf(f), pos, NewRecurPoint(i.ctx, Len(f.names)))
  IN  IF ~i.ok THEN i ELSE IF ~b.ok THEN b
      ELSE Returns(PopSymbolTable(b.ctx),
                   <<Node("loop*", pos, i.nodes \o b.nodes, [names |-> f.names])>>)

(* A loop: its names are bound, then its body is a recursion point.          *)
LoopAst(A, f, pos, ctx) ==
  LET i == AnalyzeAll(A, InitForms(f, pos), NewSymbolTable(ctx, {}))
      b == AnalyzeBody(A, BodyOf(f), pos, NewRecurPoint(i.ctx, Len(f.names)))
  IN  IF ~i.ok THEN i ELSE IF ~b.ok THEN b
      ELSE IF ~b.nodes[1].tail THEN Raises(b.ctx)
      ELSE Returns(PopSymbolTable(PopRecurPoint(b.ctx)),
                   <<Node("loop*", pos, i.nodes \o b.nodes, [names |-> f.names])>>)

(* A function of one arity, then the arguments it is called with.            *)
FnAst(A, f, pos, ctx) ==
  LET frames == NewSymbolTable(NewSymbolTable(ctx, {}), ToSet(f.names))
      b == AnalyzeBody(A, f.body, "expression", NewFuncCtx(NewRecurPoint(frames, Len(f.names))))
      left == PopFuncCtx(b.ctx)
      a == AnalyzeAll(A, Expressions(f.args), PopSymbolTable(PopSymbolTable(PopRecurPoint(left))))
  IN  IF ~b.ok THEN b
      ELSE IF ~b.nodes[1].tail THEN Raises(left)
      ELSE Makes(a, Node("fn*", pos, a.nodes \o b.nodes,
                         [names |-> f.names, generator |-> Last(b.ctx.functions)]))

\* Mutant: the frame of a catch is dropped also where there is none.
CatchAstPopped(A, fs, pos, ctx) ==
  LET c == IF fs = <<>> THEN Returns(ctx, <<>>)
           ELSE A[fs[1]][pos][NewSymbolTable(ctx, {"e"})]
  IN  IF c.ok THEN Returns(PopSymbolTable(c.ctx), c.nodes) ELSE c

(* A catch binds e in a frame of its own; a finally is always a statement.   *)
CatchAst(A, fs, pos, ctx) ==
  IF fs = <<>> THEN Returns(ctx, <<>>)
  ELSE LET c == A[fs[1]][pos][NewSymbolTable(ctx, {"e"})]
       IN  IF c.ok THEN Returns(PopSymbolTable(c.ctx), c.nodes) ELSE c

TryAst(A, f, pos, ctx) ==
  LET b == A[f.args[1]][pos][ctx]
      c == CatchAst(A, f.catches, pos, b.ctx)
      e == IF f.finally = <<>> THEN Returns(c.ctx, <<>>)
           ELSE AnalyzeBody(A, f.finally, "statement", c.ctx)
  IN  IF ~b.ok THEN b ELSE IF ~c.ok THEN c
      ELSE Makes(e, Node("try", pos, b.nodes \o c.nodes \o e.nodes, [caught |-> Len(c.nodes)]))

(* recur needs a recursion point of as many names as it has arguments, and   *)
(* analyzes its arguments as expressions.                                    *)
RecurAst(A, f, pos, ctx) ==
  LET a == AnalyzeAll(A, Expressions(f.args), ctx)
  IN  IF ctx.points = <<>> \/ Last(ctx.points) # Len(f.args) THEN Raises(ctx)
      ELSE Makes(a, Node("recur", pos, a.nodes, [point |-> Len(ctx.points)]))

YieldAst(A, f, pos, ctx) ==
  LET a == AnalyzeAll(A, Expressions(f.args), [ctx EXCEPT !.functions[Len(ctx.functions)] = TRUE])
  IN  IF ctx.functions = <<>> THEN Raises(ctx)
      ELSE Makes(a, Node("yield", pos, a.nodes, NoInfo))

\* Mutant: a macro's expansion takes the position of the call.
MacroAstInPlace(A, f, pos, ctx) ==
  LET a == A[f.args[1]][pos][ctx]
  IN  IF a.ok /\ a.ctx.points # <<>> /\ ~a.nodes[1].tail THEN Raises(a.ctx) ELSE a

(* A macro's expansion is an expression wherever the call stands; its recurs *)
(* are checked at once if there is a recursion point.                        *)
MacroAst(A, f, pos, ctx) ==
  LET a == A[f.args[1]]["expression"][ctx]
  IN  IF a.ok /\ a.ctx.points # <<>> /\ ~a.nodes[1].tail THEN Raises(a.ctx) ELSE a

SymbolNode(f, pos, ctx) ==
  IF FindSymbol(ctx, f.name) = {} THEN Raises(ctx)
  ELSE Returns(ctx, <<Node("local", pos, <<>>,
                           [name |-> f.name, frame |-> Max(FindSymbol(ctx, f.name))])>>)

IfAst(A, f, pos, ctx) ==
  LET a == AnalyzeAll(A, Branches(f, pos), ctx) IN Makes(a, Node("if", pos, a.nodes, NoInfo))

ThrowAst(A, f, pos, ctx) ==
  LET a == AnalyzeAll(A, Expressions(f.args), ctx) IN Makes(a, Node("throw", pos, a.nodes, NoInfo))

InvokeAst(A, f, pos, ctx) ==
  LET a == AnalyzeAll(A, Expressions(f.args), ctx)
  IN  Makes(a, Node("invoke", pos, a.nodes, [name |-> f.name]))

AnalyzeOne(A, f, pos, ctx) ==
  CASE f.is = "const"     -> Returns(ctx, <<ConstNode(f.val, pos)>>)
    [] f.is = "malformed" -> Raises(ctx)
    [] f.is = "symbol"    -> SymbolNode(f, pos, ctx)
    [] f.is = "invoke"    -> InvokeAst(A, f, pos, ctx)
    [] f.is = "do"        -> AnalyzeBody(A, f.args, pos, ctx)
    [] f.is = "if"        -> IfAst(A, f, pos, ctx)
    [] f.is = "let*"      -> LetAst(A, f, pos, ctx)
    [] f.is = "loop*"     -> LoopAst(A, f, pos, ctx)
    [] f.is = "fn*"       -> FnAst(A, f, pos, ctx)
    [] f.is = "try"       -> TryAst(A, f, pos, ctx)
    [] f.is = "throw"     -> ThrowAst(A, f, pos, ctx)
    [] f.is = "recur"     -> RecurAst(A, f, pos, ctx)
    [] f.is = "yield"     -> YieldAst(A, f, pos, ctx)
    [] f.is = "macro"     -> MacroAst(A, f, pos, ctx)

Analyze[f \in Form] ==
  [pos \in Position |-> [ctx \in Context |-> AnalyzeOne(Analyze, f, pos, ctx)]]
=============================================================================
