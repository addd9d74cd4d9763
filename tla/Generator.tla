------------------------------- MODULE Generator -------------------------------
(***************************************************************************)
(* compiler/generator.py: a tree of nodes becomes Python.  Generating a node *)
(* gives an expression for its value and the statements that expression      *)
(* depends on, its dependencies.  compiler/optimizer.py then drops what does *)
(* nothing or is never reached.                                              *)
(*                                                                         *)
(* A name the compiler makes up is a kind and the place of the node in the   *)
(* tree, so no two are equal.  here holds what the generator context knows   *)
(* at a node: the Python names of the symbols in scope, whether recursion is *)
(* a function's or a loop's, a loop's names, and whether the function yields.*)
(***************************************************************************)
EXTENDS Analyzer, Python

Generated(deps, node) == [deps |-> deps, node |-> node]
Noop == PConst(Nil)

Genname(kind, at) == <<kind>> \o at
NewSymbol(here, x, name) == [here EXCEPT !.symbols = (x :> name) @@ @]

(* Dependencies of several nodes, all before any of their expressions; and   *)
(* nodes as statements but for the last one's expression.                    *)
ChainDeps(gs) == FlattenSeq([i \in DOMAIN gs |-> gs[i].deps])
Nodes(gs)     == [i \in DOMAIN gs |-> gs[i].node]
Reduce(gs)    ==
  Generated(FlattenSeq([i \in DOMAIN gs |->
              gs[i].deps \o IF i = Len(gs) THEN <<>> ELSE <<gs[i].node>>]), Last(gs).node)

RECURSIVE GenPyAst(_, _, _)

GenAll(ns, at, here) == [i \in DOMAIN ns |-> GenPyAst(ns[i], Append(at, i), here)]

(* One branch of an if, its value assigned if the if is an expression.       *)
IfBody(g, result) ==
  g.deps \o IF result = <<>> THEN <<g.node>> ELSE <<Assign(<<result>>, <<g.node>>)>>

IfToPyAst(n, at, here) ==
  LET g      == GenAll(n.args, at, here)
      result == IF n.pos = "expression" THEN Genname("if_result", at) ELSE <<>>
      isName == g[1].node.p = "name"
      test   == IF isName THEN g[1].node.name ELSE Genname("if_test", at)
  IN  Generated(g[1].deps \o (IF isName THEN <<>> ELSE <<Assign(<<test>>, <<g[1].node>>)>>)
                  \o <<IfNil(test, IfBody(g[3], result), IfBody(g[2], result))>>,
                IF result = <<>> THEN Noop ELSE Name(result))

(* The bindings of a let or loop: dependencies and an assignment for each,   *)
(* and the symbols they add.                                                 *)
RECURSIVE Bindings(_, _, _, _)
Bindings(n, i, at, here) ==
  IF i > Len(n.info.names) THEN [code |-> <<>>, here |-> here]
  ELSE LET g    == GenPyAst(n.args[i], Append(at, i), here)
           name == Genname(n.info.names[i], Append(at, i))
           rest == Bindings(n, i + 1, at, NewSymbol(here, n.info.names[i], name))
       IN  [rest EXCEPT !.code = g.deps \o <<Assign(<<name>>, <<g.node>>)>> \o @]

(* A let's body is its value only where the let is an expression.            *)
LetToPyAst(n, at, here) ==
  LET b    == Bindings(n, 1, at, here)
      body == GenPyAst(Last(n.args), Append(at, 0), b.here)
  IN  IF n.pos = "expression" THEN Generated(b.code \o body.deps, body.node)
      ELSE Generated(b.code \o body.deps \o <<body.node>>, Noop)

(* In a function that yields a loop is a while, its names assigned anew by   *)
(* recur; elsewhere it is a trampolined function of its names.               *)
LoopToPyAst(n, at, here) ==
  LET b       == Bindings(n, 1, at, here)
      names   == [i \in DOMAIN n.info.names |-> Genname(n.info.names[i], Append(at, i))]
      params  == [i \in DOMAIN n.info.names |-> Genname(n.info.names[i], at \o <<i, 0>>)]
      result  == Genname("loop_result", at)
      inWhile == GenPyAst(Last(n.args), Append(at, 0),
                          [b.here EXCEPT !.recur = "loop", !.names = names])
      inFn    == GenPyAst(Last(n.args), Append(at, 0),
                          [b.here EXCEPT !.recur = "fn", !.symbols = Named(n.info.names, params) @@ @])
  IN  IF here.generator
      THEN Generated(<<Assign(<<result>>, <<Noop>>)>> \o b.code
                       \o <<While(inWhile.deps \o <<Assign(<<result>>, <<inWhile.node>>), PBreak>>)>>,
                     Name(result))
      ELSE Generated(b.code \o <<Def(Genname("loop", at), params,
                                     inFn.deps \o <<Return(inFn.node)>>, FALSE)>>,
                     CallOf(Genname("loop", at), [i \in DOMAIN names |-> Name(names[i])]))

(* A recur is a value that makes the trampoline call again, or in a while    *)
(* the assignment of all names at once and a continue.                       *)
RecurToPyAst(n, at, here) ==
  LET g == GenAll(n.args, at, here)
  IN  IF here.recur = "fn" THEN Generated(ChainDeps(g), TrampolineArgs(Nodes(g)))
      ELSE Generated(ChainDeps(g) \o <<Assign(here.names, Nodes(g)), PContinue>>, Noop)

(* ((fn* ...) ...): the definition, then the arguments, then the call.       *)
FnToPyAst(n, at, here) ==
  LET name   == Genname("fn", at)
      params == [i \in DOMAIN n.info.names |-> Genname(n.info.names[i], at \o <<0, i>>)]
      body   == GenPyAst(Last(n.args), Append(at, 0),
                         [symbols |-> Named(n.info.names, params) @@ here.symbols, recur |-> "fn",
                          names |-> <<>>, generator |-> n.info.generator])
      args   == GenAll(Front(n.args), at, here)
  IN  Generated(<<Def(name, params, body.deps \o <<Return(body.node)>>, n.info.generator)>>
                  \o ChainDeps(args), CallOf(name, Nodes(args)))

(* Body and handlers assign the value; finally only does what it does.       *)
TryToPyAst(n, at, here) ==
  LET value   == Genname("try_expr", at)
      e       == Genname("e", at)
      Keeps(g) == g.deps \o <<Assign(<<value>>, <<g.node>>)>>
      Gen(i, h) == GenPyAst(n.args[i], Append(at, i), h)
      final   == Gen(Len(n.args), here)
  IN  Generated(<<PTry(Keeps(Gen(1, here)), e,
                       [k \in 1..n.info.caught |-> Keeps(Gen(1 + k, NewSymbol(here, "e", e)))],
                       IF Len(n.args) = 1 + n.info.caught THEN <<>> ELSE final.deps \o <<final.node>>)>>,
                Name(value))

(* A call's dependencies all run before its function and arguments are       *)
(* evaluated; likewise those of whatever else has several parts.             *)
InvokeToPyAst(n, g)   == Generated(ChainDeps(g), PCall(n.info.name, Nodes(g)))
LocalSymToPyAst(n, here) == Generated(<<>>, Name(here.symbols[n.info.name]))
ThrowToPyAst(g)       == Generated(g[1].deps \o <<Raise(g[1].node)>>, Noop)
YieldToPyAst(g)       == Generated(g[1].deps, PYield(g[1].node))
ConstNodeToPyAst(n)   == Generated(<<>>, PConst(n.info.val))

GenPyAst(n, at, here) ==
  LET g == GenAll(n.args, at, here)
  IN  CASE n.op = "const"  -> ConstNodeToPyAst(n)
        [] n.op = "local"  -> LocalSymToPyAst(n, here)
        [] n.op = "invoke" -> InvokeToPyAst(n, g)
        [] n.op = "do"     -> Reduce(g)
        [] n.op = "if"     -> IfToPyAst(n, at, here)
        [] n.op = "let*"   -> LetToPyAst(n, at, here)
        [] n.op = "loop*"  -> LoopToPyAst(n, at, here)
        [] n.op = "recur"  -> RecurToPyAst(n, at, here)
        [] n.op = "fn*"    -> FnToPyAst(n, at, here)
        [] n.op = "try"    -> TryToPyAst(n, at, here)
        [] n.op = "throw"  -> ThrowToPyAst(g)
        [] n.op = "yield"  -> YieldToPyAst(g)

(* compiler/optimizer.py: the statements of a block up to the first that      *)
(* leaves it.                                                               *)
\* Mutant: what leaves a block is dropped with what follows it.
FilterDeadCodeShort(b) ==
  LET leaving == {i \in DOMAIN b : b[i].p \in {"break", "continue", "raise", "return"}}
  IN  IF leaving = {} THEN b ELSE SubSeq(b, 1, Min(leaving) - 1)

FilterDeadCode(b) ==
  LET leaving == {i \in DOMAIN b : b[i].p \in {"break", "continue", "raise", "return"}}
  IN  IF leaving = {} THEN b ELSE SubSeq(b, 1, Min(leaving))

(* Statements without constants and names, and without an if that has nothing *)
(* left; the blocks within them have no dead code.                           *)
RECURSIVE Optimized(_)
Optimized(b) ==
  LET Block(c) == FilterDeadCode(Optimized(c))
      Visited(t) ==
        CASE t.p = "if nil" -> [t EXCEPT !.body = Block(@), !.orelse = Block(@)]
          [] t.p \in {"while", "def"} -> [t EXCEPT !.body = Block(@)]
          [] t.p = "try"    -> [t EXCEPT !.body = Block(@), !.final = Block(@),
                                         !.handlers = [k \in DOMAIN @ |-> Block(@[k])]]
          [] OTHER          -> t
      Kept(t) == /\ t.p \notin {"const", "name"}
                 /\ ~(t.p = "if nil" /\ t.body = <<>> /\ t.orelse = <<>>)
  IN  SelectSeq([i \in DOMAIN b |-> Visited(b[i])], Kept)

(* Only the function context is the analyzer's: a loop outside any function  *)
(* takes the innermost one that was left behind for its own.                 *)
AtTopLevel(ctx) ==
  [symbols |-> <<>>, recur |-> "none", names |-> <<>>,
   generator |-> ctx.functions # <<>> /\ Last(ctx.functions)]

(* The dependencies stand in the module, the value in a function that returns *)
(* it.  Dead code in the module itself stays.                               *)
ModuleOf(node, ctx) ==
  LET g == GenPyAst(node, <<>>, AtTopLevel(ctx))
  IN  Append(Optimized(g.deps), Return(g.node))
=============================================================================
