------------------------------ MODULE MCCompiler ------------------------------
(* What is typed: forms two contexts deep around an atom, in the scope of an *)
(* x that is bound once as a name and once as a loop's or a function's.      *)
EXTENDS TranslationProps

AllSymbols == {"x", "y", "z", "e"}

X == Sym("x")
FX == Call("f", <<X>>)
RecurX(f) == If(X, Recur(<<f>>), FX)
MacroLet(names, args)  == Macro(Let(names, args))
MacroLoop(names, args) == Macro(Loop(names, args))

Atoms == <<X, Const(Nil), FX, Call("not", <<X>>), Call("boom", <<>>),
          Sym("y"), Recur(<<>>), Malformed>>

Around(h) ==
  <<Call("f", <<h>>), Call("f", <<h, X>>), Call("f", <<FX, h>>), Call("f", <<X, h>>),
   Do(<<h, X>>), Do(<<FX, h>>), Macro(Do(<<h>>)),
   If(h, FX, Call("boom", <<>>)), If(X, h, Const(Nil)), If(Call("not", <<X>>), FX, h),
   MacroLet(<<"x">>, <<h, FX>>), MacroLet(<<"y", "z">>, <<FX, h, Sym("y")>>),
   MacroLet(<<"y">>, <<X, h>>), Let(<<"y">>, <<h, Sym("y")>>),
   MacroLoop(<<"x">>, <<h, RecurX(Call("not", <<X>>))>>), MacroLoop(<<"y">>, <<X, RecurX(h)>>),
   MacroLoop(<<"y", "x">>, <<X, h, If(Sym("y"), Recur(<<X, Call("not", <<Sym("y")>>)>>), FX)>>),
   MacroLoop(<<"x">>, <<X, h, FX>>), Loop(<<"x">>, <<Const(True), h>>),
   Recur(<<h>>), RecurX(h), Throw(h), Yield(h),
   Try(<<h>>, <<>>, <<>>), Try(<<h>>, <<>>, <<X>>),
   Try(<<h>>, <<Do(<<Call("f", <<Sym("e")>>)>>)>>, <<>>), Try(<<FX, h>>, <<>>, <<FX>>),
   Try(<<Call("boom", <<>>)>>, <<Do(<<FX, h>>)>>, <<FX, X>>), Try(<<X>>, <<>>, <<h, FX>>),
   Invoke(<<"x">>, <<h>>, <<FX>>), Invoke(<<"x">>, <<Yield(X), h>>, <<Const(Nil)>>),
   Invoke(<<"y", "x">>, <<FX>>, <<X, h>>)>>

Tops(h) == <<MacroLet(<<"x">>, <<Const(True), h>>), MacroLoop(<<"x">>, <<Const(Nil), FX, h>>),
            Invoke(<<"x">>, <<h, X>>, <<Const(True)>>),
            Invoke(<<"x">>, <<Yield(FX), h>>, <<Const(True)>>)>>

Each(F(_), hs) ==
  LET n == Len(F(hs[1]))
  IN  [i \in 1..Len(hs) * n |-> F(hs[((i - 1) \div n) + 1])[((i - 1) % n) + 1]]

Once     == Each(Around, Atoms)
Twice    == Each(Around, Once)
Alone    == Each(Tops, Atoms \o Once \o Twice)

(* What is typed next, at the top level.                                     *)
AllLater == Atoms \o <<Recur(<<X>>), Call("f", <<Const(Nil)>>), MacroLet(<<"x">>, <<Const(Nil), FX>>),
                        MacroLoop(<<"x">>, <<Const(True), RecurX(Const(Nil))>>),
                        MacroLet(<<"x">>, <<Const(Nil), Recur(<<X>>)>>),
                        Invoke(<<"x">>, <<RecurX(Const(Nil))>>, <<Const(True)>>),
                        Yield(Const(Nil)), Do(<<Yield(Const(Nil)), Const(Nil)>>),
                        If(Yield(Const(Nil)), Const(True), Const(Nil))>>

(* A do of several forms at the top level, which is unrolled.                *)
Several(h) ==
  [i \in DOMAIN AllLater |-> Do(<<h, AllLater[i]>>)]
    \o <<Do(<<>>), Do(<<Do(<<h, FX>>), Do(<<>>), h>>), Do(<<Do(<<Do(<<h>>)>>), Const(Nil)>>),
         Do(<<Call("boom", <<>>), h>>), Do(<<Let(<<"x">>, <<Const(True), FX>>), h>>)>>
Shallow  == Each(Tops, Atoms)
Blocks   == Each(Several, Shallow)
AllForms == Alone \o Blocks
=============================================================================
