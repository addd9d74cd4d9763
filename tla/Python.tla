-------------------------------- MODULE Python --------------------------------
(***************************************************************************)
(* The Python the compiler emits, and what running it does.  Statements and  *)
(* expressions are records; an expression may stand where a statement does.  *)
(* A function is run in the variables of the place it is called from, which  *)
(* for the functions the compiler emits is the place where it is defined.    *)
(***************************************************************************)
EXTENDS Meaning

PConst(v)            == [p |-> "const", val |-> v]
Name(x)              == [p |-> "name", name |-> x]
PCall(fn, args)      == [p |-> "call", name |-> fn, args |-> args]
CallOf(name, args)   == [p |-> "call of", name |-> name, args |-> args]
TrampolineArgs(args) == [p |-> "trampoline args", args |-> args]
PYield(e)            == [p |-> "yield", args |-> <<e>>]

Assign(xs, es)       == [p |-> "assign", names |-> xs, args |-> es]
IfNil(x, yes, no)    == [p |-> "if nil", name |-> x, body |-> yes, orelse |-> no]
While(body)          == [p |-> "while", body |-> body]
Return(e)            == [p |-> "return", args |-> <<e>>]
Raise(e)             == [p |-> "raise", args |-> <<e>>]
PBreak               == [p |-> "break"]
PContinue            == [p |-> "continue"]
Def(name, params, body, generator) ==
  [p |-> "def", name |-> name, names |-> params, body |-> body, generator |-> generator]

(* At most one handler; it binds the name to the exception.                  *)
PTry(body, name, handlers, final) ==
  [p |-> "try", body |-> body, name |-> name, handlers |-> handlers, final |-> final]

IsExpression(e) == e.p \in {"const", "name", "call", "call of", "trampoline args", "yield"}

(* Python compiles a try only with a handler or a finally.                   *)
RECURSIVE Compiles(_)
Compiles(b) ==
  \A i \in DOMAIN b :
    LET t == b[i]
    IN  CASE t.p = "try"    -> /\ t.handlers # <<>> \/ t.final # <<>>
                               /\ Compiles(t.body) /\ Compiles(t.final)
                               /\ \A k \in DOMAIN t.handlers : Compiles(t.handlers[k])
          [] t.p = "if nil" -> Compiles(t.body) /\ Compiles(t.orelse)
          [] t.p \in {"while", "def"} -> Compiles(t.body)
          [] OTHER          -> TRUE

(* A yield in the expressions and statements of a block, which makes a       *)
(* generator of the function the block is the body of.                       *)
RECURSIVE Yields(_)
Yields(b) ==
  \E i \in DOMAIN b :
    LET t == b[i]
    IN  CASE t.p = "yield"  -> TRUE
          [] t.p = "while"  -> Yields(t.body)
          [] t.p = "if nil" -> Yields(t.body) \/ Yields(t.orelse)
          [] t.p = "try"    -> \/ Yields(t.body) \/ Yields(t.final)
                               \/ \E k \in DOMAIN t.handlers : Yields(t.handlers[k])
          [] t.p \in {"const", "name", "break", "continue", "def"} -> FALSE
          [] OTHER          -> Yields(t.args)

(* A module ends with the function that returns its value; what comes before *)
(* it stands outside any function, where Python allows no yield.             *)
ModuleCompiles(m) == Compiles(m) /\ ~Yields(Front(m))

(* runtime.py: _TrampolineArgs as a value.                                   *)
Again(vals)    == <<"again", vals>>
IsAgain(v)     == v[1] = "again"
Callable(d)    == <<"function", d>>

(* Running: an expression, expressions one after the other, a statement, a   *)
(* block, a function with arguments vals, an endless while.                  *)
RECURSIVE Eval(_, _), Evals(_, _), Exec(_, _), ExecAll(_, _), Trampoline(_, _, _), Repeat(_, _)

Evals(es, s) ==
  IF es = <<>> THEN Gives(s, <<>>)
  ELSE LET first == Eval(Head(es), s)
           rest  == Evals(Tail(es), first)
       IN  IF ~Going(first) THEN first ELSE IF ~Going(rest) THEN rest
           ELSE Gives(rest, <<first.val>> \o rest.val)

ExecAll(b, s) == IF b = <<>> \/ ~Going(s) THEN s ELSE ExecAll(Tail(b), Exec(Head(b), s))

Set(s, xs, vals) == [s EXCEPT !.vars = Named(xs, vals) @@ @]

(* runtime._trampoline: call again as long as the result says so.            *)
Trampoline(d, vals, s) ==
  LET r == ExecAll(d.body, Set(s, d.names, vals))
      back == [r EXCEPT !.vars = s.vars, !.flow = IF @ = "return" THEN "next" ELSE @]
      j == Jump(back)
  IN  IF ~Going(back) THEN back
      ELSE IF d.generator THEN Gives(back, Nil)
      ELSE IF ~IsAgain(back.val) THEN back
      ELSE IF Going(j) THEN Trampoline(d, back.val[2], j) ELSE j

Eval(e, s) ==
  LET r == Evals(e.args, s)
  IN  IF e.p = "const" THEN Gives(s, e.val)
      ELSE IF e.p = "name"
           THEN IF e.name \in DOMAIN s.vars THEN Gives(s, s.vars[e.name])
                ELSE Leaves(s, "name error")
      ELSE IF ~Going(r) THEN r
      ELSE CASE e.p = "call"            -> Applied(e.name, r.val, r)
             [] e.p = "call of"         -> Trampoline(r.vars[e.name][2], r.val, r)
             [] e.p = "trampoline args" -> Gives(r, Again(r.val))
             [] e.p = "yield"           -> Gives(Logs(r, <<"yield", r.val>>), Nil)

Repeat(body, s) ==
  LET r == ExecAll(body, s)
      j == Jump(r)
  IN  CASE r.flow = "break"    -> Leaves(r, "next")
        [] r.flow = "continue" -> IF Going(j) THEN Repeat(body, j) ELSE j
        [] OTHER               -> r

(* The name a handler binds is gone after it; a finally that ends normally   *)
(* lets what happened before it happen.                                      *)
ExecTry(t, s) ==
  LET b == ExecAll(t.body, s)
      h == ExecAll(t.handlers[1], Leaves(Set(b, <<t.name>>, <<b.val>>), "next"))
      c == IF b.flow = "raise" /\ t.handlers # <<>>
           THEN [h EXCEPT !.vars = [x \in DOMAIN @ \ {t.name} |-> @[x]]] ELSE b
      f == ExecAll(t.final, Leaves(c, "next"))
  IN  IF c.flow = "stopped" THEN c
      ELSE IF Going(f) THEN [f EXCEPT !.flow = c.flow, !.val = c.val] ELSE f

Exec(t, s) ==
  LET r == Evals(t.args, s)
  IN  CASE IsExpression(t)  -> Eval(t, s)
        [] t.p = "def"      -> Set(s, <<t.name>>, <<Callable(t)>>)
        [] t.p = "if nil"   -> LET n == Eval(Name(t.name), s)
                               IN  ExecAll(IF n.val = Nil THEN t.body ELSE t.orelse, n)
        [] t.p = "while"    -> Repeat(t.body, s)
        [] t.p = "try"      -> ExecTry(t, s)
        [] t.p \in {"break", "continue"} -> Leaves(s, t.p)
        [] t.p = "assign"   -> IF Going(r) THEN Set(r, t.names, r.val) ELSE r
        [] t.p \in {"return", "raise"} ->
             IF Going(r) THEN Leaves(Gives(r, r.val[1]), t.p) ELSE r

(* The module's statements run, then its function is called; with a yield in *)
(* it the function only makes a generator.  The module goes on from what the  *)
(* one before it has come to, if there was one.                              *)
ExecModule(m, before) ==
  LET from == IF before = <<>> THEN Start ELSE Leaves(before[1], "next")
      s == ExecAll(Front(m), [vars |-> <<>>] @@ from)
  IN  IF ~Going(s) THEN s
      ELSE IF Yields(<<Last(m)>>) THEN Leaves(Gives(s, Nil), "return")
      ELSE Exec(Last(m), s)

ModuleReturns(outcome) == outcome.flow = "return"
=============================================================================
