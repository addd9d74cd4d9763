-------------------------------- MODULE Meaning --------------------------------
(***************************************************************************)
(* What evaluating a form does (docs/specialforms.rst).  A value is a tuple; *)
(* what a form does is the log of the calls of the three functions it may    *)
(* name and of the values it yields.                                        *)
(***************************************************************************)
EXTENDS Lisp, TLC

CONSTANT Turns    \* jumps to a recursion point before a program is stopped

ASSUME TurnsAssumption == Turns \in Nat

Exc == <<"exception">>

(* What a run has come to: the flow of control, the last value, the log and  *)
(* the jumps left.                                                           *)
Start == [flow |-> "next", val |-> Nil, log |-> <<>>, left |-> Turns]

Going(s)       == s.flow = "next"
Gives(s, v)    == [s EXCEPT !.val = v]
Leaves(s, how) == [s EXCEPT !.flow = how]
Logs(s, e)     == [s EXCEPT !.log = Append(@, e)]

(* A jump to a recursion point, of which a run has so many.                  *)
Jump(s) == IF s.left = 0 THEN Leaves(s, "stopped")
           ELSE [s EXCEPT !.flow = "next", !.left = @ - 1]

(* The functions: each records its call; f returns its last argument.        *)
Applied(fn, vals, s) ==
  LET t == Logs(s, <<fn, vals>>)
      v == IF vals = <<>> THEN True ELSE Last(vals)
  IN  CASE fn = "f"    -> Gives(t, v)
        [] fn = "not"  -> Gives(t, IF v = Nil THEN True ELSE Nil)
        [] fn = "boom" -> Leaves(Gives(t, Exc), "raise")

(* Does evaluating one of fs yield from the function they are the body of?   *)
RECURSIVE YieldsIn(_)
YieldsIn(fs) ==
  \E i \in DOMAIN fs :
    \/ fs[i].is = "yield"
    \/ YieldsIn(fs[i].args)
    \/ fs[i].is = "try" /\ (YieldsIn(fs[i].catches) \/ YieldsIn(fs[i].finally))

(* Evaluating a form; forms one after the other, their values in a tuple; a  *)
(* body; bindings, each seeing those before it; a loop from the values vals. *)
RECURSIVE Value(_, _, _), Values(_, _, _), Bound(_, _, _, _), Rounds(_, _, _, _)

Values(fs, env, s) ==
  IF fs = <<>> \/ ~Going(s) THEN IF Going(s) THEN Gives(s, <<>>) ELSE s
  ELSE LET first == Value(Head(fs), env, s)
           rest  == Values(Tail(fs), env, first)
       IN  IF Going(rest) THEN Gives(rest, <<first.val>> \o rest.val) ELSE rest

BodyValue(fs, env, s) ==
  LET r == Values(fs, env, s)
  IN  IF ~Going(r) THEN r ELSE Gives(r, IF fs = <<>> THEN Nil ELSE Last(r.val))

Bound(names, inits, env, s) ==
  IF names = <<>> THEN [env |-> env, s |-> s]
  ELSE LET r == Value(Head(inits), env, s)
       IN  IF Going(r) THEN Bound(Tail(names), Tail(inits), (Head(names) :> r.val) @@ env, r)
           ELSE [env |-> env, s |-> r]

Named(names, vals) == [x \in ToSet(names) |-> vals[CHOOSE i \in DOMAIN names : names[i] = x]]

Rounds(body, names, env, s) ==
  LET r == BodyValue(body, Named(names, s.val) @@ env, s)
      j == Jump(r)
  IN  IF r.flow # "recur" THEN r
      ELSE IF Going(j) THEN Rounds(body, names, env, j) ELSE j

(* catch takes an exception; finally runs whatever happened and only its own *)
(* exception, or its end, replaces that.                                     *)
TryValue(f, env, s) ==
  LET r == Value(f.args[1], env, s)
      c == IF r.flow = "raise" /\ f.catches # <<>>
           THEN Value(f.catches[1], ("e" :> r.val) @@ env, Leaves(r, "next")) ELSE r
      e == BodyValue(f.finally, env, Leaves(c, "next"))
  IN  IF c.flow = "stopped" \/ f.finally = <<>> THEN c
      ELSE IF Going(e) THEN [e EXCEPT !.flow = c.flow, !.val = c.val] ELSE e

InitsOf(f) == SubSeq(f.args, 1, Len(f.names))

Value(f, env, s) ==
  LET r == Values(f.args, env, s)
      b == Bound(f.names, InitsOf(f), env, s)
      vals == [i \in DOMAIN f.names |-> b.env[f.names[i]]]
      test == Value(f.args[1], env, s)
  IN  CASE f.is = "const"  -> Gives(s, f.val)
        [] f.is = "symbol" -> Gives(s, env[f.name])
        [] f.is = "invoke" -> IF Going(r) THEN Applied(f.name, r.val, r) ELSE r
        [] f.is \in {"do", "macro"} -> BodyValue(f.args, env, s)
        [] f.is = "if"     -> IF ~Going(test) THEN test
                              ELSE Value(f.args[IF test.val = Nil THEN 3 ELSE 2], env, test)
        [] f.is = "let*"   -> IF Going(b.s) THEN BodyValue(BodyOf(f), b.env, b.s) ELSE b.s
        [] f.is = "loop*"  -> IF Going(b.s) THEN Rounds(BodyOf(f), f.names, env, Gives(b.s, vals))
                              ELSE b.s
        [] f.is = "recur"  -> IF Going(r) THEN Leaves(r, "recur") ELSE r
        [] f.is = "throw"  -> IF Going(r) THEN Leaves(Gives(r, r.val[1]), "raise") ELSE r
        [] f.is = "yield"  -> IF Going(r) THEN Gives(Logs(r, <<"yield", r.val>>), Nil) ELSE r
        [] f.is = "try"    -> TryValue(f, env, s)
        [] f.is = "fn*"    ->
             LET q == Rounds(f.body, f.names, env, r)
             IN  IF ~Going(r) THEN r
                 ELSE IF Going(q) /\ YieldsIn(f.body) THEN Gives(q, Nil) ELSE q
=============================================================================
