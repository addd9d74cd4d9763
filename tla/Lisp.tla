--------------------------------- MODULE Lisp ---------------------------------
(***************************************************************************)
(* The language the compiler is given, as far as it is about control: its    *)
(* forms, and which of them docs/specialforms.rst says are well formed.      *)
(***************************************************************************)
EXTENDS Integers, Sequences, SequencesExt

CONSTANTS Symbol,    \* the names a form may bind or look up
          Depth      \* bound: how deep forms are nested

ASSUME LispAssumption == Depth \in Nat /\ "e" \in Symbol

Nil  == <<"nil">>
True == <<"true">>

Function == {"f", "not", "boom"}

(* Forms.  args are the subforms; names the symbols a form binds, the init   *)
(* forms of a let* or loop* coming first among its args.                     *)
Const(v)              == [is |-> "const", val |-> v, args |-> <<>>]
Sym(x)                == [is |-> "symbol", name |-> x, args |-> <<>>]
Call(fn, args)        == [is |-> "invoke", name |-> fn, args |-> args]
Do(body)              == [is |-> "do", args |-> body]
If(test, then, else)  == [is |-> "if", args |-> <<test, then, else>>]
Let(names, args)      == [is |-> "let*", names |-> names, args |-> args]
Loop(names, args)     == [is |-> "loop*", names |-> names, args |-> args]
Recur(args)           == [is |-> "recur", args |-> args]
Throw(e)              == [is |-> "throw", args |-> <<e>>]
Yield(e)              == [is |-> "yield", args |-> <<e>>]

(* A try of a body, a catch that binds e or none, and a finally.             *)
Try(body, catches, finally) ==
  [is |-> "try", args |-> <<Do(body)>>, catches |-> catches, finally |-> finally]

(* ((fn* names body) args), the generator exhausted where fn* makes one.     *)
Invoke(names, body, args) ==
  [is |-> "fn*", names |-> names, body |-> body, args |-> args]

(* A call of a macro, and a special form that is not of the required shape.  *)
Macro(expansion) == [is |-> "macro", args |-> <<expansion>>]
Malformed        == [is |-> "malformed", args |-> <<>>]

BodyOf(f) == SubSeq(f.args, Len(f.names) + 1, Len(f.args))

(* The forms a form is made of.                                              *)
Parts(f) ==
  ToSet(f.args) \cup (IF f.is = "fn*" THEN ToSet(f.body) ELSE {})
                \cup (IF f.is = "try" THEN ToSet(f.catches) \cup ToSet(f.finally) ELSE {})

HasShape(f) ==
  /\ f.is \in {"let*", "loop*"} => Len(f.names) <= Len(f.args)
  /\ f.is = "if" => Len(f.args) = 3
  /\ f.is \in {"throw", "yield", "macro"} => Len(f.args) = 1
  /\ f.is = "try" => Len(f.args) = 1 /\ Len(f.catches) <= 1

(* The forms whose parts are among fs, and those nested less than n deep.    *)
FormsOver(fs) ==
  {f \in      [is : {"const"}, val : {Nil, True}, args : Seq(fs)]
         \cup [is : {"symbol"}, name : Symbol, args : {<<>>}]
         \cup [is : {"invoke"}, name : Function, args : Seq(fs)]
         \cup [is : {"do", "if", "recur", "throw", "yield", "macro", "malformed"}, args : Seq(fs)]
         \cup [is : {"let*", "loop*"}, names : Seq(Symbol), args : Seq(fs)]
         \cup [is : {"fn*"}, names : Seq(Symbol), body : Seq(fs), args : Seq(fs)]
         \cup [is : {"try"}, args : Seq(fs), catches : Seq(fs), finally : Seq(fs)] : HasShape(f)}

Nested[n \in 0..Depth] == IF n = 0 THEN {} ELSE FormsOver(Nested[n - 1])

Form == Nested[Depth]

(***************************************************************************)
(* Well-formedness: every symbol is bound, every special form has its shape, *)
(* yield is inside a function, and recur is last in a recursion point with   *)
(* as many names as it has arguments.  Where a form stands: the names in     *)
(* scope, where in its recursion point, of how many names, and whether in a  *)
(* function.  The lenient reader allows what the analyzer does not look for, *)
(* a recur in the arguments of another, and one in an init form of a loop*   *)
(* that is not last itself, but looks again at what a macro gives.           *)
(***************************************************************************)
Where == [scope : SUBSET Symbol, tail : {"last", "nowhere", "anywhere"}, arity : Int,
          fn : BOOLEAN, lenient : BOOLEAN]

TopLevel == [scope |-> {}, tail |-> "nowhere", arity |-> -1, fn |-> FALSE, lenient |-> FALSE]

AsLast(at)     == [at EXCEPT !.tail = "last"]
Inner(at)      == IF at.tail = "last" THEN [at EXCEPT !.tail = "nowhere"] ELSE at
Unchecked(at)  == [at EXCEPT !.tail = IF at.lenient THEN "anywhere" ELSE "nowhere"]
LoopInits(at)  == IF at.tail = "last" THEN Inner(at) ELSE Unchecked(at)
With(at, xs)   == [at EXCEPT !.scope = @ \cup xs]
Point(at, xs)  == [at EXCEPT !.scope = @ \cup ToSet(xs), !.tail = "last", !.arity = Len(xs)]

(* Several forms, a body, and init forms each in the scope of those before,  *)
(* when W says for each form where it is well formed.                        *)
All(W, fs, at)  == \A i \in DOMAIN fs : W[fs[i]][at]
Body(W, fs, at) == \A i \in DOMAIN fs : W[fs[i]][IF i = Len(fs) THEN at ELSE Inner(at)]
Inits(W, f, at) ==
  \A i \in DOMAIN f.names : W[f.args[i]][With(at, {f.names[j] : j \in 1..(i - 1)})]

Fits(W, f, at) ==
  CASE f.is = "const"     -> TRUE
    [] f.is = "malformed" -> FALSE
    [] f.is = "symbol"    -> f.name \in at.scope
    [] f.is = "invoke"    -> All(W, f.args, Inner(at))
    [] f.is = "do"        -> Body(W, f.args, at)
    [] f.is = "macro"     -> /\ W[f.args[1]][at]
                             /\ at.lenient => W[f.args[1]][AsLast(at)]
    [] f.is = "if"        -> W[f.args[1]][Inner(at)] /\ W[f.args[2]][at] /\ W[f.args[3]][at]
    [] f.is = "let*"      -> Inits(W, f, Inner(at)) /\ Body(W, BodyOf(f), With(at, ToSet(f.names)))
    [] f.is = "loop*"     -> Inits(W, f, LoopInits(at)) /\ Body(W, BodyOf(f), Point(at, f.names))
    [] f.is = "recur"     -> /\ at.tail # "nowhere" /\ Len(f.args) = at.arity
                             /\ All(W, f.args, Unchecked(at))
    [] f.is = "throw"     -> All(W, f.args, Inner(at))
    [] f.is = "yield"     -> at.fn /\ All(W, f.args, Inner(at))
    [] f.is = "try"       -> /\ W[f.args[1]][at]
                             /\ All(W, f.catches, With(Inner(at), {"e"}))
                             /\ All(W, f.finally, Inner(at))
    [] f.is = "fn*"       -> /\ All(W, f.args, Inner(at))
                             /\ Body(W, f.body, Point([at EXCEPT !.fn = TRUE], f.names))

WellFormed[f \in Form] == [at \in Where |-> Fits(WellFormed, f, at)]
=============================================================================
