--------------------------- MODULE TranslationProps ----------------------------
(***************************************************************************)
(* What the compiler promises: what it makes of a well-formed form does what *)
(* the language says.                                                       *)
(***************************************************************************)
EXTENDS CompilerProps, Generator

(* A form and all the forms within it.                                       *)
RECURSIVE Within(_)
Within(f) == {f} \cup UNION {Within(g) : g \in Parts(f)}

(* A recur of the function or loop that has fs for its body.                 *)
RECURSIVE RecursIn(_)
RecursIn(fs) ==
  \E i \in DOMAIN fs :
    \/ fs[i].is = "recur"
    \/ fs[i].is # "loop*" /\ RecursIn(fs[i].args)

(* The forms the promise does not hold for, each of which the code gets      *)
(* wrong; README.md says how.  First, a later argument is made of statements, *)
(* an earlier one does something.                                            *)
RECURSIVE IsInline(_)
IsInline(f) == \/ f.is \in {"const", "symbol"}
               \/ f.is \in {"invoke", "yield"} /\ \A i \in DOMAIN f.args : IsInline(f.args[i])
IsPure(f)   == f.is \in {"const", "symbol"}
OutOfOrder(f) ==
  /\ f.is \in {"invoke", "recur", "fn*"}
  /\ \E i, k \in DOMAIN f.args : i < k /\ ~IsPure(f.args[i]) /\ ~IsInline(f.args[k])

(* A let* or loop* that no macro put there, where a statement stands.        *)
RECURSIVE IsRaw(_)
IsRaw(f) == \/ f.is \in {"let*", "loop*"}
            \/ f.is \in {"if", "do", "try"} /\ \E i \in DOMAIN f.args : IsRaw(f.args[i])
RawStatement(f) ==
  LET statements == CASE f.is = "do" -> Front(f.args)
                      [] f.is \in {"let*", "loop*"} -> Front(BodyOf(f))
                      [] f.is = "fn*" -> Front(f.body)
                      [] f.is = "try" -> f.finally
                      [] OTHER -> <<>>
  IN  \E i \in DOMAIN statements : IsRaw(statements[i])

(* A function that yields and recurs; a try that has neither a catch nor a   *)
(* finally that does anything.                                               *)
RecursAndYields(f) == f.is = "fn*" /\ RecursIn(f.body) /\ YieldsIn(f.body)
NothingToDo(f) ==
  f.is = "try" /\ f.catches = <<>> /\ \A i \in DOMAIN f.finally : IsPure(f.finally[i])

IsKnownGap(g) ==
  \E f \in Within(g) : OutOfOrder(f) \/ RawStatement(f) \/ RecursAndYields(f) \/ NothingToDo(f)

(* The forms a form that is typed stands for, with those within a do; a do   *)
(* that has none in it is not compiled either.                               *)
RECURSIVE Unrolled(_)
Unrolled(f) == IF f.is = "do" THEN UNION {Unrolled(g) : g \in ToSet(f.args)} ELSE {f}

(* generator.py, optimizer.py: the Python made of a well-formed form, its    *)
(* statements pulled out of its expressions and the dead ones dropped, calls *)
(* and yields the same things in the same order as the form means, and ends  *)
(* with the same value or exception; also where the form is a do whose forms *)
(* are compiled and run one by one, up to the first that raises.             *)
RunsAsMeant ==
  LET meant   == Value(typed, <<>>, Start)
      outcome == IF last = <<>> THEN Leaves(Start, "return") ELSE last[1]
  IN  /\ phase \in {"done", "raised"} /\ WellFormed[typed][TopLevel]
      /\ \A g \in Unrolled(typed) : ~IsKnownGap(g)
      =>
        /\ outcome.log = meant.log
        /\ outcome.flow = IF meant.flow = "next" THEN "return" ELSE meant.flow
        /\ meant.flow # "stopped" => outcome.val = meant.val

(* compiler/__init__.py: a well-formed form comes through the generator and  *)
(* Python's compiler, whatever an earlier error left in the context, and only *)
(* where nothing is in a do is there nothing to compile.                      *)
WellFormedCompiles ==
  /\ phase \in {"refused", "failed"} => ~IsWellFormed \/ IsKnownGap(form)
  /\ phase = "nothing" => Unrolled(typed) = {}

(* docs/specialforms.rst:323: "Recursion points are checked lexically, so    *)
(* recur forms may only be defined in the same lexical context as a construct *)
(* which defines a recursion point": what an earlier form left behind is not  *)
(* a recursion point of this one.                                            *)
CheckedLexically == phase = "analyzed" => ~RecursIn(<<form>>)
=============================================================================
