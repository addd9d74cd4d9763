------------------------------- MODULE Compiler -------------------------------
(***************************************************************************)
(* A read-eval-print loop (cli.py) that compiles and runs one form after the *)
(* other with one compiler context (compiler/__init__.py).  A do that is     *)
(* typed is unrolled: each form in it is compiled and run before the next.   *)
(* An error of any step is reported and the loop goes on with what is typed  *)
(* next, and with the analyzer's context as the error left it.               *)
(*                                                                         *)
(* A generator that raises midway leaves its own stacks behind as well; what *)
(* is read after that is not modelled, "failed" is where the model ends.     *)
(***************************************************************************)
EXTENDS Analyzer

CONSTANTS First,              \* what may be typed first, in a sequence
          Later,              \* what may be typed after that, likewise
          MaxForms,           \* bound: forms typed before the end of the input
          PyModule(_, _),     \* the Python made of a tree in a context
          PyCompiles(_),      \* does Python compile it
          PyResult(_, _),     \* what running it gives, after what ran before
          PyReturns(_)        \* does that end normally

ASSUME CompilerAssumption ==
  /\ MaxForms \in Nat
  /\ First \in Seq(Form) /\ Later \in Seq(Form) /\ Const(Nil) \in Form

VARIABLES ctx,        \* the analyzer's context
          count,      \* forms typed
          phase,      \* how far the last one has come
          typed,      \* that form itself
          todo,       \* what is left of it to unroll
          form,       \* the form of it that is being compiled
          code,       \* its nodes, then the Python made of them
          last        \* what the last one to run gave, in a sequence; or none has run

vars == <<ctx, count, phase, typed, todo, form, code, last>>

Phase == {"prompt", "read", "analyzed", "compiled", "ran", "done",
          "nothing",     \* there was no form to compile
          "rejected",    \* the analyzer raised
          "refused",     \* Python does not compile what was generated
          "failed",      \* the generator raised
          "raised"}      \* what was compiled did not return

Init ==
  /\ ctx = NewContext
  /\ count = 0
  /\ phase = "prompt"
  /\ typed = Const(Nil) /\ todo = <<>> /\ form = Const(Nil) /\ code = <<>> /\ last = <<>>

(* A nil is not compiled.                                                    *)
IsNil(f) == f = Const(Nil)

Read ==
  /\ phase = "prompt" /\ count < MaxForms
  /\ LET choice == IF count = 0 THEN First ELSE Later
     IN  \E i \in DOMAIN choice : typed' = choice[i]
  /\ count' = count + 1
  /\ todo' = <<typed'>>
  /\ phase' = IF IsNil(typed') THEN "done" ELSE "read"
  /\ UNCHANGED <<ctx, form, code, last>>

Unrolling == phase \in {"read", "ran"}

Unroll ==
  /\ Unrolling /\ todo # <<>> /\ Head(todo).is = "do"
  /\ todo' = Head(todo).args \o Tail(todo)
  /\ UNCHANGED <<ctx, count, phase, typed, form, code, last>>

AnalyzeForm ==
  /\ Unrolling /\ todo # <<>> /\ Head(todo).is # "do"
  /\ form' = Head(todo) /\ todo' = Tail(todo)
  /\ LET a == Analyze[form']["expression"][ctx]
     IN  /\ ctx' = a.ctx
         /\ code' = a.nodes
         /\ phase' = IF a.ok THEN "analyzed" ELSE "rejected"
  /\ UNCHANGED <<count, typed, last>>

(* The generator keeps tables of its own, which hold nothing of what is left *)
(* in the analyzer's: it raises for a symbol or a recur it does not know.    *)
\* Mutant: a recur needs no recursion point.
IsUnknownSymbol(n) == n.frames \cap DOMAIN ctx.frames # {}

IsUnknown(n) == n.frames \cap DOMAIN ctx.frames # {} \/ n.points \cap DOMAIN ctx.points # {}

GenerateCode ==
  /\ phase = "analyzed"
  /\ LET module == PyModule(code[1], ctx)
     IN  IF IsUnknown(code[1]) THEN phase' = "failed" /\ code' = <<>>
         ELSE /\ code' = module
              /\ phase' = IF PyCompiles(module) THEN "compiled" ELSE "refused"
  /\ UNCHANGED <<ctx, count, typed, todo, form, last>>

Run ==
  /\ phase = "compiled"
  /\ LET outcome == PyResult(code, last)
     IN  /\ last' = <<outcome>>
         /\ phase' = IF PyReturns(outcome) THEN "ran" ELSE "raised"
  /\ code' = <<>>
  /\ UNCHANGED <<ctx, count, typed, todo, form>>

(* A form must have been compiled.                                           *)
Finish ==
  /\ Unrolling /\ todo = <<>>
  /\ phase' = IF last = <<>> THEN "nothing" ELSE "done"
  /\ UNCHANGED <<ctx, count, typed, todo, form, code, last>>

Prompt ==
  /\ phase \in {"done", "nothing", "rejected", "refused", "raised"}
  /\ phase' = "prompt"
  /\ typed' = Const(Nil) /\ todo' = <<>> /\ form' = Const(Nil) /\ code' = <<>> /\ last' = <<>>
  /\ UNCHANGED <<ctx, count>>

Next == Read \/ Unroll \/ AnalyzeForm \/ GenerateCode \/ Run \/ Finish \/ Prompt

Spec == Init /\ [][Next]_vars
=============================================================================
