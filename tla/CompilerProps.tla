----------------------------- MODULE CompilerProps -----------------------------
(***************************************************************************)
(* What the analyzer promises: the forms that are accepted, and that run,    *)
(* are the well-formed ones.                                                *)
(***************************************************************************)
EXTENDS Compiler

IsWellFormed == WellFormed[form][TopLevel]

(* As the analyzer reads the form, and with the functions that errors have   *)
(* left behind for one around it.                                            *)
IsAcceptable   == WellFormed[form][[TopLevel EXCEPT !.lenient = TRUE]]
IsAcceptableIn ==
  WellFormed[form][[TopLevel EXCEPT !.lenient = TRUE, !.fn = ctx.functions # <<>>]]

TypeOK ==
  /\ ctx \in Context
  /\ count \in 0..MaxForms
  /\ phase \in Phase
  /\ typed \in Form /\ todo \in Seq(Form)
  /\ form \in Form

(* analyzer.py: every check of the analysis, wherever in the form it bites,  *)
(* adds up to the language's: what is rejected is ill formed, and where      *)
(* nothing was rejected before, what is ill formed is rejected.              *)
RejectsWhatIsIllFormed ==
  /\ phase = "rejected" => ~IsWellFormed
  /\ phase = "analyzed" /\ count = 1 => IsAcceptable

(* analyzer.py: what an error leaves behind may let an ill-formed form       *)
(* through the analyzer, but then the generator does not know the symbol or  *)
(* the recursion point, and it does not run.  Only a function left behind    *)
(* counts, for a yield.                                                      *)
OnlyWellFormedRuns == phase \in {"ran", "raised"} => IsAcceptableIn

(* Of two stacks of function contexts, only whether the innermost yields may *)
(* differ, and only by being set.                                            *)
SameFunctions(old, new) ==
  /\ Len(new) = Len(old)
  /\ \A i \in 1..Len(old) : new[i] = old[i] \/ (i = Len(old) /\ new[i])

(* analyzer.py: the analysis of a form it accepts undoes all that it pushed. *)
AcceptedLeavesNothing ==
  [][phase' = "analyzed" /\ phase # "analyzed" =>
       /\ ctx'.frames = ctx.frames /\ ctx'.points = ctx.points
       /\ SameFunctions(ctx.functions, ctx'.functions)]_vars
=============================================================================
