--------------------------- MODULE CompilerProofs ---------------------------
(***************************************************************************)
(* Proofs about the session at the prompt, for any forms typed, any number  *)
(* of them and any back end: the analyzer's three theorems about all forms, *)
(* carried through the loop by an inductive invariant.                      *)
(***************************************************************************)
EXTENDS CompilerProps, AnalyzerProofs

(* The time each leaf is given: most need a second, a busy machine needs more. *)
USE SMTT(60), ZenonT(60)

(* A new context is a context.                                              *)
LEMMA NewContextOK == NewContext \in Context
<1>1. PICK s : s = <<{}>> OBVIOUS
<1>2. {} \in SUBSET Symbol OBVIOUS
<1>3. s \in Seq(SUBSET Symbol) /\ s # <<>> /\ s[1] = {} BY <1>1, <1>2
<1>4. << >> \in Seq(Nat) /\ << >> \in Seq(BOOLEAN) OBVIOUS
<1>5. [frames |-> s, points |-> <<>>, functions |-> <<>>] \in Context BY <1>3, <1>4, ContextMade
<1>6. QED BY <1>1, <1>5 DEF NewContext

(* TypeOK holds at the start.                                               *)
LEMMA InitTypeOK ==
  Init => TypeOK
<1>1. SUFFICES ASSUME Init PROVE TypeOK OBVIOUS
<1>2. NewContext \in Context BY NewContextOK
<1>3. 0 \in 0..MaxForms /\ Const(Nil) \in Form BY CompilerAssumption
<1>4. << >> \in Seq(Form) OBVIOUS
<1>5. QED BY <1>1, <1>2, <1>3, <1>4 DEF Init, TypeOK, Phase

(* The first of the forms left to unroll is a form, and so are the others.  *)
LEMMA TodoFacts ==
  ASSUME TypeOK, todo # <<>>
  PROVE  Head(todo) \in Form /\ Tail(todo) \in Seq(Form)
<1>1. todo \in Seq(Form) BY DEF TypeOK
<1>2. QED BY <1>1, HeadTailProperties

(* What analyzing a form does to the context of the compiler.               *)
LEMMA AnalyzeFormResult ==
  ASSUME TypeOK, AnalyzeForm
  PROVE  /\ form' \in Form /\ todo' \in Seq(Form)
         /\ IsResult(ctx, Analyze[form']["expression"][ctx])
         /\ ctx' = Analyze[form']["expression"][ctx].ctx
         /\ code' = Analyze[form']["expression"][ctx].nodes
         /\ phase' = IF Analyze[form']["expression"][ctx].ok THEN "analyzed" ELSE "rejected"
         /\ typed' = typed /\ count' = count
<1>1. form' = Head(todo) /\ todo' = Tail(todo) /\ todo # <<>> BY DEF AnalyzeForm
<1>2. form' \in Form /\ todo' \in Seq(Form) BY <1>1, TodoFacts
<1>3. ctx \in Context /\ "expression" \in Position BY DEF TypeOK, Position
<1>4. PICK f \in Form : f = form' BY <1>2
<1>5. Good(f) BY EveryFormGood
<1>6. IsResult(ctx, Analyze[f]["expression"][ctx]) BY <1>3, <1>5 DEF Good
<1>7. QED BY <1>2, <1>4, <1>6 DEF AnalyzeForm

(* Every step keeps TypeOK.                                                 *)
LEMMA StepTypeOK ==
  TypeOK /\ [Next]_vars => TypeOK'
<1> SUFFICES ASSUME TypeOK, [Next]_vars PROVE TypeOK' OBVIOUS
<1>1. /\ ctx \in Context /\ count \in 0..MaxForms /\ phase \in Phase
      /\ typed \in Form /\ todo \in Seq(Form) /\ form \in Form
  BY DEF TypeOK
<1>2. CASE Read
  <2>1. PICK choice : choice = (IF count = 0 THEN First ELSE Later) OBVIOUS
  <2>2. choice \in Seq(Form) BY <2>1, CompilerAssumption
  <2>3. \E i \in DOMAIN choice : typed' = choice[i] BY <1>2, <2>1 DEF Read
  <2>4. DOMAIN choice = 1..Len(choice) BY <2>2, LenProperties
  <2>5. typed' \in Form BY <2>2, <2>3, <2>4, ElementOfSeq
  <2>6. /\ ctx' = ctx /\ count' = count + 1 /\ count < MaxForms /\ form' = form
        /\ todo' = <<typed'>> /\ phase' \in {"read", "done"}
    BY <1>2 DEF Read
  <2>7. count' \in 0..MaxForms BY <1>1, <2>6, CompilerAssumption
  <2>8. todo' \in Seq(Form) BY <2>5, <2>6
  <2>9. QED BY <1>1, <2>5, <2>6, <2>7, <2>8 DEF TypeOK, Phase
<1>3. CASE Unroll
  <2>1. todo # <<>> /\ todo' = Head(todo).args \o Tail(todo) BY <1>3 DEF Unroll
  <2>2. Head(todo) \in Form /\ Tail(todo) \in Seq(Form) BY <2>1, TodoFacts
  <2>3. Head(todo).args \in Seq(Form) BY <2>2, FormFacts
  <2>4. todo' \in Seq(Form) BY <2>1, <2>2, <2>3, ConcatProperties
  <2>5. QED BY <1>1, <1>3, <2>4 DEF Unroll, TypeOK
<1>4. CASE AnalyzeForm
  <2>1. ctx' \in Context BY <1>4, AnalyzeFormResult DEF IsResult
  <2>2. /\ phase' \in Phase /\ form' \in Form /\ todo' \in Seq(Form)
        /\ typed' = typed /\ count' = count
    BY <1>4, AnalyzeFormResult DEF Phase
  <2>3. QED BY <1>1, <2>1, <2>2 DEF TypeOK
<1>5. CASE GenerateCode
  <2>1. /\ ctx' = ctx /\ count' = count /\ typed' = typed /\ todo' = todo /\ form' = form
        /\ phase' \in Phase
    BY <1>5 DEF GenerateCode, Phase
  <2>2. QED BY <1>1, <2>1 DEF TypeOK
<1>6. CASE Run BY <1>1, <1>6 DEF Run, TypeOK, Phase
<1>7. CASE Finish BY <1>1, <1>7 DEF Finish, TypeOK, Phase
<1>8. CASE Prompt
  <2>1. << >> \in Seq(Form) OBVIOUS
  <2>2. QED BY <1>1, <1>8, <2>1, CompilerAssumption DEF Prompt, TypeOK, Phase
<1>9. CASE UNCHANGED vars BY <1>1, <1>9 DEF vars, TypeOK
<1>10. QED BY <1>2, <1>3, <1>4, <1>5, <1>6, <1>7, <1>8, <1>9 DEF Next

(* TypeOK.                                                                  *)
THEOREM CompilerTypeCorrect == Spec => []TypeOK
<1>1. QED BY InitTypeOK, StepTypeOK, PTL DEF Spec

(* Every step does what AcceptedLeavesNothing says.                         *)
LEMMA StepLeavesNothing ==
  TypeOK /\ [Next]_vars =>
    [phase' = "analyzed" /\ phase # "analyzed" =>
       /\ ctx'.frames = ctx.frames /\ ctx'.points = ctx.points
       /\ SameFunctions(ctx.functions, ctx'.functions)]_vars
<1> SUFFICES ASSUME TypeOK, Next, phase' = "analyzed", phase # "analyzed"
             PROVE  /\ ctx'.frames = ctx.frames /\ ctx'.points = ctx.points
                    /\ SameFunctions(ctx.functions, ctx'.functions)
  OBVIOUS
<1>1. AnalyzeForm BY DEF Next, Read, Unroll, GenerateCode, Run, Finish, Prompt
<1>2. PICK r : r = Analyze[form']["expression"][ctx] OBVIOUS
<1>3. IsResult(ctx, r) /\ ctx' = r.ctx /\ phase' = IF r.ok THEN "analyzed" ELSE "rejected"
  BY <1>1, <1>2, AnalyzeFormResult
<1>4. r.ok BY <1>3
<1>5. Undone(ctx, ctx') BY <1>3, <1>4 DEF IsResult
<1>6. QED BY <1>5 DEF Undone, Flagged, SameFunctions

(* AcceptedLeavesNothing.                                                   *)
THEOREM AcceptedFormsAreUndone == Spec => AcceptedLeavesNothing
<1>1. TypeOK /\ [Next]_vars =>
        [phase' = "analyzed" /\ phase # "analyzed" =>
           /\ ctx'.frames = ctx.frames /\ ctx'.points = ctx.points
           /\ SameFunctions(ctx.functions, ctx'.functions)]_vars
  BY StepLeavesNothing
<1>2. QED BY <1>1, InitTypeOK, StepTypeOK, PTL DEF Spec, AcceptedLeavesNothing

----------------------------------------------------------------------------
(* The loop.                                                                *)

(* The place at the top level, also for the lenient reader.                 *)
LEMMA TopFacts ==
  /\ TopLevel \in Where /\ TopLevel.scope = {} /\ TopLevel.tail = "nowhere"
  /\ TopLevel.arity = -1 /\ ~TopLevel.fn /\ ~TopLevel.lenient
<1>1. PICK none \in SUBSET Symbol : none = {} OBVIOUS
<1>2. PICK t \in {"last", "nowhere", "anywhere"} : t = "nowhere" OBVIOUS
<1>3. PICK a \in Int : a = -1 OBVIOUS
<1>4. PICK no \in BOOLEAN : no = FALSE OBVIOUS
<1>5. PICK at : at = TopLevel OBVIOUS
<1>6. at = [scope |-> none, tail |-> t, arity |-> a, fn |-> no, lenient |-> no]
  BY <1>1, <1>2, <1>3, <1>4, <1>5, Zenon DEF TopLevel
<1>7. at \in Where /\ at.scope = none /\ at.tail = t /\ at.arity = a /\ at.fn = no /\ at.lenient = no
  BY <1>6, WhereMade
<1>8. QED BY <1>1, <1>2, <1>3, <1>4, <1>5, <1>7

(* The place at the top level for the lenient reader, in a function or not. *)
LEMMA LenientTop ==
  ASSUME NEW h \in BOOLEAN, NEW y, y = [TopLevel EXCEPT !.lenient = TRUE, !.fn = h]
  PROVE  /\ y \in Where /\ y.scope = {} /\ y.tail = "nowhere" /\ y.arity = -1
         /\ y.fn = h /\ y.lenient = TRUE
         /\ ~h => y = [TopLevel EXCEPT !.lenient = TRUE]
<1>1. PICK at : at = TopLevel OBVIOUS
<1>2. at \in Where /\ at.scope = {} /\ at.tail = "nowhere" /\ at.arity = -1 /\ ~at.fn
  BY <1>1, TopFacts
<1>3. y = [at EXCEPT !.lenient = TRUE, !.fn = h] BY <1>1, Zenon
<1>4. y \in Where /\ y.scope = at.scope /\ y.tail = at.tail /\ y.arity = at.arity
        /\ y.fn = h /\ y.lenient = TRUE
  BY <1>2, <1>3 DEF Where
<1>5. PICK z : z = [at EXCEPT !.lenient = TRUE] OBVIOUS
<1>6. z \in Where /\ z.scope = at.scope /\ z.tail = at.tail /\ z.arity = at.arity
        /\ z.fn = at.fn /\ z.lenient = TRUE
  BY <1>2, <1>5 DEF Where
<1>7. ~h => y.fn = z.fn
  <2>1. at.fn \in BOOLEAN BY <1>2, WhereFacts
  <2>2. ~h => h = at.fn BY <1>2, <2>1
  <2>3. QED BY <1>4, <1>6, <2>2
<1>8. ~h => y = z BY <1>4, <1>6, <1>7, SameWhere
<1>9. ~h => y = [TopLevel EXCEPT !.lenient = TRUE] BY <1>1, <1>5, <1>8
<1>10. QED BY <1>2, <1>4, <1>9

(* Every context offers the place at the top level.                         *)
LEMMA TopIsOffered ==
  ASSUME NEW c \in Context
  PROVE  TopLevel \in Where /\ Offers(c, TopLevel)
<1>1. PICK at : at = TopLevel OBVIOUS
<1>2. at \in Where /\ at.scope = {} /\ at.tail = "nowhere" /\ ~at.fn /\ ~at.lenient
  BY <1>1, TopFacts
<1>3. Strict(at) BY <1>2 DEF Strict
<1>4. Offers(c, at) BY <1>2, <1>3 DEF Offers
<1>5. QED BY <1>1, <1>2, <1>4

(* What is rejected is ill formed: every context offers the top level.      *)
LEMMA RejectedIsIllFormed ==
  ASSUME NEW f \in Form, NEW pos \in Position, NEW c \in Context, ~Analyze[f][pos][c].ok
  PROVE  ~WellFormed[f][TopLevel]
<1>1. SUFFICES ASSUME WellFormed[f][TopLevel] PROVE FALSE OBVIOUS
<1>2. TopLevel \in Where /\ Offers(c, TopLevel) BY TopIsOffered
<1>3. Takes(f) BY EveryFormTaken
<1>4. Taken(Analyze[f][pos][c], TopLevel.tail) BY <1>1, <1>2, <1>3 DEF Takes
<1>5. QED BY <1>4 DEF Taken

(* The place where all there is in the context is left behind.              *)
LEMMA TopPlace ==
  ASSUME NEW c \in Context, NEW b, b = Len(c.frames), NEW p, p = Len(c.points)
  PROVE  /\ Base(c, b, p)
         /\ Place(c, b, p, "nowhere")
              = [TopLevel EXCEPT !.lenient = TRUE, !.fn = c.functions # <<>>]
<1>1. c.points \in Seq(Nat) BY ContextFacts
<1>2. b \in Nat /\ p \in Nat BY <1>1, ContextFacts, LenProperties
<1>3. Base(c, b, p) BY <1>2 DEF Base
<1>4. Bound(c, b) = {}
  <2>1. (b + 1)..b = {} BY <1>2
  <2>2. QED BY <2>1 DEF Bound
<1>5. ArityIn(c, p) = -1 BY <1>2 DEF ArityIn
<1>6. PICK t \in Tails : t = "nowhere" BY DEF Tails
<1>7. PICK x : x = Place(c, b, p, t) OBVIOUS
<1>8. /\ x \in Where /\ x.scope = {} /\ x.tail = "nowhere" /\ x.arity = -1
      /\ x.fn <=> c.functions # <<>>
      /\ x.lenient
  <2>1. IsPlace(x, c, b, p, t) BY <1>3, <1>7, PlaceFacts
  <2>2. QED BY <1>4, <1>5, <1>6, <2>1 DEF IsPlace
<1>9. PICK h \in BOOLEAN : h = (c.functions # <<>>) OBVIOUS
<1>10. PICK y : y = [TopLevel EXCEPT !.lenient = TRUE, !.fn = h] OBVIOUS
<1>11. /\ y \in Where /\ y.scope = {} /\ y.tail = "nowhere" /\ y.arity = -1
       /\ y.fn = h /\ y.lenient = TRUE
  BY <1>10, LenientTop
<1>12. x.fn = y.fn /\ x.lenient = y.lenient
  <2>1. x.fn \in BOOLEAN /\ x.lenient \in BOOLEAN BY <1>8, WhereFacts
  <2>2. QED BY <1>8, <1>9, <1>11, <2>1
<1>13. x = y BY <1>8, <1>11, <1>12, SameWhere
<1>14. QED BY <1>3, <1>6, <1>7, <1>9, <1>10, <1>13

(* A new context leaves nothing behind.                                     *)
LEMMA NewPlace ==
  /\ NewContext \in Context /\ Base(NewContext, 1, 0)
  /\ Place(NewContext, 1, 0, "nowhere") = [TopLevel EXCEPT !.lenient = TRUE]
<1>1. PICK c : c = NewContext OBVIOUS
<1>2. PICK s : s = <<{}>> OBVIOUS
<1>3. c.frames = s /\ c.points = <<>> /\ c.functions = <<>> BY <1>1, <1>2, Zenon DEF NewContext
<1>4. {} \in SUBSET Symbol OBVIOUS
<1>5. s \in Seq(SUBSET Symbol) /\ Len(s) = 1 BY <1>2, <1>4
<1>6. c \in Context BY <1>1, NewContextOK
<1>7. PICK b : b = Len(c.frames) OBVIOUS
<1>8. PICK p : p = Len(c.points) OBVIOUS
<1>9. b = 1 /\ p = 0 BY <1>3, <1>5, <1>7, <1>8
<1>10. Base(c, b, p)
         /\ Place(c, b, p, "nowhere") = [TopLevel EXCEPT !.lenient = TRUE, !.fn = c.functions # <<>>]
  BY <1>6, <1>7, <1>8, TopPlace
<1>11. PICK h \in BOOLEAN : h = (c.functions # <<>>) OBVIOUS
<1>12. PICK y : y = [TopLevel EXCEPT !.lenient = TRUE, !.fn = h] OBVIOUS
<1>13. ~h BY <1>3, <1>11
<1>14. y = [TopLevel EXCEPT !.lenient = TRUE] BY <1>12, <1>13, LenientTop
<1>15. Place(c, b, p, "nowhere") = y BY <1>10, <1>11, <1>12
<1>16. QED BY <1>1, <1>6, <1>9, <1>10, <1>14, <1>15

(* Of what a new context accepts, and of what refers to nothing that was in  *)
(* the context when it was accepted.                                        *)
LEMMA AcceptedIsWellFormed ==
  ASSUME NEW f \in Form, NEW pos \in Position, NEW c \in Context,
         NEW r, r = Analyze[f][pos][c], r.ok
  PROVE  /\ c = NewContext => WellFormed[f][[TopLevel EXCEPT !.lenient = TRUE]]
         /\ r.nodes[1].frames \cap DOMAIN c.frames = {} /\ r.nodes[1].points \cap DOMAIN c.points = {} =>
              WellFormed[f][[TopLevel EXCEPT !.lenient = TRUE, !.fn = c.functions # <<>>]]
<1>1. PICK x : x = r.nodes[1] OBVIOUS
<1>2. IsNode(x) BY <1>1, OneIs DEF IsResult
<1>3. ShowsAt(f, c, r) BY EveryFormShows DEF Shows
<1>4. PICK t \in Tails : t = "nowhere" BY DEF Tails
<1>5. c.points \in Seq(Nat) BY ContextFacts
<1>6. ASSUME c = NewContext PROVE WellFormed[f][[TopLevel EXCEPT !.lenient = TRUE]]
  <2>1. PICK b \in Nat : b = 1 OBVIOUS
  <2>2. PICK p \in Nat : p = 0 OBVIOUS
  <2>3. Base(c, b, p) /\ Place(c, b, p, t) = [TopLevel EXCEPT !.lenient = TRUE]
    BY <1>4, <1>6, <2>1, <2>2, NewPlace
  <2>4. 1..b = {1} /\ 1..p = {} BY <2>1, <2>2
  <2>5. Clear(x, b, p) BY <1>2, <2>4 DEF Clear, IsNode
  <2>6. c.points = <<>> BY <1>6 DEF NewContext
  <2>7. ~(Len(c.points) > p) BY <2>2, <2>6
  <2>8. Stands(x, c, b, p, t) BY <2>5, <2>7 DEF Stands
  <2>9. Stands(r.nodes[1], c, b, p, t) BY <1>1, <2>8
  <2>10. WellFormed[f][Place(c, b, p, t)] BY <1>3, <2>3, <2>9 DEF ShowsAt
  <2>11. QED BY <2>3, <2>10
<1>7. ASSUME x.frames \cap DOMAIN c.frames = {}, x.points \cap DOMAIN c.points = {}
      PROVE  WellFormed[f][[TopLevel EXCEPT !.lenient = TRUE, !.fn = c.functions # <<>>]]
  <2>1. PICK b \in Nat : b = Len(c.frames) BY ContextFacts
  <2>2. PICK p \in Nat : p = Len(c.points) BY <1>5, LenProperties
  <2>3. Base(c, b, p)
          /\ Place(c, b, p, t) = [TopLevel EXCEPT !.lenient = TRUE, !.fn = c.functions # <<>>]
    BY <1>4, <2>1, <2>2, TopPlace
  <2>4. DOMAIN c.frames = 1..b /\ DOMAIN c.points = 1..p
    BY <1>5, <2>1, <2>2, ContextFacts, LenProperties
  <2>5. Clear(x, b, p) BY <1>7, <2>4 DEF Clear
  <2>6. ~(Len(c.points) > p) BY <2>2
  <2>7. Stands(x, c, b, p, t) BY <2>5, <2>6 DEF Stands
  <2>8. Stands(r.nodes[1], c, b, p, t) BY <1>1, <2>7
  <2>9. WellFormed[f][Place(c, b, p, t)] BY <1>3, <2>3, <2>8 DEF ShowsAt
  <2>10. QED BY <2>3, <2>9
<1>8. QED BY <1>1, <1>6, <1>7

(* An analysis that is undone leaves a new context a new one.               *)
LEMMA NewStaysNew ==
  ASSUME NEW d \in Context, Undone(NewContext, d)
  PROVE  d = NewContext
<1>1. PICK c : c = NewContext OBVIOUS
<1>2. c \in Context /\ c.functions = <<>> BY <1>1, NewContextOK DEF NewContext
<1>3. d.frames = c.frames /\ d.points = c.points /\ Flagged(c.functions, d.functions)
  BY <1>1 DEF Undone
<1>4. c.functions \in Seq(BOOLEAN) /\ d.functions \in Seq(BOOLEAN) BY <1>2, ContextFacts
<1>5. d.functions = <<>> BY <1>2, <1>3, <1>4, FlaggedEmpty
<1>6. QED BY <1>1, <1>2, <1>3, <1>5, ContextSame

(* The form has been accepted in a context as it was before.                *)
AcceptedIn(old) ==
  /\ old \in Context /\ Analyze[form]["expression"][old].ok
  /\ code = Analyze[form]["expression"][old].nodes
  /\ Undone(old, ctx)

(* What the first form is read into, and what each form of a do leaves for  *)
(* the next.                                                                *)
StartsAfresh ==
  /\ phase # "prompt" => count # 0
  /\ count = 0 => ctx = NewContext
  /\ count = 1 /\ phase \in {"read", "analyzed", "compiled", "ran"} => ctx = NewContext

(* The inductive invariant of the loop.                                     *)
Inv ==
  /\ TypeOK
  /\ StartsAfresh
  /\ RejectsWhatIsIllFormed
  /\ phase = "analyzed" => \E old \in Context : AcceptedIn(old)
  /\ phase \in {"compiled", "ran", "raised"} => IsAcceptableIn

(* The inductive invariant holds at the start.                              *)
LEMMA InitInv == Init => Inv
<1>1. SUFFICES ASSUME Init PROVE Inv OBVIOUS
<1>2. TypeOK BY <1>1, InitTypeOK
<1>3. phase = "prompt" /\ ctx = NewContext BY <1>1 DEF Init
<1>4. QED BY <1>2, <1>3 DEF Inv, StartsAfresh, RejectsWhatIsIllFormed

(* Every step keeps the inductive invariant.                                *)
LEMMA StepInv == Inv /\ [Next]_vars => Inv'
<1> SUFFICES ASSUME Inv, [Next]_vars PROVE Inv' OBVIOUS
<1>1. TypeOK' BY StepTypeOK DEF Inv
<1>2. TypeOK /\ StartsAfresh BY DEF Inv
<1>3. ctx \in Context /\ form \in Form /\ count \in Nat BY <1>2, CompilerAssumption DEF TypeOK
<1>4. CASE Read
  <2>1. /\ phase = "prompt" /\ phase' \in {"read", "done"} /\ count' = count + 1 /\ ctx' = ctx
    BY <1>4 DEF Read
  <2>2. count' # 0 /\ (count' = 1 => count = 0) BY <1>3, <2>1
  <2>3. StartsAfresh' BY <1>2, <2>1, <2>2 DEF StartsAfresh
  <2>4. QED BY <1>1, <2>1, <2>3 DEF Inv, RejectsWhatIsIllFormed
<1>5. CASE AnalyzeForm
  <2>1. PICK r : r = Analyze[form']["expression"][ctx] OBVIOUS
  <2>2. /\ IsResult(ctx, r) /\ ctx' = r.ctx /\ code' = r.nodes
        /\ phase' = IF r.ok THEN "analyzed" ELSE "rejected"
        /\ form' \in Form /\ count' = count
    BY <1>2, <1>5, <2>1, AnalyzeFormResult
  <2>3. phase \in {"read", "ran"} BY <1>5 DEF AnalyzeForm, Unrolling
  <2>4. count' # 0 /\ phase' \in {"analyzed", "rejected"} BY <1>2, <2>2, <2>3 DEF StartsAfresh
  <2>5. "expression" \in Position BY DEF Position
  <2>6. PICK f \in Form : f = form' BY <2>2
  <2>7. CASE r.ok
    <3>1. phase' = "analyzed" BY <2>2, <2>7
    <3>2. count' = 1 => ctx = NewContext BY <1>2, <2>2, <2>3 DEF StartsAfresh
    <3>3. ctx = NewContext => WellFormed[f][[TopLevel EXCEPT !.lenient = TRUE]]
      BY <1>3, <2>1, <2>5, <2>6, <2>7, AcceptedIsWellFormed
    <3>4. RejectsWhatIsIllFormed'
      BY <2>6, <3>1, <3>2, <3>3 DEF RejectsWhatIsIllFormed, IsAcceptable
    <3>5. Undone(ctx, ctx') /\ ctx' \in Context BY <2>2, <2>7 DEF IsResult
    <3>6. ctx = NewContext => ctx' = NewContext BY <3>5, NewStaysNew
    <3>7. StartsAfresh' BY <2>4, <3>1, <3>2, <3>6 DEF StartsAfresh
    <3>8. PICK old \in Context : old = ctx BY <1>3
    <3>9. AcceptedIn(old)' BY <2>1, <2>2, <2>7, <3>5, <3>8 DEF AcceptedIn
    <3>10. (\E x \in Context : AcceptedIn(x))' BY <3>9
    <3>11. QED BY <1>1, <3>1, <3>4, <3>7, <3>10 DEF Inv
  <2>8. CASE ~r.ok
    <3>1. phase' = "rejected" BY <2>2, <2>8
    <3>2. ~WellFormed[f][TopLevel] BY <1>3, <2>1, <2>5, <2>6, <2>8, RejectedIsIllFormed
    <3>3. RejectsWhatIsIllFormed' BY <2>6, <3>1, <3>2 DEF RejectsWhatIsIllFormed, IsWellFormed
    <3>4. StartsAfresh' BY <2>4, <3>1 DEF StartsAfresh
    <3>5. QED BY <1>1, <3>1, <3>3, <3>4 DEF Inv
  <2>9. QED BY <2>7, <2>8
<1>6. CASE GenerateCode
  <2>1. phase = "analyzed" /\ phase' \in {"failed", "compiled", "refused"}
          /\ ctx' = ctx /\ count' = count /\ form' = form
    BY <1>6 DEF GenerateCode
  <2>2. StartsAfresh' BY <1>2, <2>1 DEF StartsAfresh
  <2>3. RejectsWhatIsIllFormed' BY <2>1 DEF RejectsWhatIsIllFormed
  <2>4. ASSUME phase' = "compiled" PROVE IsAcceptableIn
    <3>1. ~IsUnknown(code[1])
      <4>1. CASE IsUnknown(code[1])
        <5>1. phase' = "failed" BY <1>6, <4>1 DEF GenerateCode
        <5>2. QED BY <2>4, <5>1
      <4>2. QED BY <4>1
    <3>2. PICK old \in Context : AcceptedIn(old) BY <2>1 DEF Inv
    <3>3. PICK r : r = Analyze[form]["expression"][old] OBVIOUS
    <3>4. r.ok /\ code = r.nodes /\ Undone(old, ctx) BY <3>2, <3>3 DEF AcceptedIn
    <3>5. old.frames = ctx.frames /\ old.points = ctx.points BY <3>4 DEF Undone
    <3>6. (old.functions = <<>>) = (ctx.functions = <<>>)
      <4>1. Flagged(old.functions, ctx.functions) BY <3>4 DEF Undone
      <4>2. old.functions \in Seq(BOOLEAN) /\ ctx.functions \in Seq(BOOLEAN) BY <1>3, ContextFacts
      <4>3. QED BY <4>1, <4>2, FlaggedEmpty
    <3>7. r.nodes[1].frames \cap DOMAIN old.frames = {} /\ r.nodes[1].points \cap DOMAIN old.points = {}
      BY <3>1, <3>4, <3>5 DEF IsUnknown
    <3>8. "expression" \in Position BY DEF Position
    <3>9. WellFormed[form][[TopLevel EXCEPT !.lenient = TRUE, !.fn = old.functions # <<>>]]
      BY <1>3, <3>3, <3>4, <3>7, <3>8, AcceptedIsWellFormed
    <3>10. (old.functions # <<>>) = (ctx.functions # <<>>) BY <3>6
    <3>11. QED BY <3>9, <3>10 DEF IsAcceptableIn
  <2>5. phase' = "compiled" => IsAcceptableIn' BY <2>1, <2>4 DEF IsAcceptableIn
  <2>6. QED BY <1>1, <2>1, <2>2, <2>3, <2>5 DEF Inv
<1>7. CASE Run
  <2>1. /\ phase = "compiled" /\ phase' \in {"ran", "raised"}
        /\ ctx' = ctx /\ count' = count /\ form' = form
    BY <1>7 DEF Run
  <2>2. StartsAfresh' BY <1>2, <2>1 DEF StartsAfresh
  <2>3. RejectsWhatIsIllFormed' BY <2>1 DEF RejectsWhatIsIllFormed
  <2>4. IsAcceptableIn BY <2>1 DEF Inv
  <2>5. IsAcceptableIn' BY <2>1, <2>4 DEF IsAcceptableIn
  <2>6. QED BY <1>1, <2>1, <2>2, <2>3, <2>5 DEF Inv
<1>8. CASE Finish
  <2>1. /\ phase \in {"read", "ran"} /\ phase' \in {"done", "nothing"}
        /\ ctx' = ctx /\ count' = count
    BY <1>8 DEF Finish, Unrolling
  <2>2. StartsAfresh' BY <1>2, <2>1 DEF StartsAfresh
  <2>3. QED BY <1>1, <2>1, <2>2 DEF Inv, RejectsWhatIsIllFormed
<1>9. CASE Prompt
  <2>1. phase # "prompt" /\ phase' = "prompt" /\ ctx' = ctx /\ count' = count BY <1>9 DEF Prompt
  <2>2. StartsAfresh' BY <1>2, <2>1 DEF StartsAfresh
  <2>3. QED BY <1>1, <2>1, <2>2 DEF Inv, RejectsWhatIsIllFormed
<1>10. CASE UNCHANGED vars \/ Unroll
  <2>1. /\ phase' = phase /\ ctx' = ctx /\ count' = count /\ form' = form /\ code' = code
    BY <1>10 DEF vars, Unroll
  <2>2. StartsAfresh' BY <1>2, <2>1 DEF StartsAfresh
  <2>3. RejectsWhatIsIllFormed'
    BY <2>1 DEF Inv, RejectsWhatIsIllFormed, IsWellFormed, IsAcceptable
  <2>4. phase' = "analyzed" => (\E old \in Context : AcceptedIn(old))'
    BY <2>1 DEF Inv, AcceptedIn
  <2>5. phase' \in {"compiled", "ran", "raised"} => IsAcceptableIn'
    BY <2>1 DEF Inv, IsAcceptableIn
  <2>6. QED BY <1>1, <2>2, <2>3, <2>4, <2>5 DEF Inv
<1>11. QED BY <1>4, <1>5, <1>6, <1>7, <1>8, <1>9, <1>10 DEF Next

(* RejectsWhatIsIllFormed: the analyzer accepts the well-formed forms and, as *)
(* long as nothing was rejected before, no others.                          *)
THEOREM WhatIsRejectedIsIllFormed == Spec => []RejectsWhatIsIllFormed
<1>1. Inv => RejectsWhatIsIllFormed BY DEF Inv
<1>2. QED BY <1>1, InitInv, StepInv, PTL DEF Spec

(* OnlyWellFormedRuns: what errors have left behind makes no ill-formed form *)
(* run.                                                                     *)
THEOREM WhatRunsIsWellFormed == Spec => []OnlyWellFormedRuns
<1>1. Inv => OnlyWellFormedRuns BY DEF Inv, OnlyWellFormedRuns
<1>2. QED BY <1>1, InitInv, StepInv, PTL DEF Spec
=============================================================================
