--------------------------- MODULE AnalyzerProofs ---------------------------
(***************************************************************************)
(* Proofs about the analyzer, for any symbols and any depth of forms.       *)
(* Forms are finite trees, so what holds of a form whenever it holds of its *)
(* parts holds of all forms (FormInduction).  That gives, in this order:    *)
(* analyzing any form, in any context, either raises or undoes all that it  *)
(* pushed (EveryFormGood); a well-formed form is accepted, whatever errors  *)
(* have left in the context (EveryFormTaken); and an accepted form that     *)
(* refers to nothing they have left is well formed (EveryFormShows).        *)
(***************************************************************************)
EXTENDS Analyzer, SequenceTheorems, WellFoundedInduction, TLAPS

(* The time each leaf is given: most need a second, a busy machine needs more. *)
USE SMTT(60), ZenonT(60)

----------------------------------------------------------------------------
(* A set of natural numbers has a least one.                                *)
LEMMA LeastNumber ==
  ASSUME NEW S \in SUBSET Nat, S # {}
  PROVE  \E n \in S : \A m \in S : n <= m
<1>1. IsWellFoundedOn(OpToRel(<, Nat), Nat) BY NatLessThanWellFounded
<1>2. PICK n \in S : \A m \in S : ~(<<m, n>> \in OpToRel(<, Nat)) BY <1>1, WFMin
<1>3. ASSUME NEW m \in S PROVE n <= m
  <2>1. ~(m < n) BY <1>2 DEF OpToRel
  <2>2. QED BY <2>1
<1>4. QED BY <1>3

(* A set of numbers that holds 0 and the successor of each it holds, up to a *)
(* bound, holds all up to the bound.                                        *)
LEMMA UpTo ==
  ASSUME NEW N \in Nat, NEW S,
         0 \in S,
         \A n \in 1..N : n - 1 \in S => n \in S
  PROVE  \A n \in 0..N : n \in S
<1> DEFINE T == {n \in 0..N : n \notin S}
<1>1. SUFFICES ASSUME T # {} PROVE FALSE OBVIOUS
<1>2. T \in SUBSET Nat OBVIOUS
<1>3. PICK n \in T : \A m \in T : n <= m
  <2> HIDE DEF T
  <2>1. QED BY <1>1, <1>2, LeastNumber
<1>4. n \in 1..N /\ n \notin S OBVIOUS
<1>5. n - 1 \notin T BY <1>3, <1>4
<1>6. n - 1 \in S BY <1>4, <1>5
<1>7. QED BY <1>4, <1>6

----------------------------------------------------------------------------
(* Forms are nested.                                                        *)

(* Nested forms exist as they are defined.                                  *)
LEMMA NestedAt ==
  \A n \in 0..Depth : Nested[n] = IF n = 0 THEN {} ELSE FormsOver(Nested[n - 1])
<1> DEFINE IsNesting(g, N) == g = [n \in 0..N |-> IF n = 0 THEN {} ELSE FormsOver(g[n - 1])]
           S == {N \in 0..Depth : \E g : IsNesting(g, N)}
<1>1. Depth \in Nat BY LispAssumption
<1>2. 0 \in S
  <2>1. IsNesting([n \in 0..0 |-> {}], 0) OBVIOUS
  <2>2. \E g : IsNesting(g, 0) BY <2>1
  <2>3. 0 \in 0..Depth BY <1>1
  <2>4. QED
    <3> HIDE DEF IsNesting
    <3>1. QED BY <2>2, <2>3
<1>3. ASSUME NEW N \in 1..Depth, N - 1 \in S PROVE N \in S
  <2>1. PICK g : IsNesting(g, N - 1) BY <1>3
  <2>2. PICK h : h = [n \in 0..N |-> IF n = N THEN FormsOver(g[N - 1]) ELSE g[n]] OBVIOUS
  <2>3. ASSUME NEW n \in 0..N PROVE h[n] = IF n = 0 THEN {} ELSE FormsOver(h[n - 1])
    <3>1. CASE n = N BY <1>1, <2>2, <3>1
    <3>2. CASE n # N
      <4>1. h[n] = g[n] /\ (n # 0 => h[n - 1] = g[n - 1]) BY <1>1, <2>2, <3>2
      <4>2. n \in 0..(N - 1) BY <1>1, <3>2
      <4>3. g[n] = IF n = 0 THEN {} ELSE FormsOver(g[n - 1]) BY <2>1, <4>2
      <4>4. QED BY <4>1, <4>3
    <3>3. QED BY <3>1, <3>2
  <2>4. IsNesting(h, N)
    <3>1. h = [n \in 0..N |-> h[n]] BY <2>2
    <3>2. QED BY <2>3, <3>1
  <2>5. QED BY <2>4
<1>4. Depth \in S
  <2> HIDE DEF S
  <2>1. QED BY <1>1, <1>2, <1>3, UpTo
<1>5. \E g : IsNesting(g, Depth) BY <1>4
<1>6. Nested = CHOOSE g : IsNesting(g, Depth) BY DEF Nested
<1>7. IsNesting(Nested, Depth)
  <2> HIDE DEF IsNesting
  <2>1. QED BY <1>5, <1>6
<1>8. QED BY <1>7

(* What the forms over a set look like.                                     *)
LEMMA FormsOverFacts ==
  ASSUME NEW fs, NEW f \in FormsOver(fs)
  PROVE  /\ f.args \in Seq(fs)
         /\ HasShape(f)
         /\ f.is \in {"const", "symbol", "invoke", "do", "if", "recur", "throw", "yield", "macro",
                      "malformed", "let*", "loop*", "fn*", "try"}
         /\ f.is = "const" => f.val \in {Nil, True}
         /\ f.is = "symbol" => f.name \in Symbol /\ f.args = <<>>
         /\ f.is = "invoke" => f.name \in Function
         /\ f.is \in {"let*", "loop*", "fn*"} => f.names \in Seq(Symbol)
         /\ f.is = "fn*" => f.body \in Seq(fs)
         /\ f.is = "try" => f.catches \in Seq(fs) /\ f.finally \in Seq(fs)
<1>1. CASE f \in [is : {"const"}, val : {Nil, True}, args : Seq(fs)] BY <1>1 DEF FormsOver
<1>2. CASE f \in [is : {"symbol"}, name : Symbol, args : {<<>>}] BY <1>2, EmptySeq DEF FormsOver
<1>3. CASE f \in [is : {"invoke"}, name : Function, args : Seq(fs)] BY <1>3 DEF FormsOver
<1>4. CASE f \in [is : {"do", "if", "recur", "throw", "yield", "macro", "malformed"}, args : Seq(fs)]
  BY <1>4 DEF FormsOver
<1>5. CASE f \in [is : {"let*", "loop*"}, names : Seq(Symbol), args : Seq(fs)]
  BY <1>5 DEF FormsOver
<1>6. CASE f \in [is : {"fn*"}, names : Seq(Symbol), body : Seq(fs), args : Seq(fs)]
  BY <1>6 DEF FormsOver
<1>7. CASE f \in [is : {"try"}, args : Seq(fs), catches : Seq(fs), finally : Seq(fs)]
  BY <1>7 DEF FormsOver
<1>8. QED BY <1>1, <1>2, <1>3, <1>4, <1>5, <1>6, <1>7 DEF FormsOver

(* The parts of a form over a set are in it.                                *)
LEMMA PartsIn ==
  ASSUME NEW fs, NEW f \in FormsOver(fs)
  PROVE  Parts(f) \subseteq fs
<1>1. \A s \in Seq(fs) : ToSet(s) \subseteq fs BY LenProperties DEF ToSet
<1>2. f.args \in Seq(fs) /\ (f.is = "fn*" => f.body \in Seq(fs))
        /\ (f.is = "try" => f.catches \in Seq(fs) /\ f.finally \in Seq(fs))
  BY FormsOverFacts
<1>3. QED BY <1>1, <1>2 DEF Parts

(* More forms, more forms over them.                                        *)
LEMMA FormsOverGrows ==
  ASSUME NEW fs, NEW gs, fs \subseteq gs
  PROVE  FormsOver(fs) \subseteq FormsOver(gs)
<1>1. Seq(fs) \subseteq Seq(gs) BY SeqMonotonic
<1>2. SUFFICES ASSUME NEW f \in FormsOver(fs) PROVE f \in FormsOver(gs) OBVIOUS
<1>3. HasShape(f) BY FormsOverFacts
<1>4. CASE f \in [is : {"const"}, val : {Nil, True}, args : Seq(fs)] BY <1>1, <1>3, <1>4 DEF FormsOver
<1>5. CASE f \in [is : {"symbol"}, name : Symbol, args : {<<>>}] BY <1>3, <1>5 DEF FormsOver
<1>6. CASE f \in [is : {"invoke"}, name : Function, args : Seq(fs)] BY <1>1, <1>3, <1>6 DEF FormsOver
<1>7. CASE f \in [is : {"do", "if", "recur", "throw", "yield", "macro", "malformed"}, args : Seq(fs)]
  BY <1>1, <1>3, <1>7 DEF FormsOver
<1>8. CASE f \in [is : {"let*", "loop*"}, names : Seq(Symbol), args : Seq(fs)]
  BY <1>1, <1>3, <1>8 DEF FormsOver
<1>9. CASE f \in [is : {"fn*"}, names : Seq(Symbol), body : Seq(fs), args : Seq(fs)]
  BY <1>1, <1>3, <1>9 DEF FormsOver
<1>10. CASE f \in [is : {"try"}, args : Seq(fs), catches : Seq(fs), finally : Seq(fs)]
  BY <1>1, <1>3, <1>10 DEF FormsOver
<1>11. QED BY <1>4, <1>5, <1>6, <1>7, <1>8, <1>9, <1>10 DEF FormsOver

(* Deeper nesting only adds forms.                                          *)
LEMMA NestedGrows ==
  \A n \in 1..Depth : Nested[n - 1] \subseteq Nested[n]
<1> DEFINE S == {n \in 0..Depth : n > 0 => Nested[n - 1] \subseteq Nested[n]}
<1>1. Depth \in Nat BY LispAssumption
<1>2. 0 \in S BY <1>1
<1>3. ASSUME NEW n \in 1..Depth, n - 1 \in S PROVE n \in S
  <2>1. CASE n = 1
    <3>1. Nested[n - 1] = {} BY <1>1, <2>1, NestedAt
    <3>2. QED BY <3>1
  <2>2. CASE n # 1
    <3>1. Nested[n - 2] \subseteq Nested[n - 1] BY <1>1, <1>3, <2>2
    <3>2. FormsOver(Nested[n - 2]) \subseteq FormsOver(Nested[n - 1]) BY <3>1, FormsOverGrows
    <3>3. n \in 0..Depth /\ n - 1 \in 0..Depth /\ n # 0 /\ n - 1 # 0 /\ (n - 1) - 1 = n - 2
      BY <1>1, <2>2
    <3>4. Nested[n] = FormsOver(Nested[n - 1]) BY <3>3, NestedAt
    <3>5. Nested[n - 1] = FormsOver(Nested[n - 2]) BY <3>3, NestedAt
    <3>6. QED BY <3>2, <3>3, <3>4, <3>5
  <2>3. QED BY <2>1, <2>2
<1>4. \A n \in 0..Depth : n \in S
  <2> HIDE DEF S
  <2>1. QED BY <1>1, <1>2, <1>3, UpTo
<1>5. QED BY <1>1, <1>4

(* Nested forms are forms.                                                  *)
LEMMA NestedIsForm ==
  \A n \in 0..Depth : Nested[n] \subseteq Form
<1> DEFINE S == {n \in 0..Depth : Nested[Depth - n] \subseteq Form}
<1>1. Depth \in Nat BY LispAssumption
<1>2. 0 \in S BY <1>1 DEF Form
<1>3. ASSUME NEW n \in 1..Depth, n - 1 \in S PROVE n \in S
  <2>1. PICK m : m = Depth - (n - 1) OBVIOUS
  <2>2. m \in 1..Depth /\ Depth - n = m - 1 BY <1>1, <2>1
  <2>3. Nested[m] \subseteq Form BY <1>3, <2>1
  <2>4. Nested[m - 1] \subseteq Nested[m] BY <2>2, NestedGrows
  <2>5. QED BY <1>1, <2>2, <2>3, <2>4
<1>4. \A n \in 0..Depth : n \in S
  <2> HIDE DEF S
  <2>1. QED BY <1>1, <1>2, <1>3, UpTo
<1>5. ASSUME NEW n \in 0..Depth PROVE Nested[n] \subseteq Form
  <2>1. Depth - n \in 0..Depth /\ Depth - (Depth - n) = n BY <1>1
  <2>2. QED BY <1>4, <2>1
<1>6. QED BY <1>5

(* A form is a form over forms.                                             *)
LEMMA FormIsOverForm == Form \subseteq FormsOver(Form)
<1>1. Depth \in Nat BY LispAssumption
<1>2. CASE Depth = 0
  <2>1. Form = {} BY <1>1, <1>2, NestedAt DEF Form
  <2>2. QED BY <2>1
<1>3. CASE Depth # 0
  <2>1. Depth - 1 \in 0..Depth /\ Depth \in 0..Depth BY <1>1, <1>3
  <2>2. Nested[Depth - 1] \subseteq Form BY <2>1, NestedIsForm
  <2>3. Form = FormsOver(Nested[Depth - 1]) BY <1>3, <2>1, NestedAt DEF Form
  <2>4. QED BY <2>2, <2>3, FormsOverGrows
<1>4. QED BY <1>2, <1>3

(* Whatever holds of a form if it holds of its parts holds of all forms.    *)
LEMMA FormInduction ==
  ASSUME NEW S,
         \A f \in Form : Parts(f) \subseteq S => f \in S
  PROVE  Form \subseteq S
<1> DEFINE T == {n \in 0..Depth : Nested[n] \subseteq S}
<1>1. Depth \in Nat BY LispAssumption
<1>2. 0 \in T BY <1>1, NestedAt
<1>3. ASSUME NEW n \in 1..Depth, n - 1 \in T PROVE n \in T
  <2>1. Nested[n] = FormsOver(Nested[n - 1]) BY <1>1, NestedAt
  <2>2. n \in 0..Depth BY <1>1
  <2>3. Nested[n] \subseteq Form BY <2>2, NestedIsForm
  <2>4. Nested[n - 1] \subseteq S BY <1>3
  <2>5. ASSUME NEW f \in Nested[n] PROVE f \in S
    <3>1. Parts(f) \subseteq Nested[n - 1] BY <2>1, PartsIn
    <3>2. QED BY <2>3, <2>4, <3>1
  <2>6. QED BY <2>2, <2>5
<1>4. \A n \in 0..Depth : n \in T
  <2> HIDE DEF T
  <2>1. QED BY <1>1, <1>2, <1>3, UpTo
<1>5. QED BY <1>1, <1>4 DEF Form

(* What forms look like.                                                    *)
LEMMA FormFacts ==
  ASSUME NEW f \in Form
  PROVE  /\ f.args \in Seq(Form)
         /\ HasShape(f)
         /\ f.is \in {"const", "symbol", "invoke", "do", "if", "recur", "throw", "yield", "macro",
                      "malformed", "let*", "loop*", "fn*", "try"}
         /\ f.is = "const" => f.val \in {Nil, True}
         /\ f.is = "symbol" => f.name \in Symbol /\ f.args = <<>>
         /\ f.is = "invoke" => f.name \in Function
         /\ f.is \in {"let*", "loop*", "fn*"} => f.names \in Seq(Symbol)
         /\ f.is = "fn*" => f.body \in Seq(Form)
         /\ f.is = "try" => f.catches \in Seq(Form) /\ f.finally \in Seq(Form)
         /\ Parts(f) \subseteq Form
<1>1. f \in FormsOver(Form) BY FormIsOverForm
<1>2. Parts(f) \subseteq Form BY <1>1, PartsIn
<1>3. QED BY <1>1, <1>2, FormsOverFacts

----------------------------------------------------------------------------
(* Several forms, one after the other.                                      *)
Item == [form : Form, pos : Position, binds : SUBSET Symbol]

(* The results after each of the items.                                     *)
Steps(A, items, c, u) ==
  /\ u[0] = Returns(c, <<>>)
  /\ \A n \in 1..Len(items) : u[n] = AnalyzeNext(A, items[n], u[n - 1])

(* Analyzing items goes through them step by step.                          *)
LEMMA AnalyzeAllSteps ==
  ASSUME NEW A, NEW items \in Seq(Item), NEW c
  PROVE  \E u : Steps(A, items, c, u) /\ AnalyzeAll(A, items, c) = u[Len(items)]
<1> DEFINE Next0(u, n) == IF n = 0 THEN Returns(c, <<>>) ELSE AnalyzeNext(A, items[n], u[n - 1])
           IsRun(u, N) == u = [n \in 0..N |-> Next0(u, n)]
           S == {N \in 0..Len(items) : \E u : IsRun(u, N)}
<1>1. Len(items) \in Nat BY LenProperties
<1>2. 0 \in S
  <2>1. IsRun([n \in 0..0 |-> Returns(c, <<>>)], 0) OBVIOUS
  <2>2. \E u : IsRun(u, 0) BY <2>1
  <2>3. 0 \in 0..Len(items) BY <1>1
  <2>4. QED
    <3> HIDE DEF IsRun
    <3>1. QED BY <2>2, <2>3
<1>3. ASSUME NEW N \in 1..Len(items), N - 1 \in S PROVE N \in S
  <2>1. PICK u : IsRun(u, N - 1) BY <1>3
  <2>2. PICK v : v = [n \in 0..N |-> IF n = N THEN Next0(u, n) ELSE u[n]] OBVIOUS
  <2>3. ASSUME NEW n \in 0..N PROVE v[n] = Next0(v, n)
    <3>1. CASE n = N
      <4>1. v[n] = Next0(u, n) BY <2>2, <3>1
      <4>2. n # 0 /\ v[n - 1] = u[n - 1] BY <1>1, <2>2, <3>1
      <4>3. QED BY <4>1, <4>2
    <3>2. CASE n # N
      <4>1. n \in 0..(N - 1) BY <1>1, <3>2
      <4>2. v[n] = u[n] /\ (n # 0 => v[n - 1] = u[n - 1]) BY <1>1, <2>2, <3>2
      <4>3. u[n] = Next0(u, n) BY <2>1, <4>1
      <4>4. QED BY <4>2, <4>3
    <3>3. QED BY <3>1, <3>2
  <2>4. IsRun(v, N)
    <3> HIDE DEF Next0
    <3>1. v = [n \in 0..N |-> v[n]] BY <2>2
    <3>2. QED BY <2>3, <3>1
  <2>5. QED BY <2>4
<1>4. Len(items) \in S
  <2> HIDE DEF S
  <2>1. QED BY <1>1, <1>2, <1>3, UpTo
<1>5. \E u : IsRun(u, Len(items)) BY <1>4
<1>6. PICK w : w = CHOOSE u : IsRun(u, Len(items)) OBVIOUS
<1>7. AnalyzeAll(A, items, c) = w[Len(items)] BY <1>6 DEF AnalyzeAll
<1>8. IsRun(w, Len(items))
  <2> HIDE DEF IsRun
  <2>1. QED BY <1>5, <1>6
<1>9. \A n \in 0..Len(items) : w[n] = Next0(w, n)
  <2> HIDE DEF Next0
  <2>1. QED BY <1>8
<1>10. Steps(A, items, c, w) BY <1>1, <1>9 DEF Steps
<1>11. QED BY <1>7, <1>10

(* The result of several forms depends on those of each.                    *)
LEMMA AnalyzeAllLocal ==
  ASSUME NEW A, NEW B, NEW items \in Seq(Item), NEW c,
         \A i \in 1..Len(items) : A[items[i].form] = B[items[i].form]
  PROVE  AnalyzeAll(A, items, c) = AnalyzeAll(B, items, c)
<1>1. Len(items) \in Nat BY LenProperties
<1>2. PICK u : Steps(A, items, c, u) /\ AnalyzeAll(A, items, c) = u[Len(items)]
  BY AnalyzeAllSteps
<1>3. PICK v : Steps(B, items, c, v) /\ AnalyzeAll(B, items, c) = v[Len(items)]
  BY AnalyzeAllSteps
<1> DEFINE S == {n \in 0..Len(items) : u[n] = v[n]}
<1>4. 0 \in S BY <1>1, <1>2, <1>3 DEF Steps
<1>5. ASSUME NEW n \in 1..Len(items), n - 1 \in S PROVE n \in S
  <2>1. u[n] = AnalyzeNext(A, items[n], u[n - 1]) BY <1>2 DEF Steps
  <2>2. v[n] = AnalyzeNext(B, items[n], v[n - 1]) BY <1>3 DEF Steps
  <2>3. A[items[n].form] = B[items[n].form] OBVIOUS
  <2>4. AnalyzeNext(A, items[n], u[n - 1]) = AnalyzeNext(B, items[n], u[n - 1])
    BY <2>3 DEF AnalyzeNext
  <2>5. QED BY <1>1, <1>5, <2>1, <2>2, <2>4
<1>6. Len(items) \in S
  <2> HIDE DEF S
  <2>1. QED BY <1>1, <1>4, <1>5, UpTo
<1>7. QED BY <1>2, <1>3, <1>6

(* The items of init forms.                                                 *)
LEMMA InitFormsList ==
  ASSUME NEW f \in Form, f.is \in {"let*", "loop*"}, NEW pos \in Position
  PROVE  /\ InitForms(f, pos) \in Seq(Item)
         /\ Len(InitForms(f, pos)) = Len(f.names)
         /\ \A i \in 1..Len(f.names) :
              /\ InitForms(f, pos)[i].form = f.args[i]
              /\ InitForms(f, pos)[i].pos = pos
              /\ InitForms(f, pos)[i].binds = {f.names[i]}
              /\ f.args[i] \in Parts(f)
<1>1. f.args \in Seq(Form) /\ f.names \in Seq(Symbol) /\ Len(f.names) <= Len(f.args)
  BY FormFacts DEF HasShape
<1>2. Len(f.args) \in Nat /\ DOMAIN f.args = 1..Len(f.args) /\ Len(f.names) \in Nat
        /\ DOMAIN f.names = 1..Len(f.names)
  BY <1>1, LenProperties
<1>3. \A i \in 1..Len(f.names) : f.args[i] \in Form /\ f.args[i] \in Parts(f) /\ f.names[i] \in Symbol
  BY <1>1, <1>2, ElementOfSeq DEF Parts, ToSet
<1>4. PICK s : s = InitForms(f, pos) OBVIOUS
<1>5. s = [i \in 1..Len(f.names) |-> [form |-> f.args[i], pos |-> pos, binds |-> {f.names[i]}]]
  BY <1>2, <1>4 DEF InitForms
<1>6. s \in [1..Len(f.names) -> Item] BY <1>3, <1>5 DEF Item
<1>7. s \in Seq(Item) /\ Len(s) = Len(f.names) BY <1>2, <1>6
<1>8. ASSUME NEW i \in 1..Len(f.names)
      PROVE  s[i].form = f.args[i] /\ s[i].pos = pos /\ s[i].binds = {f.names[i]}
  <2>1. s[i] = [form |-> f.args[i], pos |-> pos, binds |-> {f.names[i]}] BY <1>5
  <2>2. QED BY <2>1
<1>9. QED BY <1>3, <1>4, <1>7, <1>8

(* The items of an if.                                                      *)
LEMMA BranchesList ==
  ASSUME NEW f \in Form, f.is = "if", NEW pos \in Position
  PROVE  /\ Branches(f, pos) \in Seq(Item)
         /\ Len(Branches(f, pos)) = 3
         /\ \A i \in 1..3 :
              /\ Branches(f, pos)[i].form = f.args[i]
              /\ Branches(f, pos)[i].pos = IF i = 1 THEN "expression" ELSE pos
              /\ Branches(f, pos)[i].binds = {}
              /\ f.args[i] \in Parts(f)
<1>1. f.args \in Seq(Form) /\ Len(f.args) = 3 BY FormFacts DEF HasShape
<1>2. DOMAIN f.args = 1..3 BY <1>1, LenProperties
<1>3. \A i \in 1..3 : f.args[i] \in Form /\ f.args[i] \in Parts(f)
  BY <1>1, <1>2, ElementOfSeq DEF Parts, ToSet
<1>4. PICK s : s = Branches(f, pos) OBVIOUS
<1>5. s = [i \in 1..3 |-> [form |-> f.args[i], pos |-> IF i = 1 THEN "expression" ELSE pos,
                           binds |-> {}]]
  BY <1>4 DEF Branches
<1>6. s \in [1..3 -> Item] BY <1>3, <1>5 DEF Item, Position
<1>7. s \in Seq(Item) /\ Len(s) = 3
  <2>1. PICK n \in Nat : n = 3 OBVIOUS
  <2>2. s \in [1..n -> Item] BY <1>6, <2>1
  <2>3. s \in Seq(Item) /\ Len(s) = n BY <2>2
  <2>4. QED BY <2>1, <2>3
<1>8. ASSUME NEW i \in 1..3
      PROVE  s[i].form = f.args[i] /\ s[i].pos = (IF i = 1 THEN "expression" ELSE pos) /\ s[i].binds = {}
  <2>1. s[i] = [form |-> f.args[i], pos |-> IF i = 1 THEN "expression" ELSE pos, binds |-> {}]
    BY <1>5
  <2>2. QED BY <2>1
<1>9. QED BY <1>3, <1>4, <1>7, <1>8

(* The items of a body.                                                     *)
LEMMA StatementsList ==
  ASSUME NEW fs \in Seq(Form), NEW pos \in Position
  PROVE  /\ Statements(fs, pos) \in Seq(Item)
         /\ Len(Statements(fs, pos)) = Len(fs)
         /\ \A i \in 1..Len(fs) :
              /\ Statements(fs, pos)[i].form = fs[i]
              /\ Statements(fs, pos)[i].pos = IF i = Len(fs) THEN pos ELSE "statement"
              /\ Statements(fs, pos)[i].binds = {}
<1>1. Len(fs) \in Nat /\ DOMAIN fs = 1..Len(fs) /\ \A i \in 1..Len(fs) : fs[i] \in Form
  BY LenProperties, ElementOfSeq
<1>2. PICK s : s = Statements(fs, pos) OBVIOUS
<1>3. s = [i \in 1..Len(fs) |->
             [form |-> fs[i], pos |-> IF i = Len(fs) THEN pos ELSE "statement", binds |-> {}]]
  BY <1>1, <1>2 DEF Statements
<1>4. s \in [1..Len(fs) -> Item] BY <1>1, <1>3 DEF Item, Position
<1>5. s \in Seq(Item) /\ Len(s) = Len(fs) BY <1>1, <1>4
<1>6. ASSUME NEW i \in 1..Len(fs)
      PROVE  /\ s[i].form = fs[i] /\ s[i].binds = {}
             /\ s[i].pos = IF i = Len(fs) THEN pos ELSE "statement"
  <2>1. s[i] = [form |-> fs[i], pos |-> IF i = Len(fs) THEN pos ELSE "statement", binds |-> {}]
    BY <1>3
  <2>2. QED BY <2>1
<1>7. QED BY <1>2, <1>5, <1>6

(* The items of arguments.                                                  *)
LEMMA ExpressionsList ==
  ASSUME NEW fs \in Seq(Form)
  PROVE  /\ Expressions(fs) \in Seq(Item)
         /\ Len(Expressions(fs)) = Len(fs)
         /\ \A i \in 1..Len(fs) :
              /\ Expressions(fs)[i].form = fs[i]
              /\ Expressions(fs)[i].pos = "expression"
              /\ Expressions(fs)[i].binds = {}
<1>1. Len(fs) \in Nat /\ DOMAIN fs = 1..Len(fs) /\ \A i \in 1..Len(fs) : fs[i] \in Form
  BY LenProperties, ElementOfSeq
<1>2. PICK s : s = Expressions(fs) OBVIOUS
<1>3. s = [i \in 1..Len(fs) |-> [form |-> fs[i], pos |-> "expression", binds |-> {}]]
  BY <1>1, <1>2 DEF Expressions
<1>4. s \in [1..Len(fs) -> Item] BY <1>1, <1>3 DEF Item, Position
<1>5. s \in Seq(Item) /\ Len(s) = Len(fs) BY <1>1, <1>4
<1>6. ASSUME NEW i \in 1..Len(fs)
      PROVE  s[i].form = fs[i] /\ s[i].pos = "expression" /\ s[i].binds = {}
  <2>1. s[i] = [form |-> fs[i], pos |-> "expression", binds |-> {}] BY <1>3
  <2>2. QED BY <2>1
<1>7. QED BY <1>2, <1>5, <1>6

(* The body of a form that binds names.                                     *)
LEMMA BodyOfFacts ==
  ASSUME NEW f \in Form, f.is \in {"let*", "loop*"}
  PROVE  /\ BodyOf(f) \in Seq(Form)
         /\ Len(BodyOf(f)) = Len(f.args) - Len(f.names)
         /\ \A i \in 1..Len(BodyOf(f)) :
              BodyOf(f)[i] \in Parts(f) /\ BodyOf(f)[i] = f.args[Len(f.names) + i]
<1>1. f.args \in Seq(Form) /\ f.names \in Seq(Symbol) /\ Len(f.names) <= Len(f.args)
  BY FormFacts DEF HasShape
<1>2. PICK m : m = Len(f.names) OBVIOUS
<1>3. PICK n : n = Len(f.args) OBVIOUS
<1>4. m \in Nat /\ n \in Nat /\ m <= n /\ DOMAIN f.args = 1..n BY <1>1, <1>2, <1>3, LenProperties
<1>5. \A i \in 1..n : f.args[i] \in Form /\ f.args[i] \in Parts(f)
  BY <1>1, <1>3, <1>4, ElementOfSeq DEF Parts, ToSet
<1>6. PICK s : s = SubSeq(f.args, m + 1, n) OBVIOUS
<1>7. BodyOf(f) = s BY <1>2, <1>3, <1>6 DEF BodyOf
<1>8. /\ s \in Seq(Form)
      /\ Len(s) = IF m + 1 <= n THEN n - (m + 1) + 1 ELSE 0
      /\ \A i \in 1..(n - (m + 1) + 1) : s[i] = f.args[(m + 1) + i - 1]
  <2>1. m + 1 \in Int /\ n \in Int /\ \A i \in (m + 1)..n : f.args[i] \in Form BY <1>4, <1>5
  <2>2. QED BY <1>6, <2>1, SubSeqProperties
<1>9. Len(s) = n - m BY <1>4, <1>8
<1>10. \A i \in 1..(n - m) : s[i] = f.args[m + i] /\ m + i \in 1..n BY <1>4, <1>8
<1>11. QED BY <1>2, <1>3, <1>5, <1>7, <1>8, <1>9, <1>10

(* Arguments are parts.                                                     *)
LEMMA ArgsAreParts ==
  ASSUME NEW f \in Form
  PROVE  \A i \in 1..Len(f.args) : f.args[i] \in Parts(f)
<1>1. DOMAIN f.args = 1..Len(f.args) BY FormFacts, LenProperties
<1>2. QED BY <1>1 DEF Parts, ToSet

(* So are the forms of a function's body, of a catch, and of a finally.     *)
LEMMA OtherParts ==
  ASSUME NEW f \in Form
  PROVE  /\ f.is = "fn*" => \A i \in 1..Len(f.body) : f.body[i] \in Parts(f)
         /\ f.is = "try" => /\ \A i \in 1..Len(f.catches) : f.catches[i] \in Parts(f)
                            /\ \A i \in 1..Len(f.finally) : f.finally[i] \in Parts(f)
<1>1. ASSUME f.is = "fn*" PROVE \A i \in 1..Len(f.body) : f.body[i] \in Parts(f)
  <2>1. DOMAIN f.body = 1..Len(f.body) BY <1>1, FormFacts, LenProperties
  <2>2. QED BY <1>1, <2>1 DEF Parts, ToSet
<1>2. ASSUME f.is = "try"
      PROVE  /\ \A i \in 1..Len(f.catches) : f.catches[i] \in Parts(f)
             /\ \A i \in 1..Len(f.finally) : f.finally[i] \in Parts(f)
  <2>1. DOMAIN f.catches = 1..Len(f.catches) /\ DOMAIN f.finally = 1..Len(f.finally)
    BY <1>2, FormFacts, LenProperties
  <2>2. QED BY <1>2, <2>1 DEF Parts, ToSet
<1>3. QED BY <1>1, <1>2

(* The results of a body and of arguments depend on those of their forms.   *)
LEMMA AnalyzeBodyLocal ==
  ASSUME NEW A, NEW B, NEW fs \in Seq(Form), NEW pos \in Position, NEW c,
         \A i \in 1..Len(fs) : A[fs[i]] = B[fs[i]]
  PROVE  AnalyzeBody(A, fs, pos, c) = AnalyzeBody(B, fs, pos, c)
<1>1. Statements(fs, pos) \in Seq(Item) /\ Len(Statements(fs, pos)) = Len(fs)
        /\ \A i \in 1..Len(fs) : Statements(fs, pos)[i].form = fs[i]
  BY StatementsList
<1>2. \A i \in 1..Len(Statements(fs, pos)) :
        A[Statements(fs, pos)[i].form] = B[Statements(fs, pos)[i].form]
  BY <1>1
<1>3. AnalyzeAll(A, Statements(fs, pos), c) = AnalyzeAll(B, Statements(fs, pos), c)
  BY <1>1, <1>2, AnalyzeAllLocal
<1>4. QED BY <1>3 DEF AnalyzeBody

(* So do those of arguments.                                                *)
LEMMA ExpressionsLocal ==
  ASSUME NEW A, NEW B, NEW fs \in Seq(Form), NEW c,
         \A i \in 1..Len(fs) : A[fs[i]] = B[fs[i]]
  PROVE  AnalyzeAll(A, Expressions(fs), c) = AnalyzeAll(B, Expressions(fs), c)
<1>1. PICK s : s = Expressions(fs) OBVIOUS
<1>2. s \in Seq(Item) /\ Len(s) = Len(fs)
        /\ \A i \in 1..Len(fs) : s[i].form = fs[i]
  BY <1>1, ExpressionsList
<1>3. \A i \in 1..Len(s) : s[i].form = fs[i] BY <1>2
<1>4. \A i \in 1..Len(s) : A[s[i].form] = B[s[i].form] BY <1>2, <1>3
<1>5. AnalyzeAll(A, s, c) = AnalyzeAll(B, s, c) BY <1>2, <1>4, AnalyzeAllLocal
<1>6. QED BY <1>1, <1>5

(* So a form's result depends on those of its parts.                        *)
LEMMA AnalyzeOneLocal ==
  ASSUME NEW A, NEW B, NEW f \in Form, NEW pos \in Position, NEW c,
         \A g \in Parts(f) : A[g] = B[g]
  PROVE  AnalyzeOne(A, f, pos, c) = AnalyzeOne(B, f, pos, c)
<1>1. f.args \in Seq(Form) /\ Len(f.args) \in Nat BY FormFacts, LenProperties
<1>2. \A i \in 1..Len(f.args) : A[f.args[i]] = B[f.args[i]] BY ArgsAreParts
<1>0. \A fs \in Seq(Form), q \in Position : \A x :
        (\A i \in 1..Len(fs) : A[fs[i]] = B[fs[i]]) =>
          AnalyzeBody(A, fs, q, x) = AnalyzeBody(B, fs, q, x)
  BY AnalyzeBodyLocal
<1>13. \A fs \in Seq(Form) : \A x :
        (\A i \in 1..Len(fs) : A[fs[i]] = B[fs[i]]) =>
          AnalyzeAll(A, Expressions(fs), x) = AnalyzeAll(B, Expressions(fs), x)
  BY ExpressionsLocal
<1>3. \A x : AnalyzeAll(A, Expressions(f.args), x) = AnalyzeAll(B, Expressions(f.args), x)
  BY <1>1, <1>2, <1>13
<1>4. CASE f.is \in {"invoke", "throw", "recur", "yield"}
  BY <1>3, <1>4 DEF AnalyzeOne, InvokeAst, ThrowAst, RecurAst, YieldAst
<1>5. CASE f.is \in {"const", "malformed", "symbol"} BY <1>5 DEF AnalyzeOne
<1>6. CASE f.is = "macro"
  <2>1. Len(f.args) = 1 BY <1>6, FormFacts DEF HasShape
  <2>2. A[f.args[1]] = B[f.args[1]] BY <1>2, <2>1
  <2>3. QED BY <1>6, <2>2 DEF AnalyzeOne, MacroAst
<1>7. CASE f.is = "do"
  <2>1. AnalyzeBody(A, f.args, pos, c) = AnalyzeBody(B, f.args, pos, c)
    BY <1>1, <1>2, <1>0
  <2>2. QED BY <1>7, <2>1 DEF AnalyzeOne
<1>8. CASE f.is = "if"
  <2>1. PICK s : s = Branches(f, pos) OBVIOUS
  <2>2. s \in Seq(Item) /\ Len(s) = 3
          /\ \A i \in 1..3 : s[i].form = f.args[i] /\ f.args[i] \in Parts(f)
    BY <1>8, <2>1, BranchesList
  <2>6. \A i \in 1..Len(s) : s[i].form = f.args[i] /\ f.args[i] \in Parts(f) BY <2>2
  <2>3. \A i \in 1..Len(s) : A[s[i].form] = B[s[i].form] BY <2>6
  <2>4. AnalyzeAll(A, s, c) = AnalyzeAll(B, s, c) BY <2>2, <2>3, AnalyzeAllLocal
  <2>5. QED BY <1>8, <2>1, <2>4 DEF AnalyzeOne, IfAst
<1>9. CASE f.is \in {"let*", "loop*"}
  <2>1. PICK s : s = InitForms(f, pos) OBVIOUS
  <2>2. s \in Seq(Item) /\ Len(s) = Len(f.names)
          /\ \A i \in 1..Len(f.names) : s[i].form = f.args[i] /\ f.args[i] \in Parts(f)
    BY <1>9, <2>1, InitFormsList
  <2>11. \A i \in 1..Len(s) : s[i].form = f.args[i] /\ f.args[i] \in Parts(f) BY <2>2
  <2>3. \A i \in 1..Len(s) : A[s[i].form] = B[s[i].form] BY <2>11
  <2>4. \A x : AnalyzeAll(A, s, x) = AnalyzeAll(B, s, x) BY <2>2, <2>3, AnalyzeAllLocal
  <2>5. BodyOf(f) \in Seq(Form) /\ \A i \in 1..Len(BodyOf(f)) : BodyOf(f)[i] \in Parts(f)
    BY <1>9, BodyOfFacts
  <2>6. \A i \in 1..Len(BodyOf(f)) : A[BodyOf(f)[i]] = B[BodyOf(f)[i]] BY <2>5
  <2>7. \A x : AnalyzeBody(A, BodyOf(f), pos, x) = AnalyzeBody(B, BodyOf(f), pos, x)
    BY <2>5, <2>6, <1>0
  <2>8. CASE f.is = "let*"
    <3>1. LetAst(A, f, pos, c) = LetAst(B, f, pos, c) BY <2>1, <2>4, <2>7 DEF LetAst
    <3>2. QED BY <2>8, <3>1 DEF AnalyzeOne
  <2>9. CASE f.is = "loop*"
    <3>1. LoopAst(A, f, pos, c) = LoopAst(B, f, pos, c) BY <2>1, <2>4, <2>7 DEF LoopAst
    <3>2. QED BY <2>9, <3>1 DEF AnalyzeOne
  <2>10. QED BY <1>9, <2>8, <2>9
<1>10. CASE f.is = "fn*"
  <2>1. f.body \in Seq(Form) /\ \A i \in 1..Len(f.body) : f.body[i] \in Parts(f)
    BY <1>10, FormFacts, OtherParts
  <2>2. \A i \in 1..Len(f.body) : A[f.body[i]] = B[f.body[i]] BY <2>1
  <2>3. "expression" \in Position BY DEF Position
  <2>4. \A x : AnalyzeBody(A, f.body, "expression", x) = AnalyzeBody(B, f.body, "expression", x)
    BY <2>1, <2>2, <2>3, <1>0
  <2>5. FnAst(A, f, pos, c) = FnAst(B, f, pos, c) BY <1>3, <2>4 DEF FnAst
  <2>6. QED BY <1>10, <2>5 DEF AnalyzeOne
<1>11. CASE f.is = "try"
  <2>1. Len(f.args) = 1 /\ f.catches \in Seq(Form) /\ f.finally \in Seq(Form)
    BY <1>11, FormFacts DEF HasShape
  <2>2. A[f.args[1]] = B[f.args[1]] BY <1>2, <2>1
  <2>3. \A x : CatchAst(A, f.catches, pos, x) = CatchAst(B, f.catches, pos, x)
    <3>1. CASE f.catches = <<>> BY <3>1 DEF CatchAst
    <3>2. CASE f.catches # <<>>
      <4>1. 1 \in 1..Len(f.catches) BY <2>1, <3>2, EmptySeq
      <4>2. A[f.catches[1]] = B[f.catches[1]] BY <1>11, <4>1, OtherParts
      <4>3. QED BY <4>2 DEF CatchAst
    <3>3. QED BY <3>1, <3>2
  <2>4. \A i \in 1..Len(f.finally) : A[f.finally[i]] = B[f.finally[i]] BY <1>11, OtherParts
  <2>5. "statement" \in Position BY DEF Position
  <2>6. \A x : AnalyzeBody(A, f.finally, "statement", x) = AnalyzeBody(B, f.finally, "statement", x)
    BY <2>1, <2>4, <2>5, <1>0
  <2>7. TryAst(A, f, pos, c) = TryAst(B, f, pos, c) BY <2>2, <2>3, <2>6 DEF TryAst
  <2>8. QED BY <1>11, <2>7 DEF AnalyzeOne
<1>12. QED BY <1>4, <1>5, <1>6, <1>7, <1>8, <1>9, <1>10, <1>11, FormFacts

(* Hence the analysis exists as it is defined.                              *)
LEMMA AnalyzeIs ==
  \A f \in Form : \A pos \in Position : \A c \in Context :
    Analyze[f][pos][c] = AnalyzeOne(Analyze, f, pos, c)
<1> DEFINE One(g, f) == [pos \in Position |-> [c \in Context |-> AnalyzeOne(g, f, pos, c)]]
           IsAnalysis(g, fs) == g = [f \in fs |-> One(g, f)]
           S == {n \in 0..Depth : \E g : IsAnalysis(g, Nested[n])}
<1>1. Depth \in Nat BY LispAssumption
<1>2. ASSUME NEW g, NEW h, NEW f \in Form, \A p \in Parts(f) : g[p] = h[p]
      PROVE  One(g, f) = One(h, f)
  <2>1. \A pos \in Position, c \in Context : AnalyzeOne(g, f, pos, c) = AnalyzeOne(h, f, pos, c)
    BY <1>2, AnalyzeOneLocal
  <2>2. QED BY <2>1
<1> HIDE DEF One
<1>3. 0 \in S
  <2>1. Nested[0] = {} BY <1>1, NestedAt
  <2>2. IsAnalysis([f \in {} |-> <<>>], {}) OBVIOUS
  <2>3. \E g : IsAnalysis(g, {}) BY <2>2
  <2>4. 0 \in 0..Depth BY <1>1
  <2>5. QED
    <3> HIDE DEF IsAnalysis
    <3>1. QED BY <2>1, <2>3, <2>4
<1>4. ASSUME NEW n \in 1..Depth, n - 1 \in S PROVE n \in S
  <2>1. PICK g : IsAnalysis(g, Nested[n - 1]) BY <1>4
  <2>2. PICK h : h = [f \in Nested[n] |-> One(g, f)] OBVIOUS
  <2>3. n \in 0..Depth /\ Nested[n] = FormsOver(Nested[n - 1]) BY <1>1, NestedAt
  <2>4. \A p \in Nested[n - 1] : p \in Nested[n] BY NestedGrows
  <2>5. \A p \in Nested[n - 1] : g[p] = One(g, p) BY <2>1
  <2>6. \A p \in Nested[n - 1] : g[p] = h[p] BY <2>2, <2>4, <2>5
  <2>7. ASSUME NEW f \in Nested[n] PROVE h[f] = One(h, f)
    <3>1. f \in Form BY <2>3, NestedIsForm
    <3>2. f \in FormsOver(Nested[n - 1]) BY <2>3
    <3>3. Parts(f) \subseteq Nested[n - 1] BY <3>2, PartsIn
    <3>4. \A p \in Parts(f) : g[p] = h[p] BY <2>6, <3>3
    <3>5. One(g, f) = One(h, f) BY <1>2, <3>1, <3>4
    <3>6. QED BY <2>2, <3>5
  <2>8. h = [f \in Nested[n] |-> h[f]] BY <2>2
  <2>9. IsAnalysis(h, Nested[n]) BY <2>7, <2>8
  <2>10. QED BY <2>3, <2>9
<1>5. Depth \in S
  <2> HIDE DEF S
  <2>1. QED BY <1>1, <1>3, <1>4, UpTo
<1>6. \E g : IsAnalysis(g, Form) BY <1>5 DEF Form
<1>7. Analyze = CHOOSE g : IsAnalysis(g, Form) BY DEF Analyze, One
<1>8. IsAnalysis(Analyze, Form)
  <2> HIDE DEF IsAnalysis
  <2>1. QED BY <1>6, <1>7
<1>9. \A f \in Form : Analyze[f] = One(Analyze, f) BY <1>8
<1>10. ASSUME NEW f \in Form, NEW pos \in Position, NEW c \in Context
       PROVE  Analyze[f][pos][c] = AnalyzeOne(Analyze, f, pos, c)
  <2>1. Analyze[f] = [q \in Position |-> [d \in Context |-> AnalyzeOne(Analyze, f, q, d)]]
    BY <1>9 DEF One
  <2>2. Analyze[f][pos] = [d \in Context |-> AnalyzeOne(Analyze, f, pos, d)] BY <2>1
  <2>3. QED BY <2>2
<1>11. QED BY <1>10

----------------------------------------------------------------------------
(* Contexts.                                                                *)

(* Of two stacks of function contexts, only whether the innermost yields may *)
(* differ, and only by being set.                                           *)
Flagged(old, new) ==
  /\ Len(new) = Len(old)
  /\ \A i \in 1..Len(old) : new[i] = old[i] \/ (i = Len(old) /\ new[i])

(* A context whose pushes have been undone.                                 *)
Undone(c, d) == d.frames = c.frames /\ d.points = c.points /\ Flagged(c.functions, d.functions)

AddToLast(frames, xs) == [frames EXCEPT ![Len(frames)] = @ \cup xs]

(* Flagged is an order.                                                     *)
LEMMA FlaggedSelf ==
  ASSUME NEW s \in Seq(BOOLEAN)
  PROVE  Flagged(s, s)
BY DEF Flagged

(* Marking twice is marking.                                                *)
LEMMA FlaggedTwice ==
  ASSUME NEW s \in Seq(BOOLEAN), NEW t \in Seq(BOOLEAN), NEW u \in Seq(BOOLEAN),
         Flagged(s, t), Flagged(t, u)
  PROVE  Flagged(s, u)
<1>1. Len(t) = Len(s) /\ Len(u) = Len(s) BY DEF Flagged
<1>2. ASSUME NEW i \in 1..Len(s) PROVE u[i] = s[i] \/ (i = Len(s) /\ u[i])
  <2>1. t[i] = s[i] \/ (i = Len(s) /\ t[i]) BY DEF Flagged
  <2>2. u[i] = t[i] \/ (i = Len(s) /\ u[i]) BY <1>1 DEF Flagged
  <2>3. QED BY <2>1, <2>2
<1>3. QED BY <1>1, <1>2 DEF Flagged

(* Marking keeps a stack empty, or not.                                     *)
LEMMA FlaggedEmpty ==
  ASSUME NEW s \in Seq(BOOLEAN), NEW t \in Seq(BOOLEAN), Flagged(s, t)
  PROVE  (s = <<>>) = (t = <<>>)
<1>1. Len(t) = Len(s) BY DEF Flagged
<1>2. QED BY <1>1, EmptySeq

(* A context and its stacks.                                                *)
LEMMA ContextFacts ==
  ASSUME NEW c \in Context
  PROVE  /\ c.frames \in Seq(SUBSET Symbol) /\ c.frames # <<>> /\ c.frames[1] = {}
         /\ c.points \in Seq(Nat) /\ c.functions \in Seq(BOOLEAN)
         /\ Len(c.frames) \in Nat \ {0} /\ Len(c.points) \in Nat /\ Len(c.functions) \in Nat
         /\ DOMAIN c.frames = 1..Len(c.frames) /\ DOMAIN c.points = 1..Len(c.points)
         /\ DOMAIN c.functions = 1..Len(c.functions)
<1>1. c.frames \in Seq(SUBSET Symbol) /\ c.frames # <<>> /\ c.frames[1] = {}
        /\ c.points \in Seq(Nat) /\ c.functions \in Seq(BOOLEAN)
  BY DEF Context
<1>2. QED BY <1>1, LenProperties, EmptySeq

(* The record a context is.                                                 *)
LEMMA ContextMade ==
  ASSUME NEW frames \in Seq(SUBSET Symbol), frames # <<>>, frames[1] = {},
         NEW points \in Seq(Nat), NEW functions \in Seq(BOOLEAN)
  PROVE  [frames |-> frames, points |-> points, functions |-> functions] \in Context
BY DEF Context

(* A context is the record of its stacks.                                   *)
LEMMA ContextSplit ==
  ASSUME NEW c \in Context
  PROVE  c = [frames |-> c.frames, points |-> c.points, functions |-> c.functions]
BY DEF Context

(* Contexts of the same stacks are the same.                                *)
LEMMA ContextSame ==
  ASSUME NEW c \in Context, NEW d \in Context,
         c.frames = d.frames, c.points = d.points, c.functions = d.functions
  PROVE  c = d
<1>1. c = [frames |-> c.frames, points |-> c.points, functions |-> c.functions] BY ContextSplit
<1>2. d = [frames |-> d.frames, points |-> d.points, functions |-> d.functions] BY ContextSplit
<1>3. QED BY <1>1, <1>2

(* The front of a sequence.                                                 *)
LEMMA FrontFacts ==
  ASSUME NEW S, NEW s \in Seq(S), s # <<>>
  PROVE  /\ Front(s) \in Seq(S)
         /\ Len(Front(s)) = Len(s) - 1
         /\ \A i \in 1..(Len(s) - 1) : Front(s)[i] = s[i]
         /\ Last(s) = s[Len(s)] /\ Last(s) \in S
<1>1. Len(s) \in Nat \ {0} BY EmptySeq
<1>2. PICK n : n = Len(s) - 1 OBVIOUS
<1>3. n \in Nat BY <1>1, <1>2
<1>4. \A i \in 1..n : s[i] \in S BY <1>1, <1>2, ElementOfSeq
<1>5. PICK t : t = SubSeq(s, 1, n) OBVIOUS
<1>6. t \in Seq(S) /\ Len(t) = (IF 1 <= n THEN n - 1 + 1 ELSE 0)
        /\ \A i \in 1..(n - 1 + 1) : t[i] = s[1 + i - 1]
  <2>1. 1 \in Int /\ n \in Int BY <1>3
  <2>2. QED BY <1>4, <1>5, <2>1, SubSeqProperties
<1>7. Len(t) = n /\ \A i \in 1..n : t[i] = s[i] BY <1>3, <1>6
<1>8. Front(s) = t BY <1>2, <1>5 DEF Front
<1>9. Last(s) = s[Len(s)] /\ Last(s) \in S BY <1>1, ElementOfSeq DEF Last
<1>10. QED BY <1>2, <1>6, <1>7, <1>8, <1>9

(* The front and the last of what was appended to.                          *)
LEMMA FrontOfAppend ==
  ASSUME NEW S, NEW s \in Seq(S), NEW e \in S
  PROVE  Front(Append(s, e)) = s /\ Last(Append(s, e)) = e
<1>1. PICK t : t = Append(s, e) OBVIOUS
<1>2. t \in Seq(S) /\ t # <<>> /\ Len(t) = Len(s) + 1 /\ t[Len(s) + 1] = e
        /\ \A i \in 1..Len(s) : t[i] = s[i]
  BY <1>1, AppendProperties
<1>3. Len(s) \in Nat BY LenProperties
<1>4. Front(t) \in Seq(S) /\ Len(Front(t)) = Len(t) - 1 /\ Last(t) = t[Len(t)]
        /\ \A i \in 1..(Len(t) - 1) : Front(t)[i] = t[i]
  BY <1>2, FrontFacts
<1>5. Len(Front(t)) = Len(s) /\ \A i \in 1..Len(s) : Front(t)[i] = s[i] BY <1>2, <1>3, <1>4
<1>6. Front(t) = s BY <1>4, <1>5, SeqEqual
<1>7. QED BY <1>1, <1>2, <1>4, <1>6

(* Popping a stack of function contexts that was pushed and then marked.    *)
LEMMA FrontOfFlagged ==
  ASSUME NEW s \in Seq(BOOLEAN), NEW x \in BOOLEAN, NEW t \in Seq(BOOLEAN),
         Flagged(Append(s, x), t)
  PROVE  t # <<>> /\ Front(t) = s
<1>1. Len(s) \in Nat BY LenProperties
<1>2. Len(Append(s, x)) = Len(s) + 1 /\ \A i \in 1..Len(s) : Append(s, x)[i] = s[i]
  BY AppendProperties
<1>3. Len(t) = Len(s) + 1 BY <1>2 DEF Flagged
<1>4. t # <<>> BY <1>1, <1>3, EmptySeq
<1>5. \A i \in 1..Len(s) : t[i] = s[i] BY <1>1, <1>2 DEF Flagged
<1>6. Front(t) \in Seq(BOOLEAN) /\ Len(Front(t)) = Len(t) - 1
        /\ \A i \in 1..(Len(t) - 1) : Front(t)[i] = t[i]
  BY <1>4, FrontFacts
<1>7. Len(Front(t)) = Len(s) /\ \A i \in 1..Len(s) : Front(t)[i] = s[i]
  BY <1>1, <1>3, <1>5, <1>6
<1>8. Front(t) = s BY <1>6, <1>7, SeqEqual
<1>9. QED BY <1>4, <1>8

(* Pushing.                                                                 *)
LEMMA PushSymbols ==
  ASSUME NEW c \in Context, NEW xs \in SUBSET Symbol
  PROVE  /\ NewSymbolTable(c, xs) \in Context
         /\ NewSymbolTable(c, xs).frames = Append(c.frames, xs)
         /\ NewSymbolTable(c, xs).points = c.points
         /\ NewSymbolTable(c, xs).functions = c.functions
<1>1. c = [frames |-> c.frames, points |-> c.points, functions |-> c.functions] BY ContextSplit
<1>2. PICK t : t = Append(c.frames, xs) OBVIOUS
<1>3. t \in Seq(SUBSET Symbol) /\ t # <<>> /\ t[1] = {}
  <2>1. c.frames \in Seq(SUBSET Symbol) /\ 1 \in 1..Len(c.frames) /\ c.frames[1] = {}
    BY ContextFacts
  <2>2. QED BY <1>2, <2>1, AppendProperties
<1>4. NewSymbolTable(c, xs) = [frames |-> t, points |-> c.points, functions |-> c.functions]
  <2>1. NewSymbolTable(c, xs) = [c EXCEPT !.frames = t] BY <1>2, Zenon DEF NewSymbolTable
  <2>2. QED BY <1>1, <2>1
<1>5. [frames |-> t, points |-> c.points, functions |-> c.functions] \in Context
  BY <1>3, ContextFacts, ContextMade
<1>6. QED BY <1>2, <1>4, <1>5

(* A new recursion point.                                                   *)
LEMMA PushPoint ==
  ASSUME NEW c \in Context, NEW n \in Nat
  PROVE  /\ NewRecurPoint(c, n) \in Context
         /\ NewRecurPoint(c, n).frames = c.frames
         /\ NewRecurPoint(c, n).points = Append(c.points, n)
         /\ NewRecurPoint(c, n).functions = c.functions
<1>1. c = [frames |-> c.frames, points |-> c.points, functions |-> c.functions] BY ContextSplit
<1>2. PICK t : t = Append(c.points, n) OBVIOUS
<1>3. t \in Seq(Nat) BY <1>2, ContextFacts, AppendProperties
<1>4. NewRecurPoint(c, n) = [frames |-> c.frames, points |-> t, functions |-> c.functions]
  <2>1. NewRecurPoint(c, n) = [c EXCEPT !.points = t] BY <1>2, Zenon DEF NewRecurPoint
  <2>2. QED BY <1>1, <2>1
<1>5. [frames |-> c.frames, points |-> t, functions |-> c.functions] \in Context
  BY <1>3, ContextFacts, ContextMade
<1>6. QED BY <1>2, <1>4, <1>5

(* A new function, not yet known to be a generator.                         *)
LEMMA PushFunc ==
  ASSUME NEW c \in Context
  PROVE  /\ NewFuncCtx(c) \in Context
         /\ NewFuncCtx(c).frames = c.frames
         /\ NewFuncCtx(c).points = c.points
         /\ NewFuncCtx(c).functions = Append(c.functions, FALSE)
<1>1. c = [frames |-> c.frames, points |-> c.points, functions |-> c.functions] BY ContextSplit
<1>2. PICK t : t = Append(c.functions, FALSE) BY Zenon
<1>3. t \in Seq(BOOLEAN)
  <2>1. FALSE \in BOOLEAN OBVIOUS
  <2>2. c.functions \in Seq(BOOLEAN) BY ContextFacts
  <2>3. QED BY <1>2, <2>1, <2>2, AppendProperties
<1>4. NewFuncCtx(c) = [frames |-> c.frames, points |-> c.points, functions |-> t]
  <2>1. NewFuncCtx(c) = [c EXCEPT !.functions = t] BY <1>2, Zenon DEF NewFuncCtx
  <2>2. QED BY <1>1, <2>1
<1>5. [frames |-> c.frames, points |-> c.points, functions |-> t] \in Context
  BY <1>3, ContextFacts, ContextMade
<1>6. /\ NewFuncCtx(c) \in Context
      /\ NewFuncCtx(c).frames = c.frames
      /\ NewFuncCtx(c).points = c.points
      /\ NewFuncCtx(c).functions = t
  BY <1>4, <1>5
<1>7. QED BY <1>2, <1>6, Zenon

(* Popping.                                                                 *)
LEMMA PopSymbols ==
  ASSUME NEW c \in Context, NEW s \in Seq(SUBSET Symbol), s # <<>>, s[1] = {},
         NEW xs \in SUBSET Symbol, c.frames = Append(s, xs)
  PROVE  /\ PopSymbolTable(c) \in Context
         /\ PopSymbolTable(c).frames = s
         /\ PopSymbolTable(c).points = c.points
         /\ PopSymbolTable(c).functions = c.functions
<1>1. c = [frames |-> c.frames, points |-> c.points, functions |-> c.functions] BY ContextSplit
<1>2. Front(c.frames) = s BY FrontOfAppend
<1>3. PopSymbolTable(c) = [frames |-> s, points |-> c.points, functions |-> c.functions]
  BY <1>1, <1>2 DEF PopSymbolTable
<1>4. [frames |-> s, points |-> c.points, functions |-> c.functions] \in Context
  BY ContextFacts, ContextMade
<1>5. QED BY <1>3, <1>4

(* Popping a recursion point.                                               *)
LEMMA PopPoint ==
  ASSUME NEW c \in Context, NEW s \in Seq(Nat), NEW n \in Nat, c.points = Append(s, n)
  PROVE  /\ PopRecurPoint(c) \in Context
         /\ PopRecurPoint(c).frames = c.frames
         /\ PopRecurPoint(c).points = s
         /\ PopRecurPoint(c).functions = c.functions
<1>1. c = [frames |-> c.frames, points |-> c.points, functions |-> c.functions] BY ContextSplit
<1>2. Front(c.points) = s BY FrontOfAppend
<1>3. PopRecurPoint(c) = [frames |-> c.frames, points |-> s, functions |-> c.functions]
  BY <1>1, <1>2 DEF PopRecurPoint
<1>4. [frames |-> c.frames, points |-> s, functions |-> c.functions] \in Context
  BY ContextFacts, ContextMade
<1>5. QED BY <1>3, <1>4

(* Popping a function, marked or not.                                       *)
LEMMA PopFunc ==
  ASSUME NEW c \in Context, NEW s \in Seq(BOOLEAN), NEW x \in BOOLEAN,
         Flagged(Append(s, x), c.functions)
  PROVE  /\ PopFuncCtx(c) \in Context
         /\ PopFuncCtx(c).frames = c.frames
         /\ PopFuncCtx(c).points = c.points
         /\ PopFuncCtx(c).functions = s
<1>1. c = [frames |-> c.frames, points |-> c.points, functions |-> c.functions] BY ContextSplit
<1>2. Front(c.functions) = s BY ContextFacts, FrontOfFlagged
<1>3. PopFuncCtx(c) = [frames |-> c.frames, points |-> c.points, functions |-> s]
  BY <1>1, <1>2 DEF PopFuncCtx
<1>4. [frames |-> c.frames, points |-> c.points, functions |-> s] \in Context
  BY ContextFacts, ContextMade
<1>5. QED BY <1>3, <1>4

(* Adding to the last frame.                                                *)
LEMMA AddToLastFacts ==
  ASSUME NEW s \in Seq(SUBSET Symbol), s # <<>>, NEW xs \in SUBSET Symbol
  PROVE  /\ AddToLast(s, xs) \in Seq(SUBSET Symbol)
         /\ Len(AddToLast(s, xs)) = Len(s)
         /\ \A i \in 1..Len(s) : AddToLast(s, xs)[i] = IF i = Len(s) THEN s[i] \cup xs ELSE s[i]
<1>1. Len(s) \in Nat \ {0} /\ s[Len(s)] \in SUBSET Symbol BY EmptySeq, ElementOfSeq
<1>2. PICK n : n = Len(s) OBVIOUS
<1>3. n \in 1..Len(s) /\ s[n] \cup xs \in SUBSET Symbol BY <1>1, <1>2
<1>4. PICK t : t = [s EXCEPT ![n] = s[n] \cup xs] OBVIOUS
<1>5. t \in Seq(SUBSET Symbol) /\ Len(t) = Len(s)
        /\ \A i \in 1..Len(s) : t[i] = IF i = n THEN s[n] \cup xs ELSE s[i]
  BY <1>3, <1>4, ExceptSeq
<1>6. AddToLast(s, xs) = t BY <1>2, <1>4 DEF AddToLast
<1>7. QED BY <1>2, <1>5, <1>6

(* Adding nothing changes nothing.                                          *)
LEMMA AddNothing ==
  ASSUME NEW s \in Seq(SUBSET Symbol), s # <<>>
  PROVE  AddToLast(s, {}) = s
<1>1. PICK t : t = AddToLast(s, {}) OBVIOUS
<1>2. t \in Seq(SUBSET Symbol) /\ Len(t) = Len(s)
        /\ \A i \in 1..Len(s) : t[i] = IF i = Len(s) THEN s[i] \cup {} ELSE s[i]
  BY <1>1, AddToLastFacts
<1>3. \A i \in 1..Len(s) : t[i] = s[i] BY <1>2
<1>4. QED BY <1>1, <1>2, <1>3, SeqEqual

(* Adding twice is adding both.                                             *)
LEMMA AddTwice ==
  ASSUME NEW s \in Seq(SUBSET Symbol), s # <<>>, NEW xs \in SUBSET Symbol, NEW ys \in SUBSET Symbol
  PROVE  AddToLast(AddToLast(s, xs), ys) = AddToLast(s, xs \cup ys)
<1>1. PICK t : t = AddToLast(s, xs) OBVIOUS
<1>2. t \in Seq(SUBSET Symbol) /\ Len(t) = Len(s)
        /\ \A i \in 1..Len(s) : t[i] = IF i = Len(s) THEN s[i] \cup xs ELSE s[i]
  BY <1>1, AddToLastFacts
<1>3. Len(s) \in Nat \ {0} BY EmptySeq
<1>4. t # <<>> BY <1>2, <1>3, EmptySeq
<1>5. PICK u : u = AddToLast(t, ys) OBVIOUS
<1>6. u \in Seq(SUBSET Symbol) /\ Len(u) = Len(t)
        /\ \A i \in 1..Len(t) : u[i] = IF i = Len(t) THEN t[i] \cup ys ELSE t[i]
  BY <1>2, <1>4, <1>5, AddToLastFacts
<1>7. PICK zs : zs = xs \cup ys OBVIOUS
<1>8. zs \in SUBSET Symbol BY <1>7
<1>9. PICK v : v = AddToLast(s, zs) OBVIOUS
<1>10. v \in Seq(SUBSET Symbol) /\ Len(v) = Len(s)
        /\ \A i \in 1..Len(s) : v[i] = IF i = Len(s) THEN s[i] \cup zs ELSE s[i]
  BY <1>8, <1>9, AddToLastFacts
<1>11. ASSUME NEW i \in 1..Len(u) PROVE u[i] = v[i]
  <2>4. i \in 1..Len(s) /\ i \in 1..Len(t) BY <1>2, <1>6
  <2>1. CASE i = Len(s)
    <3>1. u[i] = t[i] \cup ys BY <1>2, <1>6, <2>1
    <3>2. t[i] = s[i] \cup xs BY <1>2, <2>1, <2>4
    <3>3. v[i] = s[i] \cup zs BY <1>10, <2>1, <2>4
    <3>4. QED BY <1>7, <3>1, <3>2, <3>3
  <2>2. CASE i # Len(s)
    <3>1. u[i] = t[i] /\ t[i] = s[i] /\ v[i] = s[i] BY <1>2, <1>6, <1>10, <2>2
    <3>2. QED BY <3>1
  <2>3. QED BY <2>1, <2>2
<1>12. u = v BY <1>2, <1>6, <1>10, <1>11, SeqEqual
<1>13. QED BY <1>1, <1>5, <1>7, <1>9, <1>12

(* Adding to the frame that was pushed last.                                *)
LEMMA AddToAppended ==
  ASSUME NEW s \in Seq(SUBSET Symbol), NEW xs \in SUBSET Symbol, NEW ys \in SUBSET Symbol
  PROVE  AddToLast(Append(s, xs), ys) = Append(s, xs \cup ys)
<1>1. PICK t : t = Append(s, xs) OBVIOUS
<1>2. t \in Seq(SUBSET Symbol) /\ t # <<>> /\ Len(t) = Len(s) + 1 /\ t[Len(s) + 1] = xs
        /\ \A i \in 1..Len(s) : t[i] = s[i]
  BY <1>1, AppendProperties
<1>3. Len(s) \in Nat BY LenProperties
<1>4. PICK u : u = AddToLast(t, ys) OBVIOUS
<1>5. u \in Seq(SUBSET Symbol) /\ Len(u) = Len(t)
        /\ \A i \in 1..Len(t) : u[i] = IF i = Len(t) THEN t[i] \cup ys ELSE t[i]
  BY <1>2, <1>4, AddToLastFacts
<1>6. PICK zs : zs = xs \cup ys OBVIOUS
<1>7. zs \in SUBSET Symbol BY <1>6
<1>8. PICK v : v = Append(s, zs) OBVIOUS
<1>9. v \in Seq(SUBSET Symbol) /\ Len(v) = Len(s) + 1 /\ v[Len(s) + 1] = zs
        /\ \A i \in 1..Len(s) : v[i] = s[i]
  BY <1>7, <1>8, AppendProperties
<1>10. ASSUME NEW i \in 1..Len(u) PROVE u[i] = v[i]
  <2>1. CASE i = Len(s) + 1 BY <1>2, <1>3, <1>5, <1>6, <1>9, <2>1
  <2>2. CASE i # Len(s) + 1 BY <1>2, <1>3, <1>5, <1>9, <2>2
  <2>3. QED BY <2>1, <2>2
<1>11. u = v BY <1>2, <1>5, <1>9, <1>10, SeqEqual
<1>12. QED BY <1>1, <1>4, <1>6, <1>8, <1>11

(* Binding names.                                                           *)
LEMMA PutFacts ==
  ASSUME NEW c \in Context, NEW xs \in SUBSET Symbol, xs = {} \/ Len(c.frames) > 1
  PROVE  /\ PutNewSymbols(c, xs) \in Context
         /\ PutNewSymbols(c, xs).frames = AddToLast(c.frames, xs)
         /\ PutNewSymbols(c, xs).points = c.points
         /\ PutNewSymbols(c, xs).functions = c.functions
<1>1. c = [frames |-> c.frames, points |-> c.points, functions |-> c.functions] BY ContextSplit
<1>2. PICK s : s = c.frames OBVIOUS
<1>3. s \in Seq(SUBSET Symbol) /\ s # <<>> /\ s[1] = {} /\ Len(s) \in Nat \ {0}
  BY <1>2, ContextFacts
<1>4. PICK t : t = AddToLast(s, xs) OBVIOUS
<1>5. t \in Seq(SUBSET Symbol) /\ Len(t) = Len(s)
        /\ \A i \in 1..Len(s) : t[i] = IF i = Len(s) THEN s[i] \cup xs ELSE s[i]
  BY <1>3, <1>4, AddToLastFacts
<1>6. t # <<>> BY <1>3, <1>5, EmptySeq
<1>7. t[1] = {}
  <2>1. CASE xs = {}
    <3>1. t = s BY <1>3, <1>4, <2>1, AddNothing
    <3>2. QED BY <1>3, <3>1
  <2>2. CASE Len(s) > 1
    <3>1. 1 \in 1..Len(s) /\ 1 # Len(s)
      <4>1. PICK n \in Nat : n = Len(s) BY <1>3
      <4>2. n > 1 BY <2>2, <4>1
      <4>3. 1 \in 1..n /\ 1 # n BY <4>2
      <4>4. QED BY <4>1, <4>3
    <3>2. t[1] = s[1] BY <1>5, <3>1
    <3>3. QED BY <1>3, <3>2
  <2>3. QED BY <1>2, <2>1, <2>2
<1>8. PutNewSymbols(c, xs) = [frames |-> t, points |-> c.points, functions |-> c.functions]
  <2>1. t = [s EXCEPT ![Len(s)] = s[Len(s)] \cup xs] BY <1>4 DEF AddToLast
  <2>2. PutNewSymbols(c, xs) = [c EXCEPT !.frames = [c.frames EXCEPT ![Len(c.frames)] =
                                                        c.frames[Len(c.frames)] \cup xs]]
    BY <1>1 DEF PutNewSymbols
  <2>3. PutNewSymbols(c, xs) = [c EXCEPT !.frames = t] BY <1>2, <2>1, <2>2
  <2>4. QED BY <1>1, <2>3
<1>9. [frames |-> t, points |-> c.points, functions |-> c.functions] \in Context
  BY <1>5, <1>6, <1>7, ContextFacts, ContextMade
<1>10. QED BY <1>2, <1>4, <1>8, <1>9

----------------------------------------------------------------------------
(* What an analysis gives.                                                  *)

IsNode(n) == n.recurs \in BOOLEAN /\ n.tail \in BOOLEAN /\ 1 \notin n.frames

(* A result of analyzing something in context c: what it pushed is popped    *)
(* unless it raised.                                                        *)
IsResult(c, r) ==
  /\ r.ok \in BOOLEAN
  /\ r.ctx \in Context
  /\ r.ok => Undone(c, r.ctx) /\ r.nodes = <<r.nodes[1]>> /\ IsNode(r.nodes[1])

Good(f) == \A pos \in Position : \A c \in Context : IsResult(c, Analyze[f][pos][c])

NodeSet ==
  UNION {UNION {{Analyze[f][pos][c].nodes[1] : c \in Context} : pos \in Position} : f \in Form}

(* The context in which the i-th of some items is analyzed when all are from *)
(* context c, the names bound by those before it among the last frame's.     *)
BoundBefore(items, i) == UNION {items[j].binds : j \in 1..(i - 1)}

InFrom(c, items, i, d) ==
  /\ d \in Context
  /\ d.frames = AddToLast(c.frames, BoundBefore(items, i))
  /\ d.points = c.points
  /\ Flagged(c.functions, d.functions)

ResultOf(items, i, d) == Analyze[items[i].form][items[i].pos][d]

(* The node n was made of the i-th item; one of the items could not be       *)
(* analyzed.                                                                *)
Made(c, items, i, n) ==
  \E d \in Context :
    InFrom(c, items, i, d) /\ ResultOf(items, i, d).ok /\ n = ResultOf(items, i, d).nodes[1]

Fails(c, items) ==
  \E i \in 1..Len(items) : \E d \in Context : InFrom(c, items, i, d) /\ ~ResultOf(items, i, d).ok

(* A result of the first n items.                                           *)
AllUpto(c, items, n, a) ==
  /\ a.ok \in BOOLEAN
  /\ a.ctx \in Context
  /\ a.ok => /\ InFrom(c, items, n + 1, a.ctx)
             /\ a.nodes \in Seq(NodeSet)
             /\ Len(a.nodes) = n
             /\ \A i \in 1..n : Made(c, items, i, a.nodes[i])
  /\ ~a.ok => Fails(c, items)

Plain(items) == \A i \in 1..Len(items) : items[i].binds = {}

(* The fields of an item.                                                   *)
LEMMA ItemFacts ==
  ASSUME NEW items \in Seq(Item), NEW j \in 1..Len(items)
  PROVE  /\ items[j].form \in Form
         /\ items[j].pos \in Position
         /\ items[j].binds \in SUBSET Symbol
<1>1. items[j] \in Item BY ElementOfSeq
<1>2. QED BY <1>1 DEF Item

(* What an analysis returns is among the nodes.                             *)
LEMMA InNodeSet ==
  ASSUME NEW f \in Form, NEW pos \in Position, NEW c \in Context
  PROVE  Analyze[f][pos][c].nodes[1] \in NodeSet
BY DEF NodeSet

(* What is bound before an item.                                            *)
LEMMA BoundBeforeFacts ==
  ASSUME NEW items \in Seq(Item), NEW n \in 1..Len(items)
  PROVE  /\ BoundBefore(items, 1) = {}
         /\ BoundBefore(items, n) \in SUBSET Symbol
         /\ BoundBefore(items, n) \cup items[n].binds = BoundBefore(items, n + 1)
<1>1. Len(items) \in Nat /\ n \in 1..Len(items) BY LenProperties
<1>2. \A j \in 1..Len(items) : items[j].binds \in SUBSET Symbol BY ItemFacts
<1>3. BoundBefore(items, 1) = {} BY DEF BoundBefore
<1>4. BoundBefore(items, n) \in SUBSET Symbol BY <1>1, <1>2 DEF BoundBefore
<1>5. 1..((n + 1) - 1) = (1..(n - 1)) \cup {n} BY <1>1
<1>6. BoundBefore(items, n) \cup items[n].binds = BoundBefore(items, n + 1)
  BY <1>5 DEF BoundBefore
<1>7. QED BY <1>3, <1>4, <1>6

(* All that is bound are symbols.                                           *)
LEMMA BoundBeforeAll ==
  ASSUME NEW items \in Seq(Item)
  PROVE  BoundBefore(items, Len(items) + 1) \in SUBSET Symbol
<1>1. PICK k \in Nat : k = Len(items) BY LenProperties
<1>2. \A j \in 1..k : items[j].binds \in SUBSET Symbol BY <1>1, ItemFacts
<1>3. (k + 1) - 1 = k BY <1>1
<1>4. BoundBefore(items, k + 1) \in SUBSET Symbol BY <1>2, <1>3 DEF BoundBefore
<1>5. QED BY <1>1, <1>4

(* One more item.                                                           *)
LEMMA OneMore ==
  ASSUME NEW c \in Context, NEW items \in Seq(Item), NEW n \in 1..Len(items),
         Plain(items) \/ Len(c.frames) > 1,
         Good(items[n].form),
         NEW b, AllUpto(c, items, n - 1, b)
  PROVE  AllUpto(c, items, n, AnalyzeNext(Analyze, items[n], b))
<1>1. Len(items) \in Nat /\ n \in Nat /\ n - 1 \in Nat BY LenProperties
<1>2. CASE ~b.ok
  <2>1. AnalyzeNext(Analyze, items[n], b) = b BY <1>2 DEF AnalyzeNext
  <2>2. b.ok \in BOOLEAN /\ b.ctx \in Context /\ Fails(c, items) BY <1>2 DEF AllUpto
  <2>3. AllUpto(c, items, n, b) BY <1>2, <2>2 DEF AllUpto
  <2>4. QED BY <2>1, <2>3
<1>3. CASE b.ok
  <2>1. PICK d : d = b.ctx OBVIOUS
  <2>2. d \in Context /\ InFrom(c, items, (n - 1) + 1, d) BY <1>3, <2>1 DEF AllUpto
  <2>3. (n - 1) + 1 = n BY <1>1
  <2>4. InFrom(c, items, n, d) BY <2>2, <2>3
  <2>5. items[n] \in Item BY ElementOfSeq
  <2>6. items[n].form \in Form /\ items[n].pos \in Position /\ items[n].binds \in SUBSET Symbol
    BY <2>5 DEF Item
  <2>7. PICK r : r = Analyze[items[n].form][items[n].pos][d] OBVIOUS
  <2>8. IsResult(d, r) BY <2>2, <2>6, <2>7 DEF Good
  <2>9. CASE ~r.ok
    <3>1. AnalyzeNext(Analyze, items[n], b) = r BY <1>3, <2>1, <2>7, <2>9 DEF AnalyzeNext
    <3>2. Fails(c, items) BY <2>2, <2>4, <2>7, <2>9 DEF Fails, ResultOf
    <3>3. r.ok \in BOOLEAN /\ r.ctx \in Context BY <2>8 DEF IsResult
    <3>4. AllUpto(c, items, n, r) BY <2>9, <3>2, <3>3 DEF AllUpto
    <3>5. QED BY <3>1, <3>4
  <2>10. CASE r.ok
    <3>1. PICK q : q = PutNewSymbols(r.ctx, items[n].binds) OBVIOUS
    <3>2. PICK s : s = b.nodes \o r.nodes OBVIOUS
    <3>3. AnalyzeNext(Analyze, items[n], b) = Returns(q, s)
      BY <1>3, <2>1, <2>7, <2>10, <3>1, <3>2 DEF AnalyzeNext
    <3>4. r.ctx \in Context /\ Undone(d, r.ctx) /\ r.nodes = <<r.nodes[1]>> BY <2>8, <2>10 DEF IsResult
    <3>5. c.frames \in Seq(SUBSET Symbol) /\ c.frames # <<>> BY ContextFacts
    <3>6. BoundBefore(items, n) \in SUBSET Symbol
            /\ BoundBefore(items, n) \cup items[n].binds = BoundBefore(items, n + 1)
      BY BoundBeforeFacts
    <3>7. d.frames = AddToLast(c.frames, BoundBefore(items, n)) /\ d.points = c.points
            /\ Flagged(c.functions, d.functions)
      BY <2>4 DEF InFrom
    <3>8. Len(d.frames) = Len(c.frames) BY <3>5, <3>6, <3>7, AddToLastFacts
    <3>9. r.ctx.frames = d.frames /\ r.ctx.points = d.points /\ Flagged(d.functions, r.ctx.functions)
      BY <3>4 DEF Undone
    <3>10. items[n].binds = {} \/ Len(r.ctx.frames) > 1 BY <3>8, <3>9 DEF Plain
    <3>11. q \in Context /\ q.frames = AddToLast(r.ctx.frames, items[n].binds)
             /\ q.points = r.ctx.points /\ q.functions = r.ctx.functions
      BY <2>6, <3>1, <3>4, <3>10, PutFacts
    <3>12. AddToLast(AddToLast(c.frames, BoundBefore(items, n)), items[n].binds)
             = AddToLast(c.frames, BoundBefore(items, n) \cup items[n].binds)
      BY <2>6, <3>5, <3>6, AddTwice
    <3>13. q.frames = AddToLast(c.frames, BoundBefore(items, n + 1))
      BY <3>6, <3>7, <3>9, <3>11, <3>12
    <3>14. Flagged(c.functions, r.ctx.functions)
      <4>1. c.functions \in Seq(BOOLEAN) /\ d.functions \in Seq(BOOLEAN)
              /\ r.ctx.functions \in Seq(BOOLEAN)
        BY <2>2, <3>4, ContextFacts
      <4>2. QED BY <3>7, <3>9, <4>1, FlaggedTwice
    <3>15. InFrom(c, items, n + 1, q) BY <3>7, <3>9, <3>11, <3>13, <3>14 DEF InFrom
    <3>16. b.nodes \in Seq(NodeSet) /\ Len(b.nodes) = n - 1
             /\ \A i \in 1..(n - 1) : Made(c, items, i, b.nodes[i])
      BY <1>3 DEF AllUpto
    <3>17. PICK x : x = r.nodes[1] OBVIOUS
    <3>18. x \in NodeSet BY <2>2, <2>6, <2>7, <3>17, InNodeSet
    <3>19. PICK t : t = <<x>> OBVIOUS
    <3>20. t \in Seq(NodeSet) /\ Len(t) = 1 /\ t[1] = x BY <3>18, <3>19
    <3>21. r.nodes = t BY <3>4, <3>17, <3>19
    <3>22. s \in Seq(NodeSet) /\ Len(s) = Len(b.nodes) + Len(t)
             /\ \A i \in 1..(Len(b.nodes) + Len(t)) :
                  s[i] = IF i <= Len(b.nodes) THEN b.nodes[i] ELSE t[i - Len(b.nodes)]
      BY <3>2, <3>16, <3>20, <3>21, ConcatProperties
    <3>23. Len(s) = n BY <1>1, <3>16, <3>20, <3>22
    <3>24. Made(c, items, n, x) BY <2>2, <2>4, <2>7, <2>10, <3>17 DEF Made, ResultOf
    <3>25. ASSUME NEW i \in 1..n PROVE Made(c, items, i, s[i])
      <4>1. CASE i = n
        <5>5. PICK k \in Nat : k = Len(b.nodes) BY <1>1, <3>16
        <5>6. n \in 1..(k + 1) /\ ~(n <= k) BY <1>1, <3>16, <5>5
        <5>7. s[n] = t[n - k] BY <3>20, <3>22, <5>5, <5>6
        <5>1. s[n] = t[n - (n - 1)] BY <3>16, <5>5, <5>7
        <5>2. n - (n - 1) = 1 BY <1>1
        <5>3. s[i] = x BY <3>20, <4>1, <5>1, <5>2
        <5>4. QED BY <3>24, <4>1, <5>3
      <4>2. CASE i # n
        <5>1. i \in 1..(n - 1) BY <1>1, <4>2
        <5>2. s[i] = b.nodes[i] BY <1>1, <3>16, <3>20, <3>22, <5>1
        <5>3. QED BY <3>16, <5>1, <5>2
      <4>3. QED BY <4>1, <4>2
    <3>26. PICK a : a = Returns(q, s) OBVIOUS
    <3>27. a.ok = TRUE /\ a.ctx = q /\ a.nodes = s BY <3>26 DEF Returns
    <3>28. AllUpto(c, items, n, a)
      BY <3>11, <3>15, <3>22, <3>23, <3>25, <3>27 DEF AllUpto
    <3>29. QED BY <3>3, <3>26, <3>28
  <2>11. QED BY <2>8, <2>9, <2>10 DEF IsResult
<1>4. QED BY <1>2, <1>3

(* Analyzing items whose forms are good.                                    *)
LEMMA AllResult ==
  ASSUME NEW c \in Context, NEW items \in Seq(Item),
         Plain(items) \/ Len(c.frames) > 1,
         \A i \in 1..Len(items) : Good(items[i].form)
  PROVE  AllUpto(c, items, Len(items), AnalyzeAll(Analyze, items, c))
<1>1. Len(items) \in Nat BY LenProperties
<1>2. PICK u : Steps(Analyze, items, c, u) /\ AnalyzeAll(Analyze, items, c) = u[Len(items)]
  BY AnalyzeAllSteps
<1> DEFINE S == {n \in 0..Len(items) : AllUpto(c, items, n, u[n])}
<1>3. 0 \in S
  <2>1. u[0] = Returns(c, <<>>) BY <1>2 DEF Steps
  <2>2. PICK a : a = u[0] OBVIOUS
  <2>3. a.ok = TRUE /\ a.ctx = c /\ a.nodes = <<>> BY <2>1, <2>2 DEF Returns
  <2>4. BoundBefore(items, 0 + 1) = {} BY DEF BoundBefore
  <2>5. c.frames = AddToLast(c.frames, BoundBefore(items, 0 + 1)) BY <2>4, ContextFacts, AddNothing
  <2>6. Flagged(c.functions, c.functions) BY ContextFacts, FlaggedSelf
  <2>7. InFrom(c, items, 0 + 1, c) BY <2>5, <2>6 DEF InFrom
  <2>11. a.nodes \in Seq(NodeSet) /\ Len(a.nodes) = 0 BY <2>3, EmptySeq
  <2>12. \A i \in 1..0 : Made(c, items, i, a.nodes[i]) OBVIOUS
  <2>13. InFrom(c, items, 0 + 1, a.ctx) /\ a.ctx \in Context BY <2>3, <2>7
  <2>14. a.ok BY <2>3
  <2>15. a.ok \in BOOLEAN BY <2>3
  <2>8. AllUpto(c, items, 0, a) BY <2>11, <2>12, <2>13, <2>14, <2>15 DEF AllUpto
  <2>9. 0 \in 0..Len(items) BY <1>1
  <2>10. QED BY <2>2, <2>8, <2>9
<1>4. ASSUME NEW n \in 1..Len(items), n - 1 \in S PROVE n \in S
  <2>1. u[n] = AnalyzeNext(Analyze, items[n], u[n - 1]) BY <1>2 DEF Steps
  <2>2. AllUpto(c, items, n - 1, u[n - 1]) BY <1>4
  <2>3. AllUpto(c, items, n, AnalyzeNext(Analyze, items[n], u[n - 1])) BY <2>2, OneMore
  <2>4. n \in 0..Len(items) BY <1>1
  <2>5. QED BY <2>1, <2>3, <2>4
<1>5. \A n \in 0..Len(items) : n \in S
  <2> HIDE DEF S
  <2>1. \A n \in 1..Len(items) : n - 1 \in S => n \in S BY <1>4
  <2>2. QED BY <1>1, <1>3, <2>1, UpTo
<1>6. Len(items) \in S BY <1>1, <1>5
<1>7. QED BY <1>2, <1>6

(* What a node says of itself.                                              *)
LEMMA NodeFacts ==
  ASSUME NEW op, NEW pos, NEW args, NEW info
  PROVE  /\ Node(op, pos, args, info).op = op
         /\ Node(op, pos, args, info).args = args
         /\ Node(op, pos, args, info).info = info
         /\ Node(op, pos, args, info).recurs <=> Recurs(op, args)
         /\ Node(op, pos, args, info).tail <=> RecurIsTail(op, args)
         /\ Node(op, pos, args, info).recurs \in BOOLEAN
         /\ Node(op, pos, args, info).tail \in BOOLEAN
         /\ Node(op, pos, args, info).frames
              = (IF op = "local" THEN {info.frame} ELSE {}) \cup UNION {args[i].frames : i \in DOMAIN args}
         /\ Node(op, pos, args, info).points
              = (IF op = "recur" THEN {info.point} ELSE {}) \cup UNION {args[i].points : i \in DOMAIN args}
<1>1. Recurs(op, args) \in BOOLEAN BY DEF Recurs
<1>2. RecurIsTail(op, args) \in BOOLEAN
  <2>1. CASE op \in {"do", "let*"} BY <2>1, Zenon DEF RecurIsTail
  <2>2. CASE op = "loop*" BY <2>2 DEF RecurIsTail, NoneRecurs
  <2>3. CASE op = "if" BY <2>3, Zenon DEF RecurIsTail
  <2>4. CASE op = "recur" BY <2>4 DEF RecurIsTail
  <2>5. CASE op = "try" BY <2>5, Zenon DEF RecurIsTail
  <2>6. CASE op \notin {"do", "let*", "loop*", "if", "recur", "try"} BY <2>6 DEF RecurIsTail
  <2>7. QED BY <2>1, <2>2, <2>3, <2>4, <2>5, <2>6
<1>3. QED BY <1>1, <1>2 DEF Node

(* A node of nodes is one.                                                  *)
LEMMA NodeIsNode ==
  ASSUME NEW op, NEW pos, NEW args, NEW info,
         \A i \in DOMAIN args : 1 \notin args[i].frames,
         op = "local" => info.frame # 1
  PROVE  IsNode(Node(op, pos, args, info))
<1>1. PICK n : n = Node(op, pos, args, info) OBVIOUS
<1>2. n.recurs \in BOOLEAN /\ n.tail \in BOOLEAN
        /\ n.frames = (IF op = "local" THEN {info.frame} ELSE {})
                        \cup UNION {args[i].frames : i \in DOMAIN args}
  BY <1>1, NodeFacts
<1>3. 1 \notin n.frames BY <1>2
<1>4. QED BY <1>1, <1>2, <1>3 DEF IsNode

(* What is returned and what is raised are results.                         *)
LEMMA ReturnsResult ==
  ASSUME NEW c \in Context, NEW d \in Context, Undone(c, d), NEW n, IsNode(n)
  PROVE  IsResult(c, Returns(d, <<n>>))
BY DEF Returns, IsResult

(* Raising is a result.                                                     *)
LEMMA RaisesResult ==
  ASSUME NEW c \in Context, NEW d \in Context
  PROVE  IsResult(c, Raises(d))
BY DEF Raises, IsResult

(* So is what is made of the nodes.                                         *)
LEMMA MakesResult ==
  ASSUME NEW c \in Context, NEW a, a.ok \in BOOLEAN, a.ctx \in Context,
         NEW n, a.ok => Undone(c, a.ctx) /\ IsNode(n)
  PROVE  IsResult(c, Makes(a, n))
<1>1. CASE a.ok
  <2>1. IsResult(c, Returns(a.ctx, <<n>>)) BY <1>1, ReturnsResult
  <2>2. QED BY <1>1, <2>1 DEF Makes
<1>2. CASE ~a.ok
  <2>1. Makes(a, n) = a BY <1>2 DEF Makes
  <2>2. IsResult(c, a) BY <1>2 DEF IsResult
  <2>3. QED BY <2>1, <2>2
<1>3. QED BY <1>1, <1>2

(* Undone is an order.                                                      *)
LEMMA UndoneSelf ==
  ASSUME NEW c \in Context
  PROVE  Undone(c, c)
<1>1. Flagged(c.functions, c.functions) BY ContextFacts, FlaggedSelf
<1>2. QED BY <1>1 DEF Undone

(* Undone is transitive.                                                    *)
LEMMA UndoneTwice ==
  ASSUME NEW c \in Context, NEW d \in Context, NEW e \in Context, Undone(c, d), Undone(d, e)
  PROVE  Undone(c, e)
<1>1. c.functions \in Seq(BOOLEAN) /\ d.functions \in Seq(BOOLEAN) /\ e.functions \in Seq(BOOLEAN)
  BY ContextFacts
<1>2. Flagged(c.functions, d.functions) /\ Flagged(d.functions, e.functions) BY DEF Undone
<1>3. Flagged(c.functions, e.functions) BY <1>1, <1>2, FlaggedTwice
<1>4. QED BY <1>3 DEF Undone

(* Where nothing is bound, each item is analyzed as in the first's context. *)
LEMMA PlainUndone ==
  ASSUME NEW c \in Context, NEW items \in Seq(Item), Plain(items),
         NEW i \in 1..(Len(items) + 1), NEW d, InFrom(c, items, i, d)
  PROVE  d \in Context /\ Undone(c, d)
<1>1. PICK k \in Nat : k = Len(items) BY LenProperties
<1>2. \A j \in 1..(i - 1) : j \in 1..Len(items) BY <1>1
<1>3. BoundBefore(items, i) = {} BY <1>2 DEF Plain, BoundBefore
<1>4. c.frames \in Seq(SUBSET Symbol) /\ c.frames # <<>> BY ContextFacts
<1>5. AddToLast(c.frames, {}) = c.frames BY <1>4, AddNothing
<1>6. QED BY <1>3, <1>5 DEF InFrom, Undone

(* The nodes made of items whose forms are good.                            *)
LEMMA MadeIsNode ==
  ASSUME NEW c \in Context, NEW items \in Seq(Item), NEW i \in 1..Len(items),
         Good(items[i].form), NEW n, Made(c, items, i, n)
  PROVE  IsNode(n)
<1>1. PICK d \in Context : ResultOf(items, i, d).ok /\ n = ResultOf(items, i, d).nodes[1]
  BY DEF Made
<1>2. items[i].pos \in Position BY ItemFacts
<1>3. IsResult(d, ResultOf(items, i, d)) BY <1>2 DEF Good, ResultOf
<1>4. QED BY <1>1, <1>3 DEF IsResult

(* Analyzing items that bind nothing.                                       *)
LEMMA PlainResult ==
  ASSUME NEW c \in Context, NEW items \in Seq(Item), Plain(items),
         \A i \in 1..Len(items) : Good(items[i].form),
         NEW a, a = AnalyzeAll(Analyze, items, c)
  PROVE  /\ a.ok \in BOOLEAN /\ a.ctx \in Context
         /\ a.ok => /\ Undone(c, a.ctx)
                    /\ a.nodes \in Seq(NodeSet) /\ Len(a.nodes) = Len(items)
                    /\ DOMAIN a.nodes = 1..Len(items)
                    /\ \A i \in 1..Len(items) : IsNode(a.nodes[i])
<1>1. AllUpto(c, items, Len(items), a) BY AllResult
<1>2. a.ok \in BOOLEAN /\ a.ctx \in Context BY <1>1 DEF AllUpto
<1>3. ASSUME a.ok
      PROVE  /\ Undone(c, a.ctx)
             /\ a.nodes \in Seq(NodeSet) /\ Len(a.nodes) = Len(items)
             /\ DOMAIN a.nodes = 1..Len(items)
             /\ \A i \in 1..Len(items) : IsNode(a.nodes[i])
  <2>1. InFrom(c, items, Len(items) + 1, a.ctx) /\ a.nodes \in Seq(NodeSet)
          /\ Len(a.nodes) = Len(items) /\ \A i \in 1..Len(items) : Made(c, items, i, a.nodes[i])
    BY <1>1, <1>3 DEF AllUpto
  <2>2. Len(items) + 1 \in 1..(Len(items) + 1)
    <3>1. PICK k \in Nat : k = Len(items) BY LenProperties
    <3>2. QED BY <3>1
  <2>3. Undone(c, a.ctx) BY <2>1, <2>2, PlainUndone
  <2>4. DOMAIN a.nodes = 1..Len(items) BY <2>1, LenProperties
  <2>5. ASSUME NEW i \in 1..Len(items) PROVE IsNode(a.nodes[i]) BY <2>1, MadeIsNode
  <2>6. QED BY <2>1, <2>3, <2>4, <2>5
<1>4. QED BY <1>2, <1>3

(* The items of statements and of expressions bind nothing.                 *)
LEMMA StatementsPlain ==
  ASSUME NEW fs \in Seq(Form), NEW pos \in Position
  PROVE  Plain(Statements(fs, pos))
BY StatementsList DEF Plain

(* Expressions bind nothing.                                                *)
LEMMA ExpressionsPlain ==
  ASSUME NEW fs \in Seq(Form)
  PROVE  Plain(Expressions(fs))
BY ExpressionsList DEF Plain

(* A constant is a node.                                                    *)
LEMMA ConstIsNode ==
  ASSUME NEW v, NEW pos
  PROVE  IsNode(ConstNode(v, pos))
<1>1. \A i \in DOMAIN << >> : 1 \notin <<>>[i].frames OBVIOUS
<1>2. "const" = "local" => [val |-> v].frame # 1 OBVIOUS
<1>3. IsNode(Node("const", pos, <<>>, [val |-> v])) BY <1>1, <1>2, NodeIsNode
<1>4. QED BY <1>3 DEF ConstNode

(* Analyzing a body whose forms are good.                                   *)
LEMMA BodyResult ==
  ASSUME NEW c \in Context, NEW fs \in Seq(Form), NEW pos \in Position,
         \A i \in 1..Len(fs) : Good(fs[i])
  PROVE  IsResult(c, AnalyzeBody(Analyze, fs, pos, c))
<1>1. PICK s : s = Statements(fs, pos) OBVIOUS
<1>2. s \in Seq(Item) /\ Len(s) = Len(fs) /\ \A i \in 1..Len(fs) : s[i].form = fs[i]
  BY <1>1, StatementsList
<1>3. \A i \in 1..Len(s) : Good(s[i].form) BY <1>2
<1>4. Plain(s) BY <1>1, StatementsPlain
<1>5. PICK a : a = AnalyzeAll(Analyze, s, c) OBVIOUS
<1>6. /\ a.ok \in BOOLEAN /\ a.ctx \in Context
      /\ a.ok => /\ Undone(c, a.ctx)
                 /\ DOMAIN a.nodes = 1..Len(s)
                 /\ \A i \in 1..Len(s) : IsNode(a.nodes[i])
  BY <1>2, <1>3, <1>4, <1>5, PlainResult
<1>7. PICK ns : ns = IF fs = <<>> THEN <<ConstNode(Nil, pos)>> ELSE a.nodes OBVIOUS
<1>8. PICK n : n = Node("do", pos, ns, NoInfo) OBVIOUS
<1>9. ASSUME a.ok PROVE IsNode(n)
  <2>1. \A i \in DOMAIN ns : 1 \notin ns[i].frames
    <3>1. CASE fs = <<>>
      <4>1. PICK x : x = ConstNode(Nil, pos) OBVIOUS
      <4>2. 1 \notin x.frames BY <4>1, ConstIsNode DEF IsNode
      <4>3. ns = <<x>> BY <1>7, <3>1, <4>1
      <4>4. QED BY <4>2, <4>3
    <3>2. CASE fs # <<>>
      <4>1. ns = a.nodes BY <1>7, <3>2
      <4>2. QED BY <1>6, <1>9, <4>1 DEF IsNode
    <3>3. QED BY <3>1, <3>2
  <2>2. QED BY <1>8, <2>1, NodeIsNode
<1>10. AnalyzeBody(Analyze, fs, pos, c) = Makes(a, n)
  BY <1>1, <1>5, <1>7, <1>8 DEF AnalyzeBody
<1>11. a.ok => Undone(c, a.ctx) /\ IsNode(n) BY <1>6, <1>9
<1>12. IsResult(c, Makes(a, n)) BY <1>6, <1>11, MakesResult
<1>13. QED BY <1>10, <1>12

(* One more node.                                                           *)
LEMMA Joined ==
  ASSUME NEW S, NEW s \in Seq(S), NEW x, NEW t, t = s \o <<x>>
  PROVE  /\ t # <<>> /\ Len(t) = Len(s) + 1 /\ DOMAIN t = 1..(Len(s) + 1)
         /\ \A i \in 1..Len(s) : t[i] = s[i]
         /\ t[Len(s) + 1] = x
         /\ Front(t) = s /\ Last(t) = x
<1>1. PICK T : T = S \cup {x} OBVIOUS
<1>2. s \in Seq(T) /\ x \in T
  <2>1. S \subseteq T BY <1>1
  <2>2. QED BY <1>1, <2>1, SeqMonotonic
<1>3. PICK u : u = <<x>> OBVIOUS
<1>4. u \in Seq(T) /\ Len(u) = 1 /\ u[1] = x BY <1>2, <1>3
<1>5. t = s \o u BY <1>3
<1>6. PICK k \in Nat : k = Len(s) BY LenProperties
<1>7. t \in Seq(T) /\ Len(t) = k + 1
        /\ \A i \in 1..(k + 1) : t[i] = IF i <= k THEN s[i] ELSE u[i - k]
  BY <1>2, <1>4, <1>5, <1>6, ConcatProperties
<1>8. t # <<>> /\ DOMAIN t = 1..(k + 1) BY <1>6, <1>7, EmptySeq, LenProperties
<1>9. \A i \in 1..k : t[i] = s[i] BY <1>6, <1>7
<1>10. t[k + 1] = x
  <2>1. k + 1 \in 1..(k + 1) /\ ~(k + 1 <= k) /\ (k + 1) - k = 1 BY <1>6
  <2>2. QED BY <1>4, <1>7, <2>1
<1>11. Front(t) \in Seq(T) /\ Len(Front(t)) = Len(t) - 1 /\ Last(t) = t[Len(t)]
         /\ \A i \in 1..(Len(t) - 1) : Front(t)[i] = t[i]
  BY <1>7, <1>8, FrontFacts
<1>12. Len(Front(t)) = k /\ \A i \in 1..k : Front(t)[i] = s[i] BY <1>6, <1>7, <1>9, <1>11
<1>13. Front(t) = s BY <1>2, <1>6, <1>11, <1>12, SeqEqual
<1>14. Last(t) = x BY <1>7, <1>10, <1>11
<1>15. QED BY <1>6, <1>7, <1>8, <1>9, <1>10, <1>13, <1>14

(* The node of some nodes and one more is one.                              *)
LEMMA JoinedIsNode ==
  ASSUME NEW S, NEW s \in Seq(S), \A i \in 1..Len(s) : IsNode(s[i]), NEW x, IsNode(x),
         NEW op, op # "local", NEW pos, NEW info
  PROVE  IsNode(Node(op, pos, s \o <<x>>, info))
<1>1. PICK t : t = s \o <<x>> OBVIOUS
<1>2. PICK k \in Nat : k = Len(s) BY LenProperties
<1>3. DOMAIN t = 1..(k + 1) /\ t[k + 1] = x /\ \A i \in 1..k : t[i] = s[i] BY <1>1, <1>2, Joined
<1>4. ASSUME NEW i \in DOMAIN t PROVE 1 \notin t[i].frames
  <2>1. i \in 1..k \/ i = k + 1 BY <1>2, <1>3
  <2>2. IsNode(t[i]) BY <1>2, <1>3, <2>1
  <2>3. QED BY <2>2 DEF IsNode
<1>5. IsNode(Node(op, pos, t, info)) BY <1>4, NodeIsNode
<1>6. QED BY <1>1, <1>5

(* What holds of the parts of a form.                                       *)
LEMMA PartsAre ==
  ASSUME NEW f \in Form, NEW S, Parts(f) \subseteq S
  PROVE  /\ \A i \in 1..Len(f.args) : f.args[i] \in S
         /\ f.is \in {"let*", "loop*"} => \A i \in 1..Len(BodyOf(f)) : BodyOf(f)[i] \in S
         /\ f.is = "fn*" => \A i \in 1..Len(f.body) : f.body[i] \in S
         /\ f.is = "try" => /\ \A i \in 1..Len(f.catches) : f.catches[i] \in S
                            /\ \A i \in 1..Len(f.finally) : f.finally[i] \in S
BY ArgsAreParts, BodyOfFacts, OtherParts

(* In the context d, a frame with the names xs has been pushed on c's, and   *)
(* nothing else.                                                            *)
Entered(c, xs, d) ==
  /\ d \in Context
  /\ d.frames = Append(c.frames, xs)
  /\ d.points = c.points
  /\ Flagged(c.functions, d.functions)

(* Pushing a frame enters it.                                               *)
LEMMA PushEnters ==
  ASSUME NEW c \in Context, NEW xs \in SUBSET Symbol
  PROVE  Entered(c, xs, NewSymbolTable(c, xs))
<1>1. Flagged(c.functions, c.functions) BY ContextFacts, FlaggedSelf
<1>2. QED BY <1>1, PushSymbols DEF Entered

(* What is analyzed after that leaves the frame where it is, and popping it  *)
(* undoes all.                                                              *)
LEMMA EnteredStays ==
  ASSUME NEW c \in Context, NEW xs \in SUBSET Symbol, NEW d, Entered(c, xs, d),
         NEW e \in Context, Undone(d, e)
  PROVE  Entered(c, xs, e)
<1>1. d \in Context /\ d.frames = Append(c.frames, xs) /\ d.points = c.points
        /\ Flagged(c.functions, d.functions)
  BY DEF Entered
<1>2. e.frames = d.frames /\ e.points = d.points /\ Flagged(d.functions, e.functions) BY DEF Undone
<1>3. c.functions \in Seq(BOOLEAN) /\ d.functions \in Seq(BOOLEAN) /\ e.functions \in Seq(BOOLEAN)
  BY <1>1, ContextFacts
<1>4. Flagged(c.functions, e.functions) BY <1>1, <1>2, <1>3, FlaggedTwice
<1>5. QED BY <1>1, <1>2, <1>4 DEF Entered

(* Popping the frame that was entered undoes all.                           *)
LEMMA LeaveSymbols ==
  ASSUME NEW c \in Context, NEW xs \in SUBSET Symbol, NEW d, Entered(c, xs, d)
  PROVE  PopSymbolTable(d) \in Context /\ Undone(c, PopSymbolTable(d))
<1>1. d \in Context /\ d.frames = Append(c.frames, xs) /\ d.points = c.points
        /\ Flagged(c.functions, d.functions)
  BY DEF Entered
<1>2. c.frames \in Seq(SUBSET Symbol) /\ c.frames # <<>> /\ c.frames[1] = {} BY ContextFacts
<1>3. PopSymbolTable(d) \in Context /\ PopSymbolTable(d).frames = c.frames
        /\ PopSymbolTable(d).points = d.points /\ PopSymbolTable(d).functions = d.functions
  BY <1>1, <1>2, PopSymbols
<1>4. QED BY <1>1, <1>3 DEF Undone

(* The names that a let* or loop* has bound before its i-th init form.      *)
BoundUpTo(f, i) == {f.names[j] : j \in 1..(i - 1)}

(* The names that a form binds are symbols.                                 *)
LEMMA NamesAreSymbols ==
  ASSUME NEW f \in Form, f.is \in {"let*", "loop*", "fn*"}
  PROVE  /\ Len(f.names) \in Nat /\ DOMAIN f.names = 1..Len(f.names)
         /\ \A i \in 1..Len(f.names) : f.names[i] \in Symbol
         /\ ToSet(f.names) \in SUBSET Symbol
         /\ BoundUpTo(f, Len(f.names) + 1) = ToSet(f.names)
<1>1. f.names \in Seq(Symbol) BY FormFacts
<1>2. PICK k \in Nat : k = Len(f.names) /\ DOMAIN f.names = 1..k BY <1>1, LenProperties
<1>3. \A i \in 1..k : f.names[i] \in Symbol BY <1>1, <1>2, ElementOfSeq
<1>4. ToSet(f.names) = {f.names[i] : i \in 1..k} BY <1>2 DEF ToSet
<1>5. (k + 1) - 1 = k BY <1>2
<1>6. BoundUpTo(f, k + 1) = {f.names[i] : i \in 1..k} BY <1>5 DEF BoundUpTo
<1>7. QED BY <1>2, <1>3, <1>4, <1>6

(* What the init forms bind.                                                *)
LEMMA InitsBind ==
  ASSUME NEW f \in Form, f.is \in {"let*", "loop*"}, NEW pos \in Position,
         NEW i \in 1..(Len(f.names) + 1)
  PROVE  BoundBefore(InitForms(f, pos), i) = BoundUpTo(f, i) /\ BoundUpTo(f, i) \in SUBSET Symbol
<1>1. PICK s : s = InitForms(f, pos) OBVIOUS
<1>2. \A j \in 1..Len(f.names) : s[j].binds = {f.names[j]} BY <1>1, InitFormsList
<1>3. PICK k \in Nat : k = Len(f.names) BY NamesAreSymbols
<1>4. \A j \in 1..(i - 1) : j \in 1..k BY <1>3
<1>5. BoundBefore(s, i) = BoundUpTo(f, i) BY <1>2, <1>3, <1>4 DEF BoundBefore, BoundUpTo
<1>6. BoundUpTo(f, i) \in SUBSET Symbol BY <1>3, <1>4, NamesAreSymbols DEF BoundUpTo
<1>7. QED BY <1>1, <1>5, <1>6

(* Where an init form is analyzed, and what is after the last.              *)
LEMMA InFromEntered ==
  ASSUME NEW f \in Form, f.is \in {"let*", "loop*"}, NEW pos \in Position, NEW c \in Context,
         NEW i \in 1..(Len(f.names) + 1),
         NEW d, InFrom(NewSymbolTable(c, {}), InitForms(f, pos), i, d)
  PROVE  Entered(c, BoundUpTo(f, i), d)
<1>1. PICK c1 : c1 = NewSymbolTable(c, {}) OBVIOUS
<1>2. {} \in SUBSET Symbol OBVIOUS
<1>3. c1.frames = Append(c.frames, {}) /\ c1.points = c.points /\ c1.functions = c.functions
  BY <1>1, <1>2, PushSymbols
<1>4. PICK xs \in SUBSET Symbol : xs = BoundUpTo(f, i) BY InitsBind
<1>5. BoundBefore(InitForms(f, pos), i) = xs BY <1>4, InitsBind
<1>6. d \in Context /\ d.frames = AddToLast(c1.frames, xs) /\ d.points = c1.points
        /\ Flagged(c1.functions, d.functions)
  BY <1>1, <1>5 DEF InFrom
<1>7. c.frames \in Seq(SUBSET Symbol) BY ContextFacts
<1>8. AddToLast(Append(c.frames, {}), xs) = Append(c.frames, {} \cup xs)
  BY <1>2, <1>7, AddToAppended
<1>9. {} \cup xs = xs OBVIOUS
<1>10. d.frames = Append(c.frames, xs) BY <1>3, <1>6, <1>8, <1>9
<1>11. QED BY <1>3, <1>4, <1>6, <1>10 DEF Entered

(* Analyzing the init forms of a let* or loop* whose parts are good.        *)
LEMMA InitsResult ==
  ASSUME NEW f \in Form, f.is \in {"let*", "loop*"}, NEW pos \in Position, NEW c \in Context,
         \A i \in 1..Len(f.args) : Good(f.args[i]),
         NEW a, a = AnalyzeAll(Analyze, InitForms(f, pos), NewSymbolTable(c, {}))
  PROVE  /\ AllUpto(NewSymbolTable(c, {}), InitForms(f, pos), Len(f.names), a)
         /\ a.ok \in BOOLEAN /\ a.ctx \in Context
         /\ a.ok => /\ Entered(c, ToSet(f.names), a.ctx)
                    /\ a.nodes \in Seq(NodeSet) /\ Len(a.nodes) = Len(f.names)
                    /\ \A i \in 1..Len(f.names) : IsNode(a.nodes[i])
<1>1. PICK s : s = InitForms(f, pos) OBVIOUS
<1>2. s \in Seq(Item) /\ Len(s) = Len(f.names)
        /\ \A i \in 1..Len(f.names) : s[i].form = f.args[i]
  BY <1>1, InitFormsList
<1>3. PICK k \in Nat : k = Len(f.names) BY NamesAreSymbols
<1>4. f.args \in Seq(Form) /\ k <= Len(f.args) BY <1>3, FormFacts DEF HasShape
<1>5. \A i \in 1..k : Good(s[i].form) BY <1>2, <1>3, <1>4, LenProperties
<1>6. PICK c1 : c1 = NewSymbolTable(c, {}) OBVIOUS
<1>7. {} \in SUBSET Symbol OBVIOUS
<1>8. c1 \in Context /\ c1.frames = Append(c.frames, {}) BY <1>6, <1>7, PushSymbols
<1>9. Len(c1.frames) > 1
  <2>1. Len(c.frames) \in Nat \ {0} /\ c.frames \in Seq(SUBSET Symbol) BY ContextFacts
  <2>2. Len(Append(c.frames, {})) = Len(c.frames) + 1 BY <1>7, <2>1, AppendProperties
  <2>3. QED BY <1>8, <2>1, <2>2
<1>10. AllUpto(c1, s, k, a) BY <1>1, <1>2, <1>3, <1>5, <1>6, <1>8, <1>9, AllResult
<1>11. a.ok \in BOOLEAN /\ a.ctx \in Context BY <1>10 DEF AllUpto
<1>12. ASSUME a.ok
       PROVE  /\ Entered(c, ToSet(f.names), a.ctx)
              /\ a.nodes \in Seq(NodeSet) /\ Len(a.nodes) = k
              /\ \A i \in 1..k : IsNode(a.nodes[i])
  <2>1. InFrom(c1, s, k + 1, a.ctx) /\ a.nodes \in Seq(NodeSet) /\ Len(a.nodes) = k
          /\ \A i \in 1..k : Made(c1, s, i, a.nodes[i])
    BY <1>10, <1>12 DEF AllUpto
  <2>2. k + 1 \in 1..(k + 1) BY <1>3
  <2>3. Entered(c, BoundUpTo(f, k + 1), a.ctx) BY <1>1, <1>3, <1>6, <2>1, <2>2, InFromEntered
  <2>4. BoundUpTo(f, k + 1) = ToSet(f.names) BY <1>3, NamesAreSymbols
  <2>5. ASSUME NEW i \in 1..k PROVE IsNode(a.nodes[i])
    BY <1>2, <1>3, <1>5, <1>8, <2>1, MadeIsNode
  <2>6. QED BY <2>1, <2>3, <2>4, <2>5
<1>13. QED BY <1>1, <1>3, <1>6, <1>10, <1>11, <1>12

(* A let* whose parts are good is good.                                     *)
LEMMA LetGood ==
  ASSUME NEW f \in Form, f.is = "let*", NEW pos \in Position, NEW c \in Context,
         \A i \in 1..Len(f.args) : Good(f.args[i]),
         \A i \in 1..Len(BodyOf(f)) : Good(BodyOf(f)[i])
  PROVE  IsResult(c, LetAst(Analyze, f, pos, c))
<1>1. PICK i : i = AnalyzeAll(Analyze, InitForms(f, pos), NewSymbolTable(c, {})) OBVIOUS
<1>2. PICK b : b = AnalyzeBody(Analyze, BodyOf(f), pos, i.ctx) OBVIOUS
<1>3. /\ i.ok \in BOOLEAN /\ i.ctx \in Context
      /\ i.ok => /\ Entered(c, ToSet(f.names), i.ctx)
                 /\ i.nodes \in Seq(NodeSet) /\ Len(i.nodes) = Len(f.names)
                 /\ \A j \in 1..Len(f.names) : IsNode(i.nodes[j])
  BY <1>1, InitsResult
<1>4. BodyOf(f) \in Seq(Form) BY BodyOfFacts
<1>5. IsResult(i.ctx, b) BY <1>2, <1>3, <1>4, BodyResult
<1>6. CASE ~i.ok
  <2>1. LetAst(Analyze, f, pos, c) = i BY <1>1, <1>6 DEF LetAst
  <2>2. IsResult(c, i) BY <1>3, <1>6 DEF IsResult
  <2>3. QED BY <2>1, <2>2
<1>7. CASE i.ok /\ ~b.ok
  <2>1. LetAst(Analyze, f, pos, c) = b BY <1>1, <1>2, <1>7 DEF LetAst
  <2>2. IsResult(c, b) BY <1>5, <1>7 DEF IsResult
  <2>3. QED BY <2>1, <2>2
<1>8. CASE i.ok /\ b.ok
  <2>1. PICK d : d = PopSymbolTable(b.ctx) OBVIOUS
  <2>2. PICK n : n = Node("let*", pos, i.nodes \o b.nodes, [names |-> f.names]) OBVIOUS
  <2>3. LetAst(Analyze, f, pos, c) = Returns(d, <<n>>) BY <1>1, <1>2, <1>8, <2>1, <2>2 DEF LetAst
  <2>4. b.ctx \in Context /\ Undone(i.ctx, b.ctx) /\ b.nodes = <<b.nodes[1]>> /\ IsNode(b.nodes[1])
    BY <1>5, <1>8 DEF IsResult
  <2>5. ToSet(f.names) \in SUBSET Symbol BY NamesAreSymbols
  <2>6. Entered(c, ToSet(f.names), b.ctx) BY <1>3, <1>8, <2>4, <2>5, EnteredStays
  <2>7. d \in Context /\ Undone(c, d) BY <2>1, <2>5, <2>6, LeaveSymbols
  <2>8. IsNode(n)
    <3>1. PICK x : x = b.nodes[1] OBVIOUS
    <3>2. i.nodes \in Seq(NodeSet) /\ \A j \in 1..Len(i.nodes) : IsNode(i.nodes[j]) BY <1>3, <1>8
    <3>3. IsNode(Node("let*", pos, i.nodes \o <<x>>, [names |-> f.names]))
      BY <2>4, <3>1, <3>2, JoinedIsNode
    <3>4. QED BY <2>2, <2>4, <3>1, <3>3
  <2>9. IsResult(c, Returns(d, <<n>>)) BY <2>7, <2>8, ReturnsResult
  <2>10. QED BY <2>3, <2>9
<1>9. QED BY <1>3, <1>5, <1>6, <1>7, <1>8 DEF IsResult

(* Leaving what was just entered.                                           *)
LEMMA PopPushedSymbols ==
  ASSUME NEW c \in Context, NEW xs \in SUBSET Symbol
  PROVE  PopSymbolTable(NewSymbolTable(c, xs)) = c
<1>1. PICK d : d = NewSymbolTable(c, xs) OBVIOUS
<1>2. d \in Context /\ d.frames = Append(c.frames, xs) /\ d.points = c.points
        /\ d.functions = c.functions
  BY <1>1, PushSymbols
<1>3. c.frames \in Seq(SUBSET Symbol) /\ c.frames # <<>> /\ c.frames[1] = {} BY ContextFacts
<1>4. PopSymbolTable(d) \in Context /\ PopSymbolTable(d).frames = c.frames
        /\ PopSymbolTable(d).points = d.points /\ PopSymbolTable(d).functions = d.functions
  BY <1>2, <1>3, PopSymbols
<1>5. PopSymbolTable(d) = c BY <1>2, <1>4, ContextSame
<1>6. QED BY <1>1, <1>5

(* Popping a recursion point that was just pushed.                          *)
LEMMA PopPushedPoint ==
  ASSUME NEW c \in Context, NEW n \in Nat
  PROVE  PopRecurPoint(NewRecurPoint(c, n)) = c
<1>1. PICK d : d = NewRecurPoint(c, n) OBVIOUS
<1>2. d \in Context /\ d.points = Append(c.points, n) /\ d.frames = c.frames
        /\ d.functions = c.functions
  BY <1>1, PushPoint
<1>3. c.points \in Seq(Nat) BY ContextFacts
<1>4. PopRecurPoint(d) \in Context /\ PopRecurPoint(d).points = c.points
        /\ PopRecurPoint(d).frames = d.frames /\ PopRecurPoint(d).functions = d.functions
  BY <1>2, <1>3, PopPoint
<1>5. PopRecurPoint(d) = c BY <1>2, <1>4, ContextSame
<1>6. QED BY <1>1, <1>5

(* Popping a function is back in the context in which it was pushed, marked  *)
(* as a generator or not.                                                   *)
LEMMA LeaveFunc ==
  ASSUME NEW c \in Context, NEW e \in Context, Undone(NewFuncCtx(c), e)
  PROVE  PopFuncCtx(e) = c
<1>1. PICK d : d = NewFuncCtx(c) OBVIOUS
<1>2. PICK fs : fs = d.functions OBVIOUS
<1>3. d \in Context /\ d.points = c.points /\ d.frames = c.frames BY <1>1, PushFunc
<1>4. fs = Append(c.functions, FALSE) BY <1>1, <1>2, PushFunc, Zenon
<1>5. e.frames = d.frames /\ e.points = d.points /\ Flagged(fs, e.functions)
  BY <1>1, <1>2 DEF Undone
<1>6. c.functions \in Seq(BOOLEAN) BY ContextFacts
<1>7. FALSE \in BOOLEAN OBVIOUS
<1>8. Flagged(Append(c.functions, FALSE), e.functions) BY <1>4, <1>5, Zenon
<1>9. PICK q : q = PopFuncCtx(e) OBVIOUS
<1>10. q \in Context /\ q.frames = e.frames /\ q.points = e.points /\ q.functions = c.functions
  BY <1>6, <1>7, <1>8, <1>9, PopFunc
<1>11. q = c BY <1>3, <1>5, <1>10, ContextSame
<1>12. QED BY <1>9, <1>11

(* Popping the recursion point of a loop leaves its frame.                  *)
LEMMA LeavePoint ==
  ASSUME NEW c \in Context, NEW xs \in SUBSET Symbol, NEW d, Entered(c, xs, d),
         NEW n \in Nat, NEW e \in Context, Undone(NewRecurPoint(d, n), e)
  PROVE  Entered(c, xs, PopRecurPoint(e))
<1>1. d \in Context /\ d.frames = Append(c.frames, xs) /\ d.points = c.points
        /\ Flagged(c.functions, d.functions)
  BY DEF Entered
<1>2. PICK q : q = NewRecurPoint(d, n) OBVIOUS
<1>3. q \in Context /\ q.frames = d.frames /\ q.points = Append(d.points, n)
        /\ q.functions = d.functions
  BY <1>1, <1>2, PushPoint
<1>4. e.frames = q.frames /\ e.points = q.points /\ Flagged(q.functions, e.functions)
  BY <1>2 DEF Undone
<1>5. d.points \in Seq(Nat) BY <1>1, ContextFacts
<1>6. e.points = Append(d.points, n) BY <1>3, <1>4
<1>7. PICK w : w = PopRecurPoint(e) OBVIOUS
<1>8. w \in Context /\ w.frames = e.frames /\ w.points = d.points /\ w.functions = e.functions
  BY <1>5, <1>6, <1>7, PopPoint
<1>9. c.functions \in Seq(BOOLEAN) /\ d.functions \in Seq(BOOLEAN) /\ e.functions \in Seq(BOOLEAN)
  BY <1>1, ContextFacts
<1>10. Flagged(c.functions, e.functions) BY <1>1, <1>3, <1>4, <1>9, FlaggedTwice
<1>11. Entered(c, xs, w) BY <1>1, <1>3, <1>4, <1>8, <1>10 DEF Entered
<1>12. QED BY <1>7, <1>11

(* A loop* whose parts are good is good.                                    *)
LEMMA LoopGood ==
  ASSUME NEW f \in Form, f.is = "loop*", NEW pos \in Position, NEW c \in Context,
         \A i \in 1..Len(f.args) : Good(f.args[i]),
         \A i \in 1..Len(BodyOf(f)) : Good(BodyOf(f)[i])
  PROVE  IsResult(c, LoopAst(Analyze, f, pos, c))
<1>1. PICK i : i = AnalyzeAll(Analyze, InitForms(f, pos), NewSymbolTable(c, {})) OBVIOUS
<1>2. PICK q : q = NewRecurPoint(i.ctx, Len(f.names)) OBVIOUS
<1>3. PICK b : b = AnalyzeBody(Analyze, BodyOf(f), pos, q) OBVIOUS
<1>4. /\ i.ok \in BOOLEAN /\ i.ctx \in Context
      /\ i.ok => /\ Entered(c, ToSet(f.names), i.ctx)
                 /\ i.nodes \in Seq(NodeSet) /\ Len(i.nodes) = Len(f.names)
                 /\ \A j \in 1..Len(f.names) : IsNode(i.nodes[j])
  BY <1>1, InitsResult
<1>5. Len(f.names) \in Nat /\ ToSet(f.names) \in SUBSET Symbol BY NamesAreSymbols
<1>6. q \in Context BY <1>2, <1>4, <1>5, PushPoint
<1>7. BodyOf(f) \in Seq(Form) BY BodyOfFacts
<1>8. IsResult(q, b) BY <1>3, <1>6, <1>7, BodyResult
<1>9. CASE ~i.ok
  <2>1. LoopAst(Analyze, f, pos, c) = i BY <1>1, <1>9 DEF LoopAst
  <2>2. IsResult(c, i) BY <1>4, <1>9 DEF IsResult
  <2>3. QED BY <2>1, <2>2
<1>10. CASE i.ok /\ ~b.ok
  <2>1. LoopAst(Analyze, f, pos, c) = b BY <1>1, <1>2, <1>3, <1>10 DEF LoopAst
  <2>2. IsResult(c, b) BY <1>8, <1>10 DEF IsResult
  <2>3. QED BY <2>1, <2>2
<1>11. CASE i.ok /\ b.ok
  <2>1. b.ctx \in Context /\ Undone(q, b.ctx) /\ b.nodes = <<b.nodes[1]>> /\ IsNode(b.nodes[1])
    BY <1>8, <1>11 DEF IsResult
  <2>2. CASE ~b.nodes[1].tail
    <3>1. LoopAst(Analyze, f, pos, c) = Raises(b.ctx) BY <1>1, <1>2, <1>3, <1>11, <2>2 DEF LoopAst
    <3>2. IsResult(c, Raises(b.ctx)) BY <2>1, RaisesResult
    <3>3. QED BY <3>1, <3>2
  <2>3. CASE b.nodes[1].tail
    <3>1. PICK w : w = PopRecurPoint(b.ctx) OBVIOUS
    <3>2. PICK d : d = PopSymbolTable(w) OBVIOUS
    <3>3. PICK n : n = Node("loop*", pos, i.nodes \o b.nodes, [names |-> f.names]) OBVIOUS
    <3>4. LoopAst(Analyze, f, pos, c) = Returns(d, <<n>>)
      BY <1>1, <1>2, <1>3, <1>11, <2>3, <3>1, <3>2, <3>3 DEF LoopAst
    <3>5. Entered(c, ToSet(f.names), i.ctx) BY <1>4, <1>11
    <3>6. Undone(NewRecurPoint(i.ctx, Len(f.names)), b.ctx) BY <1>2, <2>1
    <3>7. Entered(c, ToSet(f.names), w) BY <1>5, <2>1, <3>1, <3>5, <3>6, LeavePoint
    <3>8. d \in Context /\ Undone(c, d) BY <1>5, <3>2, <3>7, LeaveSymbols
    <3>9. IsNode(n)
      <4>1. PICK x : x = b.nodes[1] OBVIOUS
      <4>2. i.nodes \in Seq(NodeSet) /\ \A j \in 1..Len(i.nodes) : IsNode(i.nodes[j]) BY <1>4, <1>11
      <4>3. IsNode(Node("loop*", pos, i.nodes \o <<x>>, [names |-> f.names]))
        BY <2>1, <4>1, <4>2, JoinedIsNode
      <4>4. QED BY <2>1, <3>3, <4>1, <4>3
    <3>10. IsResult(c, Returns(d, <<n>>)) BY <3>8, <3>9, ReturnsResult
    <3>11. QED BY <3>4, <3>10
  <2>4. QED BY <2>2, <2>3
<1>12. QED BY <1>4, <1>8, <1>9, <1>10, <1>11 DEF IsResult

(* The contexts of a function.                                              *)
FnFrame(c)      == NewSymbolTable(c, {})
FnFrames(f, c)  == NewSymbolTable(FnFrame(c), ToSet(f.names))
FnPoint(f, c)   == NewRecurPoint(FnFrames(f, c), Len(f.names))
FnCtx(f, c)     == NewFuncCtx(FnPoint(f, c))
FnBody(f, c)    == AnalyzeBody(Analyze, f.body, "expression", FnCtx(f, c))
ArgsOf(f, c)    == AnalyzeAll(Analyze, Expressions(f.args), c)

FnNode(f, pos, c) ==
  Node("fn*", pos, ArgsOf(f, c).nodes \o FnBody(f, c).nodes,
       [names |-> f.names, generator |-> Last(FnBody(f, c).ctx.functions)])

(* The contexts of a function are contexts, and its body leaves the last of *)
(* them for the one of the form.                                            *)
LEMMA FnContexts ==
  ASSUME NEW f \in Form, f.is = "fn*", NEW c \in Context
  PROVE  /\ FnFrame(c) \in Context /\ FnFrames(f, c) \in Context
         /\ FnPoint(f, c) \in Context /\ FnCtx(f, c) \in Context
         /\ \A e \in Context : Undone(FnCtx(f, c), e) =>
              /\ PopFuncCtx(e) = FnPoint(f, c)
              /\ PopSymbolTable(PopSymbolTable(PopRecurPoint(PopFuncCtx(e)))) = c
<1>1. Len(f.names) \in Nat /\ ToSet(f.names) \in SUBSET Symbol /\ {} \in SUBSET Symbol
  BY NamesAreSymbols
<1>2. FnFrame(c) \in Context /\ PopSymbolTable(FnFrame(c)) = c
  BY <1>1, PushSymbols, PopPushedSymbols DEF FnFrame
<1>3. FnFrames(f, c) \in Context /\ PopSymbolTable(FnFrames(f, c)) = FnFrame(c)
  BY <1>1, <1>2, PushSymbols, PopPushedSymbols DEF FnFrames
<1>4. FnPoint(f, c) \in Context /\ PopRecurPoint(FnPoint(f, c)) = FnFrames(f, c)
  BY <1>1, <1>3, PushPoint, PopPushedPoint DEF FnPoint
<1>5. FnCtx(f, c) \in Context BY <1>4, PushFunc DEF FnCtx
<1>6. ASSUME NEW e \in Context, Undone(FnCtx(f, c), e)
      PROVE  PopFuncCtx(e) = FnPoint(f, c)
  <2>1. Undone(NewFuncCtx(FnPoint(f, c)), e) BY <1>6 DEF FnCtx
  <2>2. QED BY <1>4, <2>1, LeaveFunc
<1>7. QED BY <1>2, <1>3, <1>4, <1>5, <1>6

(* Where the body of a function is accepted, its arguments are analyzed in   *)
(* the context of the form.                                                 *)
LEMMA FnAstIs ==
  ASSUME NEW f \in Form, f.is = "fn*", NEW pos \in Position, NEW c \in Context,
         IsResult(FnCtx(f, c), FnBody(f, c))
  PROVE  /\ ~FnBody(f, c).ok => FnAst(Analyze, f, pos, c) = FnBody(f, c)
         /\ FnBody(f, c).ok /\ ~FnBody(f, c).nodes[1].tail =>
              FnAst(Analyze, f, pos, c) = Raises(FnPoint(f, c))
         /\ FnBody(f, c).ok /\ FnBody(f, c).nodes[1].tail =>
              FnAst(Analyze, f, pos, c) = Makes(ArgsOf(f, c), FnNode(f, pos, c))
<1>1. PICK y : y = FnBody(f, c) OBVIOUS
<1>2. y = AnalyzeBody(Analyze, f.body, "expression",
                      NewFuncCtx(NewRecurPoint(NewSymbolTable(NewSymbolTable(c, {}), ToSet(f.names)), Len(f.names))))
  BY <1>1 DEF FnBody, FnCtx, FnPoint, FnFrames, FnFrame
<1>3. PICK w : w = PopFuncCtx(y.ctx) OBVIOUS
<1>4. PICK v : v = PopSymbolTable(PopSymbolTable(PopRecurPoint(w))) OBVIOUS
<1>5. y.ok => w = FnPoint(f, c) /\ v = c
  <2>1. ASSUME y.ok PROVE y.ctx \in Context /\ Undone(FnCtx(f, c), y.ctx)
    BY <1>1, <2>1 DEF IsResult
  <2>2. QED BY <1>3, <1>4, <2>1, FnContexts
<1>6. PICK z : z = AnalyzeAll(Analyze, Expressions(f.args), v) OBVIOUS
<1>7. PICK n : n = Node("fn*", pos, z.nodes \o y.nodes,
                        [names |-> f.names, generator |-> Last(y.ctx.functions)]) OBVIOUS
<1>8. FnAst(Analyze, f, pos, c) = IF ~y.ok THEN y
                                  ELSE IF ~y.nodes[1].tail THEN Raises(w) ELSE Makes(z, n)
  BY <1>2, <1>3, <1>4, <1>6, <1>7, Zenon DEF FnAst
<1>9. y.ok => z = ArgsOf(f, c) /\ n = FnNode(f, pos, c)
  BY <1>1, <1>5, <1>6, <1>7 DEF ArgsOf, FnNode
<1>10. QED BY <1>1, <1>5, <1>8, <1>9

(* The arguments of a form whose parts are good.                            *)
LEMMA ArgsResult ==
  ASSUME NEW f \in Form, NEW c \in Context, \A i \in 1..Len(f.args) : Good(f.args[i])
  PROVE  /\ ArgsOf(f, c).ok \in BOOLEAN /\ ArgsOf(f, c).ctx \in Context
         /\ ArgsOf(f, c).ok =>
              /\ Undone(c, ArgsOf(f, c).ctx)
              /\ ArgsOf(f, c).nodes \in Seq(NodeSet) /\ Len(ArgsOf(f, c).nodes) = Len(f.args)
              /\ DOMAIN ArgsOf(f, c).nodes = 1..Len(f.args)
              /\ \A i \in 1..Len(f.args) : IsNode(ArgsOf(f, c).nodes[i])
<1>1. PICK s : s = Expressions(f.args) OBVIOUS
<1>2. f.args \in Seq(Form) BY FormFacts
<1>3. s \in Seq(Item) /\ Len(s) = Len(f.args)
        /\ \A i \in 1..Len(f.args) : s[i].form = f.args[i]
  BY <1>1, <1>2, ExpressionsList
<1>4. \A i \in 1..Len(s) : Good(s[i].form) BY <1>3
<1>5. Plain(s) BY <1>1, <1>2, ExpressionsPlain
<1>6. PICK a : a = AnalyzeAll(Analyze, s, c) OBVIOUS
<1>7. /\ a.ok \in BOOLEAN /\ a.ctx \in Context
      /\ a.ok => /\ Undone(c, a.ctx)
                 /\ a.nodes \in Seq(NodeSet) /\ Len(a.nodes) = Len(s)
                 /\ DOMAIN a.nodes = 1..Len(s)
                 /\ \A i \in 1..Len(s) : IsNode(a.nodes[i])
  BY <1>3, <1>4, <1>5, <1>6, PlainResult
<1>8. a = ArgsOf(f, c) BY <1>1, <1>6 DEF ArgsOf
<1>9. QED BY <1>3, <1>7, <1>8

(* A function whose parts are good is good.                                 *)
LEMMA FnGood ==
  ASSUME NEW f \in Form, f.is = "fn*", NEW pos \in Position, NEW c \in Context,
         \A i \in 1..Len(f.args) : Good(f.args[i]),
         \A i \in 1..Len(f.body) : Good(f.body[i])
  PROVE  /\ IsResult(FnCtx(f, c), FnBody(f, c))
         /\ IsResult(c, FnAst(Analyze, f, pos, c))
<1>1. f.body \in Seq(Form) /\ "expression" \in Position BY FormFacts DEF Position
<1>2. FnCtx(f, c) \in Context /\ FnPoint(f, c) \in Context BY FnContexts
<1>3. IsResult(FnCtx(f, c), FnBody(f, c)) BY <1>1, <1>2, BodyResult DEF FnBody
<1>4. PICK y : y = FnBody(f, c) OBVIOUS
<1>5. PICK a : a = ArgsOf(f, c) OBVIOUS
<1>6. /\ a.ok \in BOOLEAN /\ a.ctx \in Context
      /\ a.ok => /\ Undone(c, a.ctx)
                 /\ a.nodes \in Seq(NodeSet) /\ Len(a.nodes) = Len(f.args)
                 /\ \A i \in 1..Len(f.args) : IsNode(a.nodes[i])
  BY <1>5, ArgsResult
<1>7. y.ok \in BOOLEAN BY <1>3, <1>4 DEF IsResult
<1>8. CASE ~y.ok
  <2>1. FnAst(Analyze, f, pos, c) = y BY <1>3, <1>4, <1>8, FnAstIs
  <2>2. IsResult(c, y) BY <1>3, <1>4, <1>8 DEF IsResult
  <2>3. QED BY <1>3, <2>1, <2>2
<1>9. CASE y.ok /\ ~y.nodes[1].tail
  <2>1. FnAst(Analyze, f, pos, c) = Raises(FnPoint(f, c)) BY <1>3, <1>4, <1>9, FnAstIs
  <2>2. IsResult(c, Raises(FnPoint(f, c))) BY <1>2, RaisesResult
  <2>3. QED BY <1>3, <2>1, <2>2
<1>10. CASE y.ok /\ y.nodes[1].tail
  <2>1. PICK n : n = FnNode(f, pos, c) OBVIOUS
  <2>2. FnAst(Analyze, f, pos, c) = Makes(a, n) BY <1>3, <1>4, <1>5, <1>10, <2>1, FnAstIs
  <2>3. ASSUME a.ok PROVE IsNode(n)
    <3>1. PICK x : x = y.nodes[1] OBVIOUS
    <3>2. y.nodes = <<x>> /\ IsNode(x) BY <1>3, <1>4, <1>10, <3>1 DEF IsResult
    <3>3. a.nodes \in Seq(NodeSet) /\ \A i \in 1..Len(a.nodes) : IsNode(a.nodes[i]) BY <1>6, <2>3
    <3>4. PICK info : info = [names |-> f.names, generator |-> Last(y.ctx.functions)] OBVIOUS
    <3>5. IsNode(Node("fn*", pos, a.nodes \o <<x>>, info)) BY <3>2, <3>3, JoinedIsNode
    <3>6. n = Node("fn*", pos, a.nodes \o y.nodes, info) BY <1>4, <1>5, <2>1, <3>4 DEF FnNode
    <3>7. QED BY <3>2, <3>5, <3>6
  <2>4. a.ok => Undone(c, a.ctx) /\ IsNode(n) BY <1>6, <2>3
  <2>5. IsResult(c, Makes(a, n)) BY <1>6, <2>4, MakesResult
  <2>6. QED BY <1>3, <2>2, <2>5
<1>11. QED BY <1>7, <1>8, <1>9, <1>10

(* The result of an optional part of a form: no nodes or one.               *)
IsOptional(c, fs, r) ==
  /\ r.ok \in BOOLEAN
  /\ r.ctx \in Context
  /\ r.ok => /\ Undone(c, r.ctx)
             /\ fs = <<>> => r.nodes = <<>>
             /\ fs # <<>> => r.nodes = <<r.nodes[1]>> /\ IsNode(r.nodes[1])

CatchCtx(c)      == NewSymbolTable(c, {"e"})
CatchOf(f, q, c) == CatchAst(Analyze, f.catches, q, c)
FinallyOf(f, c)  ==
  IF f.finally = <<>> THEN Returns(c, <<>>) ELSE AnalyzeBody(Analyze, f.finally, "statement", c)

(* No catch, and no finally.                                                *)
LEMMA NothingOptional ==
  ASSUME NEW c \in Context
  PROVE  IsOptional(c, <<>>, Returns(c, <<>>))
<1>1. Undone(c, c) BY UndoneSelf
<1>2. QED BY <1>1 DEF Returns, IsOptional

(* The frame of a catch.                                                    *)
LEMMA CatchCtxFacts ==
  ASSUME NEW c \in Context
  PROVE  CatchCtx(c) \in Context /\ Entered(c, {"e"}, CatchCtx(c)) /\ {"e"} \in SUBSET Symbol
<1>1. {"e"} \in SUBSET Symbol BY LispAssumption
<1>2. QED BY <1>1, PushSymbols, PushEnters DEF CatchCtx

(* What a catch is, where there is one.                                     *)
LEMMA CatchIs ==
  ASSUME NEW f \in Form, f.is = "try", f.catches # <<>>, NEW pos \in Position, NEW c \in Context,
         NEW r, r = Analyze[f.catches[1]][pos][CatchCtx(c)]
  PROVE  /\ f.catches[1] \in Parts(f) /\ f.catches[1] \in Form /\ 1 \in 1..Len(f.catches)
         /\ CatchOf(f, pos, c) = IF r.ok THEN Returns(PopSymbolTable(r.ctx), r.nodes) ELSE r
<1>1. f.catches \in Seq(Form) BY FormFacts
<1>2. 1 \in 1..Len(f.catches) BY <1>1, EmptySeq, LenProperties
<1>3. f.catches[1] \in Parts(f) /\ f.catches[1] \in Form BY <1>2, OtherParts, FormFacts
<1>4. CatchOf(f, pos, c) = IF r.ok THEN Returns(PopSymbolTable(r.ctx), r.nodes) ELSE r
  BY DEF CatchOf, CatchAst, CatchCtx
<1>5. QED BY <1>2, <1>3, <1>4

(* Analyzing an optional catch.                                             *)
LEMMA CatchResult ==
  ASSUME NEW f \in Form, f.is = "try", NEW pos \in Position, NEW c \in Context,
         \A i \in 1..Len(f.catches) : Good(f.catches[i])
  PROVE  IsOptional(c, f.catches, CatchOf(f, pos, c))
<1>1. CASE f.catches = <<>>
  <2>1. CatchOf(f, pos, c) = Returns(c, <<>>) BY <1>1 DEF CatchOf, CatchAst
  <2>2. QED BY <1>1, <2>1, NothingOptional
<1>2. CASE f.catches # <<>>
  <2>1. PICK r : r = Analyze[f.catches[1]][pos][CatchCtx(c)] OBVIOUS
  <2>2. 1 \in 1..Len(f.catches)
          /\ CatchOf(f, pos, c) = IF r.ok THEN Returns(PopSymbolTable(r.ctx), r.nodes) ELSE r
    BY <1>2, <2>1, CatchIs
  <2>3. CatchCtx(c) \in Context /\ Entered(c, {"e"}, CatchCtx(c)) /\ {"e"} \in SUBSET Symbol
    BY CatchCtxFacts
  <2>4. Good(f.catches[1]) BY <2>2
  <2>5. IsResult(CatchCtx(c), r) BY <2>1, <2>3, <2>4 DEF Good
  <2>6. CASE ~r.ok
    <3>1. CatchOf(f, pos, c) = r BY <2>2, <2>6
    <3>2. IsOptional(c, f.catches, r) BY <2>5, <2>6 DEF IsResult, IsOptional
    <3>3. QED BY <3>1, <3>2
  <2>7. CASE r.ok
    <3>1. r.ctx \in Context /\ Undone(CatchCtx(c), r.ctx) /\ r.nodes = <<r.nodes[1]>>
            /\ IsNode(r.nodes[1])
      BY <2>5, <2>7 DEF IsResult
    <3>2. Entered(c, {"e"}, r.ctx) BY <2>3, <3>1, EnteredStays
    <3>3. PICK d : d = PopSymbolTable(r.ctx) OBVIOUS
    <3>4. d \in Context /\ Undone(c, d) BY <2>3, <3>2, <3>3, LeaveSymbols
    <3>5. CatchOf(f, pos, c) = Returns(d, r.nodes) BY <2>2, <2>7, <3>3
    <3>6. IsOptional(c, f.catches, Returns(d, r.nodes)) BY <1>2, <3>1, <3>4 DEF IsOptional, Returns
    <3>7. QED BY <3>5, <3>6
  <2>8. QED BY <2>5, <2>6, <2>7 DEF IsResult
<1>3. QED BY <1>1, <1>2

(* Analyzing an optional finally.                                           *)
LEMMA FinallyResult ==
  ASSUME NEW f \in Form, f.is = "try", NEW c \in Context,
         \A i \in 1..Len(f.finally) : Good(f.finally[i])
  PROVE  IsOptional(c, f.finally, FinallyOf(f, c))
<1>1. CASE f.finally = <<>>
  <2>1. FinallyOf(f, c) = Returns(c, <<>>) BY <1>1 DEF FinallyOf
  <2>2. QED BY <1>1, <2>1, NothingOptional
<1>2. CASE f.finally # <<>>
  <2>1. PICK r : r = AnalyzeBody(Analyze, f.finally, "statement", c) OBVIOUS
  <2>2. f.finally \in Seq(Form) /\ "statement" \in Position BY FormFacts DEF Position
  <2>3. IsResult(c, r) BY <2>1, <2>2, BodyResult
  <2>4. FinallyOf(f, c) = r BY <1>2, <2>1 DEF FinallyOf
  <2>5. IsOptional(c, f.finally, r) BY <1>2, <2>3 DEF IsResult, IsOptional
  <2>6. QED BY <2>4, <2>5
<1>3. QED BY <1>1, <1>2

(* No nodes or one.                                                         *)
LEMMA OptionalNodes ==
  ASSUME NEW c, NEW fs, NEW r, IsOptional(c, fs, r), r.ok
  PROVE  /\ r.nodes \in Seq({r.nodes[1]})
         /\ Len(r.nodes) = (IF fs = <<>> THEN 0 ELSE 1)
         /\ \A i \in 1..Len(r.nodes) : i = 1 /\ fs # <<>> /\ IsNode(r.nodes[i])
<1>1. PICK x : x = r.nodes[1] OBVIOUS
<1>2. CASE fs = <<>>
  <2>1. r.nodes = <<>> BY <1>2 DEF IsOptional
  <2>2. QED BY <1>2, <2>1, EmptySeq
<1>3. CASE fs # <<>>
  <2>1. r.nodes = <<x>> /\ IsNode(x) BY <1>1, <1>3 DEF IsOptional
  <2>2. PICK u : u = <<x>> OBVIOUS
  <2>3. u \in Seq({x}) /\ Len(u) = 1 /\ u[1] = x BY <2>2
  <2>4. QED BY <1>1, <1>3, <2>1, <2>2, <2>3
<1>4. QED BY <1>2, <1>3

(* The nodes of a try.                                                      *)
LEMMA ThreeJoined ==
  ASSUME NEW x, NEW S, NEW v \in Seq(S), NEW T, NEW w \in Seq(T), NEW t, t = <<x>> \o v \o w
  PROVE  /\ DOMAIN t = 1..(1 + Len(v) + Len(w)) /\ t[1] = x
         /\ \A i \in 1..Len(v) : t[1 + i] = v[i]
         /\ \A i \in 1..Len(w) : t[1 + Len(v) + i] = w[i]
         /\ DOMAIN Tail(t) = 1..(Len(v) + Len(w))
         /\ \A i \in 1..(Len(v) + Len(w)) : Tail(t)[i] = t[i + 1]
<1>1. PICK U : U = S \cup T \cup {x} OBVIOUS
<1>2. v \in Seq(U) /\ w \in Seq(U) /\ x \in U
  <2>1. S \subseteq U /\ T \subseteq U /\ x \in U BY <1>1
  <2>2. Seq(S) \subseteq Seq(U) BY <2>1, SeqMonotonic
  <2>3. Seq(T) \subseteq Seq(U) BY <2>1, SeqMonotonic
  <2>4. QED BY <2>1, <2>2, <2>3
<1>3. PICK u : u = <<x>> OBVIOUS
<1>4. u \in Seq(U) /\ Len(u) = 1 /\ u[1] = x BY <1>2, <1>3
<1>5. PICK k \in Nat : k = Len(v) BY LenProperties
<1>6. PICK m \in Nat : m = Len(w) BY LenProperties
<1>7. PICK y : y = u \o v OBVIOUS
<1>8. y \in Seq(U) /\ Len(y) = 1 + k
        /\ \A i \in 1..(1 + k) : y[i] = IF i <= 1 THEN u[i] ELSE v[i - 1]
  <2>1. y \in Seq(U) /\ Len(y) = Len(u) + Len(v)
          /\ \A i \in 1..(Len(u) + Len(v)) : y[i] = IF i <= Len(u) THEN u[i] ELSE v[i - Len(u)]
    BY <1>2, <1>4, <1>7, ConcatProperties
  <2>2. QED BY <1>4, <1>5, <2>1
<1>9. t = y \o w BY <1>3, <1>7
<1>10. t \in Seq(U) /\ Len(t) = (1 + k) + m
         /\ \A i \in 1..((1 + k) + m) : t[i] = IF i <= 1 + k THEN y[i] ELSE w[i - (1 + k)]
  <2>1. t \in Seq(U) /\ Len(t) = Len(y) + Len(w)
          /\ \A i \in 1..(Len(y) + Len(w)) : t[i] = IF i <= Len(y) THEN y[i] ELSE w[i - Len(y)]
    <3>1. y \in Seq(U) /\ w \in Seq(U) BY <1>2, <1>8
    <3>2. QED BY <1>9, <3>1, ConcatProperties
  <2>2. QED BY <1>6, <1>8, <2>1
<1>11. DOMAIN t = 1..(1 + k + m) BY <1>10, LenProperties
<1>12. t[1] = x
  <2>1. 1 \in 1..((1 + k) + m) /\ 1 \in 1..(1 + k) /\ 1 <= 1 + k BY <1>5, <1>6
  <2>2. t[1] = y[1] /\ y[1] = u[1] BY <1>8, <1>10, <2>1
  <2>3. QED BY <1>4, <2>2
<1>13. ASSUME NEW i \in 1..k PROVE t[1 + i] = v[i]
  <2>1. 1 + i \in 1..((1 + k) + m) /\ 1 + i \in 1..(1 + k) /\ 1 + i <= 1 + k /\ ~(1 + i <= 1)
          /\ (1 + i) - 1 = i
    BY <1>5, <1>6
  <2>2. t[1 + i] = y[1 + i] BY <1>10, <2>1
  <2>3. y[1 + i] = v[(1 + i) - 1] BY <1>8, <2>1
  <2>4. QED BY <2>1, <2>2, <2>3
<1>14. ASSUME NEW i \in 1..m PROVE t[1 + k + i] = w[i]
  <2>1. 1 + k + i \in 1..((1 + k) + m) /\ ~(1 + k + i <= 1 + k) /\ (1 + k + i) - (1 + k) = i
    BY <1>5, <1>6
  <2>2. t[1 + k + i] = w[(1 + k + i) - (1 + k)] BY <1>10, <2>1
  <2>3. QED BY <2>1, <2>2
<1>15. t # <<>> BY <1>10, <1>5, <1>6, EmptySeq
<1>16. Tail(t) \in Seq(U) /\ Len(Tail(t)) = Len(t) - 1
         /\ \A i \in 1..Len(Tail(t)) : Tail(t)[i] = t[i + 1]
  BY <1>10, <1>15, HeadTailProperties
<1>17. Len(Tail(t)) = k + m BY <1>5, <1>6, <1>10, <1>16
<1>18. DOMAIN Tail(t) = 1..(k + m) BY <1>16, <1>17, LenProperties
<1>19. QED BY <1>5, <1>6, <1>11, <1>12, <1>13, <1>14, <1>16, <1>17, <1>18

TryNode(f, pos, b, k, e) ==
  Node("try", pos, b.nodes \o k.nodes \o e.nodes, [caught |-> Len(k.nodes)])

(* A try whose parts are good is good.                                      *)
LEMMA TryGood ==
  ASSUME NEW f \in Form, f.is = "try", NEW pos \in Position, NEW c \in Context,
         \A i \in 1..Len(f.args) : Good(f.args[i]),
         \A i \in 1..Len(f.catches) : Good(f.catches[i]),
         \A i \in 1..Len(f.finally) : Good(f.finally[i])
  PROVE  IsResult(c, TryAst(Analyze, f, pos, c))
<1>1. PICK b : b = Analyze[f.args[1]][pos][c] OBVIOUS
<1>2. PICK k : k = CatchOf(f, pos, b.ctx) OBVIOUS
<1>3. PICK e : e = FinallyOf(f, k.ctx) OBVIOUS
<1>4. TryAst(Analyze, f, pos, c) =
        IF ~b.ok THEN b ELSE IF ~k.ok THEN k ELSE Makes(e, TryNode(f, pos, b, k, e))
  BY <1>1, <1>2, <1>3, Zenon DEF TryAst, CatchOf, FinallyOf, TryNode
<1>5. Len(f.args) = 1 BY FormFacts DEF HasShape
<1>6. Good(f.args[1]) BY <1>5
<1>7. IsResult(c, b) BY <1>1, <1>6 DEF Good
<1>8. b.ok \in BOOLEAN /\ b.ctx \in Context BY <1>7 DEF IsResult
<1>9. IsOptional(b.ctx, f.catches, k) BY <1>2, <1>8, CatchResult
<1>10. k.ok \in BOOLEAN /\ k.ctx \in Context BY <1>9 DEF IsOptional
<1>11. IsOptional(k.ctx, f.finally, e) BY <1>3, <1>10, FinallyResult
<1>12. e.ok \in BOOLEAN /\ e.ctx \in Context BY <1>11 DEF IsOptional
<1>13. CASE ~b.ok
  <2>1. IsResult(c, b) BY <1>7
  <2>2. QED BY <1>4, <1>13, <2>1
<1>14. CASE b.ok /\ ~k.ok
  <2>1. IsResult(c, k) BY <1>10, <1>14 DEF IsResult
  <2>2. QED BY <1>4, <1>14, <2>1
<1>15. CASE b.ok /\ k.ok
  <2>1. PICK n : n = TryNode(f, pos, b, k, e) OBVIOUS
  <2>2. TryAst(Analyze, f, pos, c) = Makes(e, n) BY <1>4, <1>15, <2>1
  <2>3. ASSUME e.ok PROVE Undone(c, e.ctx) /\ IsNode(n)
    <3>1. Undone(c, b.ctx) /\ Undone(b.ctx, k.ctx) /\ Undone(k.ctx, e.ctx)
      BY <1>7, <1>9, <1>11, <1>15, <2>3 DEF IsResult, IsOptional
    <3>2. Undone(c, e.ctx) BY <1>8, <1>10, <1>12, <3>1, UndoneTwice
    <3>3. PICK x : x = b.nodes[1] OBVIOUS
    <3>4. b.nodes = <<x>> /\ IsNode(x) BY <1>7, <1>15, <3>3 DEF IsResult
    <3>5. PICK v : v = k.nodes OBVIOUS
    <3>6. v \in Seq({v[1]}) /\ \A i \in 1..Len(v) : IsNode(v[i])
      BY <1>9, <1>15, <3>5, OptionalNodes
    <3>7. PICK w : w = e.nodes OBVIOUS
    <3>8. w \in Seq({w[1]}) /\ \A i \in 1..Len(w) : IsNode(w[i])
      BY <1>11, <2>3, <3>7, OptionalNodes
    <3>9. PICK t : t = <<x>> \o v \o w OBVIOUS
    <3>10. PICK lv \in Nat : lv = Len(v) BY <3>6, LenProperties
    <3>11. PICK lw \in Nat : lw = Len(w) BY <3>8, LenProperties
    <3>12. /\ DOMAIN t = 1..(1 + lv + lw) /\ t[1] = x
           /\ \A i \in 1..lv : t[1 + i] = v[i]
           /\ \A i \in 1..lw : t[1 + lv + i] = w[i]
      BY <3>6, <3>8, <3>9, <3>10, <3>11, ThreeJoined
    <3>13. ASSUME NEW i \in DOMAIN t PROVE 1 \notin t[i].frames
      <4>1. CASE i = 1
        <5>1. IsNode(t[i]) BY <3>4, <3>12, <4>1
        <5>2. QED BY <5>1 DEF IsNode
      <4>2. CASE i - 1 \in 1..lv
        <5>1. i = 1 + (i - 1) BY <3>12
        <5>2. t[i] = v[i - 1] BY <3>12, <4>2, <5>1
        <5>3. IsNode(t[i]) BY <3>6, <3>10, <4>2, <5>2
        <5>4. QED BY <5>3 DEF IsNode
      <4>3. CASE i - (1 + lv) \in 1..lw
        <5>1. PICK j \in 1..lw : j = i - (1 + lv) BY <4>3
        <5>2. i = 1 + lv + j BY <3>12, <5>1
        <5>6. \A m \in 1..lw : t[1 + lv + m] = w[m] BY <3>12
        <5>7. t[1 + lv + j] = w[j] BY <5>6
        <5>3. t[i] = w[j] BY <5>2, <5>7
        <5>4. IsNode(t[i]) BY <3>8, <3>11, <5>3
        <5>5. QED BY <5>4 DEF IsNode
      <4>4. i = 1 \/ i - 1 \in 1..lv \/ i - (1 + lv) \in 1..lw BY <3>12
      <4>5. QED BY <4>1, <4>2, <4>3, <4>4
    <3>14. IsNode(Node("try", pos, t, [caught |-> Len(v)])) BY <3>13, NodeIsNode
    <3>15. n = Node("try", pos, t, [caught |-> Len(v)])
      BY <2>1, <3>4, <3>5, <3>7, <3>9 DEF TryNode
    <3>16. QED BY <3>2, <3>14, <3>15
  <2>4. IsResult(c, Makes(e, n)) BY <1>8, <1>12, <2>3, MakesResult
  <2>5. QED BY <2>2, <2>4
<1>16. QED BY <1>8, <1>10, <1>13, <1>14, <1>15

(* What is made of the arguments of a form is good.                         *)
LEMMA ArgsGood ==
  ASSUME NEW f \in Form, NEW c \in Context, NEW d \in Context, Undone(c, d),
         \A i \in 1..Len(f.args) : Good(f.args[i]),
         NEW op, op # "local", NEW pos, NEW info
  PROVE  IsResult(c, Makes(ArgsOf(f, d), Node(op, pos, ArgsOf(f, d).nodes, info)))
<1>1. PICK a : a = ArgsOf(f, d) OBVIOUS
<1>2. /\ a.ok \in BOOLEAN /\ a.ctx \in Context
      /\ a.ok => /\ Undone(d, a.ctx)
                 /\ DOMAIN a.nodes = 1..Len(f.args)
                 /\ \A i \in 1..Len(f.args) : IsNode(a.nodes[i])
  BY <1>1, ArgsResult
<1>3. PICK n : n = Node(op, pos, a.nodes, info) OBVIOUS
<1>4. ASSUME a.ok PROVE Undone(c, a.ctx) /\ IsNode(n)
  <2>1. Undone(c, a.ctx) BY <1>2, <1>4, UndoneTwice
  <2>2. \A i \in DOMAIN a.nodes : 1 \notin a.nodes[i].frames BY <1>2, <1>4 DEF IsNode
  <2>3. IsNode(n) BY <1>3, <2>2, NodeIsNode
  <2>4. QED BY <2>1, <2>3
<1>5. IsResult(c, Makes(a, n)) BY <1>2, <1>4, MakesResult
<1>6. QED BY <1>1, <1>3, <1>5

(* An if whose parts are good is good.                                      *)
LEMMA IfGood ==
  ASSUME NEW f \in Form, f.is = "if", NEW pos \in Position, NEW c \in Context,
         \A i \in 1..Len(f.args) : Good(f.args[i])
  PROVE  IsResult(c, IfAst(Analyze, f, pos, c))
<1>1. PICK s : s = Branches(f, pos) OBVIOUS
<1>2. s \in Seq(Item) /\ Len(s) = 3 /\ \A i \in 1..3 : s[i].form = f.args[i] /\ s[i].binds = {}
  BY <1>1, BranchesList
<1>3. Len(f.args) = 3 BY FormFacts DEF HasShape
<1>4. \A i \in 1..Len(s) : Good(s[i].form) BY <1>2, <1>3
<1>5. Plain(s) BY <1>2 DEF Plain
<1>6. PICK a : a = AnalyzeAll(Analyze, s, c) OBVIOUS
<1>7. /\ a.ok \in BOOLEAN /\ a.ctx \in Context
      /\ a.ok => /\ Undone(c, a.ctx)
                 /\ DOMAIN a.nodes = 1..Len(s)
                 /\ \A i \in 1..Len(s) : IsNode(a.nodes[i])
  BY <1>2, <1>4, <1>5, <1>6, PlainResult
<1>8. PICK n : n = Node("if", pos, a.nodes, NoInfo) OBVIOUS
<1>9. ASSUME a.ok PROVE IsNode(n)
  <2>1. \A i \in DOMAIN a.nodes : 1 \notin a.nodes[i].frames BY <1>7, <1>9 DEF IsNode
  <2>2. QED BY <1>8, <2>1, NodeIsNode
<1>10. a.ok => Undone(c, a.ctx) /\ IsNode(n) BY <1>7, <1>9
<1>11. IsResult(c, Makes(a, n)) BY <1>7, <1>10, MakesResult
<1>12. IfAst(Analyze, f, pos, c) = Makes(a, n) BY <1>1, <1>6, <1>8 DEF IfAst
<1>13. QED BY <1>11, <1>12

(* The innermost frame that binds a symbol, if there is one.                *)
LEMMA FoundSymbol ==
  ASSUME NEW c \in Context, NEW x, FindSymbol(c, x) # {}
  PROVE  /\ Max(FindSymbol(c, x)) \in FindSymbol(c, x)
         /\ Max(FindSymbol(c, x)) \in 2..Len(c.frames)
         /\ \A k \in FindSymbol(c, x) : k <= Max(FindSymbol(c, x))
<1>1. PICK F : F = FindSymbol(c, x) OBVIOUS
<1>2. PICK n \in Nat : n = Len(c.frames) BY ContextFacts
<1>3. c.frames[1] = {} /\ DOMAIN c.frames = 1..n BY <1>2, ContextFacts
<1>4. F \subseteq 2..n BY <1>1, <1>2, <1>3 DEF FindSymbol
<1>5. \E k \in F : \A m \in F : k >= m
  <2>1. PICK G : G = {n - k : k \in F} OBVIOUS
  <2>2. G \subseteq Nat BY <1>2, <1>4, <2>1
  <2>3. G # {} BY <1>1, <2>1
  <2>4. PICK g \in G : \A h \in G : g <= h BY <2>2, <2>3, LeastNumber
  <2>5. PICK k \in F : g = n - k BY <2>1, <2>4
  <2>6. ASSUME NEW m \in F PROVE k >= m
    <3>1. n - k <= n - m BY <2>1, <2>4, <2>5
    <3>2. QED BY <1>2, <1>4, <3>1
  <2>7. QED BY <2>6
<1>6. Max(F) \in F /\ \A m \in F : Max(F) >= m BY <1>5 DEF Max
<1>7. Max(F) \in 2..n BY <1>4, <1>6
<1>8. \A m \in F : m <= Max(F) BY <1>4, <1>6
<1>9. QED BY <1>1, <1>2, <1>6, <1>7, <1>8

(* A symbol is good.                                                        *)
LEMMA SymbolGood ==
  ASSUME NEW f \in Form, f.is = "symbol", NEW pos \in Position, NEW c \in Context
  PROVE  IsResult(c, SymbolNode(f, pos, c))
<1>1. CASE FindSymbol(c, f.name) = {}
  <2>1. SymbolNode(f, pos, c) = Raises(c) BY <1>1 DEF SymbolNode
  <2>2. IsResult(c, Raises(c)) BY RaisesResult
  <2>3. QED BY <2>1, <2>2
<1>2. CASE FindSymbol(c, f.name) # {}
  <2>1. PICK info : info = [name |-> f.name, frame |-> Max(FindSymbol(c, f.name))] OBVIOUS
  <2>2. info.frame # 1 BY <1>2, <2>1, FoundSymbol
  <2>3. PICK n : n = Node("local", pos, <<>>, info) OBVIOUS
  <2>4. \A i \in DOMAIN << >> : 1 \notin <<>>[i].frames OBVIOUS
  <2>5. IsNode(n) BY <2>2, <2>3, <2>4, NodeIsNode
  <2>6. SymbolNode(f, pos, c) = Returns(c, <<n>>) BY <1>2, <2>1, <2>3 DEF SymbolNode
  <2>7. Undone(c, c) BY UndoneSelf
  <2>8. IsResult(c, Returns(c, <<n>>)) BY <2>5, <2>7, ReturnsResult
  <2>9. QED BY <2>6, <2>8
<1>3. QED BY <1>1, <1>2

(* The context in which the innermost function is marked as a generator.    *)
Marked(c) == [c EXCEPT !.functions[Len(c.functions)] = TRUE]

(* Marking a function undoes nothing.                                       *)
LEMMA MarkedFacts ==
  ASSUME NEW c \in Context, c.functions # <<>>
  PROVE  Marked(c) \in Context /\ Undone(c, Marked(c))
<1>1. PICK n : n = Len(c.functions) OBVIOUS
<1>2. c.functions \in Seq(BOOLEAN) /\ n \in Nat BY <1>1, ContextFacts
<1>3. n \in 1..Len(c.functions) BY <1>1, <1>2, EmptySeq
<1>4. PICK x \in BOOLEAN : x = TRUE OBVIOUS
<1>5. PICK fs : fs = [c.functions EXCEPT ![n] = x] OBVIOUS
<1>6. fs \in Seq(BOOLEAN) /\ Len(fs) = Len(c.functions)
        /\ \A i \in 1..Len(c.functions) : fs[i] = IF i = n THEN x ELSE c.functions[i]
  BY <1>2, <1>3, <1>5, ExceptSeq
<1>7. c = [frames |-> c.frames, points |-> c.points, functions |-> c.functions] BY ContextSplit
<1>8. Marked(c) = [frames |-> c.frames, points |-> c.points, functions |-> fs]
  <2>1. Marked(c) = [c EXCEPT !.functions[n] = x] BY <1>1, <1>4, Zenon DEF Marked
  <2>2. QED BY <1>5, <1>7, <2>1
<1>9. [frames |-> c.frames, points |-> c.points, functions |-> fs] \in Context
  BY <1>6, ContextFacts, ContextMade
<1>10. Flagged(c.functions, fs) BY <1>1, <1>4, <1>6 DEF Flagged
<1>11. QED BY <1>8, <1>9, <1>10 DEF Undone

(* A yield marks the function, then analyzes its argument.                  *)
LEMMA YieldIs ==
  ASSUME NEW f, NEW pos, NEW c
  PROVE  YieldAst(Analyze, f, pos, c) =
           IF c.functions = <<>> THEN Raises(c)
           ELSE Makes(ArgsOf(f, Marked(c)), Node("yield", pos, ArgsOf(f, Marked(c)).nodes, NoInfo))
BY Zenon DEF YieldAst, ArgsOf, Marked

(* A yield whose parts are good is good.                                    *)
LEMMA YieldGood ==
  ASSUME NEW f \in Form, NEW pos \in Position, NEW c \in Context,
         \A i \in 1..Len(f.args) : Good(f.args[i])
  PROVE  IsResult(c, YieldAst(Analyze, f, pos, c))
<1>1. CASE c.functions = <<>>
  <2>1. YieldAst(Analyze, f, pos, c) = Raises(c) BY <1>1, YieldIs
  <2>2. IsResult(c, Raises(c)) BY RaisesResult
  <2>3. QED BY <2>1, <2>2
<1>2. CASE c.functions # <<>>
  <2>1. PICK d : d = Marked(c) OBVIOUS
  <2>2. d \in Context /\ Undone(c, d) BY <1>2, <2>1, MarkedFacts
  <2>3. IsResult(c, Makes(ArgsOf(f, d), Node("yield", pos, ArgsOf(f, d).nodes, NoInfo)))
    BY <2>2, ArgsGood
  <2>4. YieldAst(Analyze, f, pos, c) = Makes(ArgsOf(f, d), Node("yield", pos, ArgsOf(f, d).nodes, NoInfo))
    BY <1>2, <2>1, YieldIs
  <2>5. QED BY <2>3, <2>4
<1>3. QED BY <1>1, <1>2

(* A recur looks for its point, then analyzes its arguments.                *)
LEMMA RecurIs ==
  ASSUME NEW f, NEW pos, NEW c
  PROVE  RecurAst(Analyze, f, pos, c) =
           IF c.points = <<>> \/ Last(c.points) # Len(f.args) THEN Raises(c)
           ELSE Makes(ArgsOf(f, c), Node("recur", pos, ArgsOf(f, c).nodes, [point |-> Len(c.points)]))
BY Zenon DEF RecurAst, ArgsOf

(* A recur whose parts are good is good.                                    *)
LEMMA RecurGood ==
  ASSUME NEW f \in Form, NEW pos \in Position, NEW c \in Context,
         \A i \in 1..Len(f.args) : Good(f.args[i])
  PROVE  IsResult(c, RecurAst(Analyze, f, pos, c))
<1>1. CASE c.points = <<>> \/ Last(c.points) # Len(f.args)
  <2>1. RecurAst(Analyze, f, pos, c) = Raises(c) BY <1>1, RecurIs
  <2>2. IsResult(c, Raises(c)) BY RaisesResult
  <2>3. QED BY <2>1, <2>2
<1>2. CASE ~(c.points = <<>> \/ Last(c.points) # Len(f.args))
  <2>1. PICK info : info = [point |-> Len(c.points)] OBVIOUS
  <2>2. Undone(c, c) BY UndoneSelf
  <2>3. IsResult(c, Makes(ArgsOf(f, c), Node("recur", pos, ArgsOf(f, c).nodes, info)))
    BY <2>2, ArgsGood
  <2>4. RecurAst(Analyze, f, pos, c) = Makes(ArgsOf(f, c), Node("recur", pos, ArgsOf(f, c).nodes, info))
    BY <1>2, <2>1, RecurIs
  <2>5. QED BY <2>3, <2>4
<1>3. QED BY <1>1, <1>2

(* A macro is its expansion, whose recurs are checked at once.              *)
LEMMA MacroIs ==
  ASSUME NEW f, NEW pos, NEW c
  PROVE  MacroAst(Analyze, f, pos, c) =
           IF /\ Analyze[f.args[1]]["expression"][c].ok
              /\ Analyze[f.args[1]]["expression"][c].ctx.points # <<>>
              /\ ~Analyze[f.args[1]]["expression"][c].nodes[1].tail
           THEN Raises(Analyze[f.args[1]]["expression"][c].ctx)
           ELSE Analyze[f.args[1]]["expression"][c]
BY Zenon DEF MacroAst

(* A macro whose expansion is good is good.                                 *)
LEMMA MacroGood ==
  ASSUME NEW f \in Form, f.is = "macro", NEW pos \in Position, NEW c \in Context,
         \A i \in 1..Len(f.args) : Good(f.args[i])
  PROVE  IsResult(c, MacroAst(Analyze, f, pos, c))
<1>1. Len(f.args) = 1 BY FormFacts DEF HasShape
<1>2. Good(f.args[1]) BY <1>1
<1>3. PICK a : a = Analyze[f.args[1]]["expression"][c] OBVIOUS
<1>4. IsResult(c, a) BY <1>2, <1>3 DEF Good, Position
<1>5. MacroAst(Analyze, f, pos, c) = Raises(a.ctx) \/ MacroAst(Analyze, f, pos, c) = a
  BY <1>3, MacroIs
<1>6. IsResult(c, Raises(a.ctx)) BY <1>4, RaisesResult DEF IsResult
<1>7. QED BY <1>4, <1>5, <1>6

(* A call and a throw analyze their arguments.                              *)
LEMMA CallsAre ==
  ASSUME NEW f, NEW pos, NEW c
  PROVE  /\ ThrowAst(Analyze, f, pos, c)
              = Makes(ArgsOf(f, c), Node("throw", pos, ArgsOf(f, c).nodes, NoInfo))
         /\ InvokeAst(Analyze, f, pos, c)
              = Makes(ArgsOf(f, c), Node("invoke", pos, ArgsOf(f, c).nodes, [name |-> f.name]))
<1>1. ThrowAst(Analyze, f, pos, c)
        = Makes(ArgsOf(f, c), Node("throw", pos, ArgsOf(f, c).nodes, NoInfo))
  BY Zenon DEF ThrowAst, ArgsOf
<1>2. InvokeAst(Analyze, f, pos, c)
        = Makes(ArgsOf(f, c), Node("invoke", pos, ArgsOf(f, c).nodes, [name |-> f.name]))
  BY Zenon DEF InvokeAst, ArgsOf
<1>3. QED BY <1>1, <1>2

(* Analyzing any form, in any context, either raises or has popped what it   *)
(* pushed.                                                                  *)
LEMMA EveryFormGood == \A f \in Form : Good(f)
<1> DEFINE S == {f \in Form : Good(f)}
<1>1. ASSUME NEW f \in Form, Parts(f) \subseteq S PROVE f \in S
  <2> SUFFICES ASSUME NEW pos \in Position, NEW c \in Context
               PROVE  IsResult(c, AnalyzeOne(Analyze, f, pos, c))
    BY AnalyzeIs DEF Good
  <2>1. /\ \A i \in 1..Len(f.args) : f.args[i] \in S
        /\ f.is \in {"let*", "loop*"} => \A i \in 1..Len(BodyOf(f)) : BodyOf(f)[i] \in S
        /\ f.is = "fn*" => \A i \in 1..Len(f.body) : f.body[i] \in S
        /\ f.is = "try" => /\ \A i \in 1..Len(f.catches) : f.catches[i] \in S
                           /\ \A i \in 1..Len(f.finally) : f.finally[i] \in S
    <3> HIDE DEF S
    <3>1. QED BY <1>1, PartsAre
  <2>2. /\ \A i \in 1..Len(f.args) : Good(f.args[i])
        /\ f.is \in {"let*", "loop*"} => \A i \in 1..Len(BodyOf(f)) : Good(BodyOf(f)[i])
        /\ f.is = "fn*" => \A i \in 1..Len(f.body) : Good(f.body[i])
        /\ f.is = "try" => /\ \A i \in 1..Len(f.catches) : Good(f.catches[i])
                           /\ \A i \in 1..Len(f.finally) : Good(f.finally[i])
    BY <2>1
  <2> HIDE DEF S
  <2>3. Undone(c, c) BY UndoneSelf
  <2>4. f.args \in Seq(Form) BY FormFacts
  <2>5. CASE f.is = "const"
    <3>1. IsResult(c, Returns(c, <<ConstNode(f.val, pos)>>)) BY <2>3, ConstIsNode, ReturnsResult
    <3>2. QED BY <2>5, <3>1 DEF AnalyzeOne
  <2>6. CASE f.is = "malformed"
    <3>1. IsResult(c, Raises(c)) BY RaisesResult
    <3>2. QED BY <2>6, <3>1 DEF AnalyzeOne
  <2>7. CASE f.is = "symbol"
    <3>1. IsResult(c, SymbolNode(f, pos, c)) BY <2>7, SymbolGood
    <3>2. QED BY <2>7, <3>1 DEF AnalyzeOne
  <2>8. CASE f.is = "invoke"
    <3>1. IsResult(c, Makes(ArgsOf(f, c), Node("invoke", pos, ArgsOf(f, c).nodes, [name |-> f.name])))
      BY <2>2, <2>3, ArgsGood
    <3>2. IsResult(c, InvokeAst(Analyze, f, pos, c)) BY <3>1, CallsAre
    <3>3. QED BY <2>8, <3>2 DEF AnalyzeOne
  <2>9. CASE f.is = "do"
    <3>1. IsResult(c, AnalyzeBody(Analyze, f.args, pos, c)) BY <2>2, <2>4, BodyResult
    <3>2. QED BY <2>9, <3>1 DEF AnalyzeOne
  <2>10. CASE f.is = "if"
    <3>1. IsResult(c, IfAst(Analyze, f, pos, c)) BY <2>2, <2>10, IfGood
    <3>2. QED BY <2>10, <3>1 DEF AnalyzeOne
  <2>11. CASE f.is = "let*"
    <3>1. IsResult(c, LetAst(Analyze, f, pos, c)) BY <2>2, <2>11, LetGood
    <3>2. QED BY <2>11, <3>1 DEF AnalyzeOne
  <2>12. CASE f.is = "loop*"
    <3>1. IsResult(c, LoopAst(Analyze, f, pos, c)) BY <2>2, <2>12, LoopGood
    <3>2. QED BY <2>12, <3>1 DEF AnalyzeOne
  <2>13. CASE f.is = "fn*"
    <3>1. IsResult(c, FnAst(Analyze, f, pos, c)) BY <2>2, <2>13, FnGood
    <3>2. QED BY <2>13, <3>1 DEF AnalyzeOne
  <2>14. CASE f.is = "try"
    <3>1. IsResult(c, TryAst(Analyze, f, pos, c)) BY <2>2, <2>14, TryGood
    <3>2. QED BY <2>14, <3>1 DEF AnalyzeOne
  <2>15. CASE f.is = "throw"
    <3>1. IsResult(c, Makes(ArgsOf(f, c), Node("throw", pos, ArgsOf(f, c).nodes, NoInfo)))
      BY <2>2, <2>3, ArgsGood
    <3>2. IsResult(c, ThrowAst(Analyze, f, pos, c)) BY <3>1, CallsAre
    <3>3. QED BY <2>15, <3>2 DEF AnalyzeOne
  <2>16. CASE f.is = "recur"
    <3>1. IsResult(c, RecurAst(Analyze, f, pos, c)) BY <2>2, RecurGood
    <3>2. QED BY <2>16, <3>1 DEF AnalyzeOne
  <2>17. CASE f.is = "yield"
    <3>1. IsResult(c, YieldAst(Analyze, f, pos, c)) BY <2>2, YieldGood
    <3>2. QED BY <2>17, <3>1 DEF AnalyzeOne
  <2>18. CASE f.is = "macro"
    <3>1. IsResult(c, MacroAst(Analyze, f, pos, c)) BY <2>2, <2>18, MacroGood
    <3>2. QED BY <2>18, <3>1 DEF AnalyzeOne
  <2>19. QED
    BY <2>5, <2>6, <2>7, <2>8, <2>9, <2>10, <2>11, <2>12, <2>13, <2>14, <2>15, <2>16, <2>17, <2>18,
       FormFacts
<1>2. Form \subseteq S
  <2> HIDE DEF S
  <2>1. QED BY <1>1, FormInduction
<1>3. QED BY <1>2

----------------------------------------------------------------------------
(* Well-formedness.                                                         *)

(* Whether a form fits depends on its parts alone.                          *)
LEMMA FitsLocal ==
  ASSUME NEW A, NEW B, NEW f \in Form, NEW at,
         \A g \in Parts(f) : A[g] = B[g]
  PROVE  Fits(A, f, at) = Fits(B, f, at)
<1>1. f.args \in Seq(Form) /\ DOMAIN f.args = 1..Len(f.args) BY FormFacts, LenProperties
<1>2. \A i \in 1..Len(f.args) : A[f.args[i]] = B[f.args[i]] BY ArgsAreParts
<1>3. \A fs, x : (\A i \in DOMAIN fs : A[fs[i]] = B[fs[i]]) => All(A, fs, x) = All(B, fs, x)
  BY DEF All
<1>4. \A fs, x : (\A i \in DOMAIN fs : A[fs[i]] = B[fs[i]]) => Body(A, fs, x) = Body(B, fs, x)
  BY DEF Body
<1>5. \A x : All(A, f.args, x) = All(B, f.args, x) BY <1>1, <1>2, <1>3
<1>6. CASE f.is \in {"invoke", "throw", "recur", "yield"} BY <1>5, <1>6 DEF Fits
<1>7. CASE f.is \in {"const", "malformed", "symbol"} BY <1>7 DEF Fits
<1>8. CASE f.is = "macro"
  <2>1. Len(f.args) = 1 BY <1>8, FormFacts DEF HasShape
  <2>2. A[f.args[1]] = B[f.args[1]] BY <1>2, <2>1
  <2>3. QED BY <1>8, <2>2 DEF Fits
<1>9. CASE f.is = "do"
  <2>1. Body(A, f.args, at) = Body(B, f.args, at) BY <1>1, <1>2, <1>4
  <2>2. QED BY <1>9, <2>1 DEF Fits
<1>10. CASE f.is = "if"
  <2>1. Len(f.args) = 3 BY <1>10, FormFacts DEF HasShape
  <2>2. A[f.args[1]] = B[f.args[1]] /\ A[f.args[2]] = B[f.args[2]] /\ A[f.args[3]] = B[f.args[3]]
    BY <1>2, <2>1
  <2>3. QED BY <1>10, <2>2 DEF Fits
<1>11. CASE f.is \in {"let*", "loop*"}
  <2>1. BodyOf(f) \in Seq(Form) /\ \A i \in 1..Len(BodyOf(f)) : BodyOf(f)[i] \in Parts(f)
    BY <1>11, BodyOfFacts
  <2>2. DOMAIN BodyOf(f) = 1..Len(BodyOf(f)) BY <2>1, LenProperties
  <2>3. \A i \in DOMAIN BodyOf(f) : A[BodyOf(f)[i]] = B[BodyOf(f)[i]] BY <2>1, <2>2
  <2>4. \A x : Body(A, BodyOf(f), x) = Body(B, BodyOf(f), x) BY <1>4, <2>3
  <2>5. f.names \in Seq(Symbol) /\ Len(f.names) <= Len(f.args)
    BY <1>11, FormFacts DEF HasShape
  <2>6. \A i \in DOMAIN f.names : i \in 1..Len(f.args) BY <1>1, <2>5, LenProperties
  <2>7. \A i \in DOMAIN f.names : A[f.args[i]] = B[f.args[i]] BY <1>2, <2>6
  <2>8. \A x : Inits(A, f, x) = Inits(B, f, x) BY <2>7 DEF Inits
  <2>9. CASE f.is = "let*" BY <2>4, <2>8, <2>9 DEF Fits
  <2>10. CASE f.is = "loop*" BY <2>4, <2>8, <2>10 DEF Fits
  <2>11. QED BY <1>11, <2>9, <2>10
<1>12. CASE f.is = "fn*"
  <2>1. f.body \in Seq(Form) /\ \A i \in 1..Len(f.body) : f.body[i] \in Parts(f)
    BY <1>12, FormFacts, OtherParts
  <2>2. DOMAIN f.body = 1..Len(f.body) BY <2>1, LenProperties
  <2>3. \A i \in DOMAIN f.body : A[f.body[i]] = B[f.body[i]] BY <2>1, <2>2
  <2>4. \A x : Body(A, f.body, x) = Body(B, f.body, x) BY <1>4, <2>3
  <2>5. QED BY <1>5, <1>12, <2>4 DEF Fits
<1>13. CASE f.is = "try"
  <2>1. Len(f.args) = 1 /\ f.catches \in Seq(Form) /\ f.finally \in Seq(Form)
    BY <1>13, FormFacts DEF HasShape
  <2>2. A[f.args[1]] = B[f.args[1]] BY <1>2, <2>1
  <2>3. DOMAIN f.catches = 1..Len(f.catches) /\ DOMAIN f.finally = 1..Len(f.finally)
    BY <2>1, LenProperties
  <2>4. /\ \A i \in DOMAIN f.catches : A[f.catches[i]] = B[f.catches[i]]
        /\ \A i \in DOMAIN f.finally : A[f.finally[i]] = B[f.finally[i]]
    BY <1>13, <2>3, OtherParts
  <2>5. \A x : All(A, f.catches, x) = All(B, f.catches, x) BY <1>3, <2>4
  <2>6. \A x : All(A, f.finally, x) = All(B, f.finally, x) BY <1>3, <2>4
  <2>7. QED BY <1>13, <2>2, <2>5, <2>6 DEF Fits
<1>14. QED BY <1>6, <1>7, <1>8, <1>9, <1>10, <1>11, <1>12, <1>13, FormFacts

(* Hence well-formedness exists as it is defined.                           *)
LEMMA WellFormedIs ==
  \A f \in Form : \A at \in Where : WellFormed[f][at] = Fits(WellFormed, f, at)
<1> DEFINE One(g, f) == [at \in Where |-> Fits(g, f, at)]
           IsFitting(g, fs) == g = [f \in fs |-> One(g, f)]
           S == {n \in 0..Depth : \E g : IsFitting(g, Nested[n])}
<1>1. Depth \in Nat BY LispAssumption
<1>2. ASSUME NEW g, NEW h, NEW f \in Form, \A p \in Parts(f) : g[p] = h[p]
      PROVE  One(g, f) = One(h, f)
  <2>1. \A at \in Where : Fits(g, f, at) = Fits(h, f, at) BY <1>2, FitsLocal
  <2>2. QED BY <2>1
<1> HIDE DEF One
<1>3. 0 \in S
  <2>1. Nested[0] = {} BY <1>1, NestedAt
  <2>2. IsFitting([f \in {} |-> <<>>], {}) OBVIOUS
  <2>3. \E g : IsFitting(g, {}) BY <2>2
  <2>4. 0 \in 0..Depth BY <1>1
  <2>5. QED
    <3> HIDE DEF IsFitting
    <3>1. QED BY <2>1, <2>3, <2>4
<1>4. ASSUME NEW n \in 1..Depth, n - 1 \in S PROVE n \in S
  <2>1. PICK g : IsFitting(g, Nested[n - 1]) BY <1>4
  <2>2. PICK h : h = [f \in Nested[n] |-> One(g, f)] OBVIOUS
  <2>3. n \in 0..Depth /\ Nested[n] = FormsOver(Nested[n - 1]) BY <1>1, NestedAt
  <2>4. \A p \in Nested[n - 1] : p \in Nested[n] BY NestedGrows
  <2>5. \A p \in Nested[n - 1] : g[p] = One(g, p) BY <2>1
  <2>6. \A p \in Nested[n - 1] : g[p] = h[p] BY <2>2, <2>4, <2>5
  <2>7. ASSUME NEW f \in Nested[n] PROVE h[f] = One(h, f)
    <3>1. f \in Form BY <2>3, NestedIsForm
    <3>2. f \in FormsOver(Nested[n - 1]) BY <2>3
    <3>3. Parts(f) \subseteq Nested[n - 1] BY <3>2, PartsIn
    <3>4. \A p \in Parts(f) : g[p] = h[p] BY <2>6, <3>3
    <3>5. One(g, f) = One(h, f) BY <1>2, <3>1, <3>4
    <3>6. QED BY <2>2, <3>5
  <2>8. h = [f \in Nested[n] |-> h[f]] BY <2>2
  <2>9. IsFitting(h, Nested[n]) BY <2>7, <2>8
  <2>10. QED BY <2>3, <2>9
<1>5. Depth \in S
  <2> HIDE DEF S
  <2>1. QED BY <1>1, <1>3, <1>4, UpTo
<1>6. \E g : IsFitting(g, Form) BY <1>5 DEF Form
<1>7. WellFormed = CHOOSE g : IsFitting(g, Form) BY DEF WellFormed, One
<1>8. IsFitting(WellFormed, Form)
  <2> HIDE DEF IsFitting
  <2>1. QED BY <1>6, <1>7
<1>9. \A f \in Form : WellFormed[f] = One(WellFormed, f) BY <1>8
<1>10. ASSUME NEW f \in Form, NEW at \in Where
       PROVE  WellFormed[f][at] = Fits(WellFormed, f, at)
  <2>1. WellFormed[f] = [x \in Where |-> Fits(WellFormed, f, x)] BY <1>9 DEF One
  <2>2. QED BY <2>1
<1>11. QED BY <1>10

(* What is well formed, for each kind of form.                              *)
LEMMA WellFormedCases ==
  ASSUME NEW f \in Form, NEW at \in Where
  PROVE  /\ f.is = "const" => WellFormed[f][at]
         /\ f.is = "malformed" => ~WellFormed[f][at]
         /\ f.is = "symbol" => (WellFormed[f][at] <=> f.name \in at.scope)
         /\ f.is \in {"invoke", "throw"} =>
              (WellFormed[f][at] <=> All(WellFormed, f.args, Inner(at)))
         /\ f.is = "do" => (WellFormed[f][at] <=> Body(WellFormed, f.args, at))
         /\ f.is = "macro" =>
              (WellFormed[f][at] <=> /\ WellFormed[f.args[1]][at]
                                     /\ at.lenient => WellFormed[f.args[1]][AsLast(at)])
         /\ f.is = "if" =>
              (WellFormed[f][at] <=> /\ WellFormed[f.args[1]][Inner(at)]
                                     /\ WellFormed[f.args[2]][at] /\ WellFormed[f.args[3]][at])
         /\ f.is = "let*" =>
              (WellFormed[f][at] <=> /\ Inits(WellFormed, f, Inner(at))
                                     /\ Body(WellFormed, BodyOf(f), With(at, ToSet(f.names))))
         /\ f.is = "loop*" =>
              (WellFormed[f][at] <=> /\ Inits(WellFormed, f, LoopInits(at))
                                     /\ Body(WellFormed, BodyOf(f), Point(at, f.names)))
         /\ f.is = "recur" =>
              (WellFormed[f][at] <=> /\ at.tail # "nowhere" /\ Len(f.args) = at.arity
                                     /\ All(WellFormed, f.args, Unchecked(at)))
         /\ f.is = "yield" =>
              (WellFormed[f][at] <=> at.fn /\ All(WellFormed, f.args, Inner(at)))
         /\ f.is = "try" =>
              (WellFormed[f][at] <=> /\ WellFormed[f.args[1]][at]
                                     /\ All(WellFormed, f.catches, With(Inner(at), {"e"}))
                                     /\ All(WellFormed, f.finally, Inner(at)))
         /\ f.is = "fn*" =>
              (WellFormed[f][at] <=> /\ All(WellFormed, f.args, Inner(at))
                                     /\ Body(WellFormed, f.body, Point([at EXCEPT !.fn = TRUE], f.names)))
<1>1. WellFormed[f][at] = Fits(WellFormed, f, at) BY WellFormedIs
<1>2. PICK W : W = WellFormed OBVIOUS
<1>3. WellFormed[f][at] = Fits(W, f, at) BY <1>1, <1>2
<1>4. QED BY <1>2, <1>3 DEF Fits

----------------------------------------------------------------------------
(* Where a form stands, and the context it is analyzed in.                  *)

(* The fields of a place.                                                   *)
LEMMA WhereFacts ==
  ASSUME NEW at \in Where
  PROVE  /\ at.scope \in SUBSET Symbol /\ at.tail \in {"last", "nowhere", "anywhere"}
         /\ at.arity \in Int /\ at.fn \in BOOLEAN /\ at.lenient \in BOOLEAN
         /\ at = [scope |-> at.scope, tail |-> at.tail, arity |-> at.arity, fn |-> at.fn,
                  lenient |-> at.lenient]
BY DEF Where

(* The place that has given fields.                                         *)
LEMMA WhereMade ==
  ASSUME NEW scope \in SUBSET Symbol, NEW tail \in {"last", "nowhere", "anywhere"},
         NEW arity \in Int, NEW fn \in BOOLEAN, NEW lenient \in BOOLEAN,
         NEW x, x = [scope |-> scope, tail |-> tail, arity |-> arity, fn |-> fn, lenient |-> lenient]
  PROVE  x \in Where /\ x.scope = scope /\ x.tail = tail /\ x.arity = arity /\ x.fn = fn
         /\ x.lenient = lenient
BY DEF Where

(* A place is determined by its fields.                                     *)
LEMMA SameWhere ==
  ASSUME NEW x \in Where, NEW y \in Where, x.scope = y.scope, x.tail = y.tail, x.arity = y.arity,
         x.fn = y.fn, x.lenient = y.lenient
  PROVE  x = y
BY DEF Where

(* The places of the parts of a form.                                       *)
LEMMA InnerFacts ==
  ASSUME NEW at \in Where
  PROVE  /\ Inner(at) \in Where /\ Inner(at).scope = at.scope /\ Inner(at).arity = at.arity
         /\ Inner(at).fn = at.fn /\ Inner(at).lenient = at.lenient
         /\ Inner(at).tail = IF at.tail = "last" THEN "nowhere" ELSE at.tail
BY DEF Inner, Where

(* The place of the arguments of a recur.                                   *)
LEMMA UncheckedFacts ==
  ASSUME NEW at \in Where
  PROVE  /\ Unchecked(at) \in Where /\ Unchecked(at).scope = at.scope /\ Unchecked(at).arity = at.arity
         /\ Unchecked(at).fn = at.fn /\ Unchecked(at).lenient = at.lenient
         /\ Unchecked(at).tail = IF at.lenient THEN "anywhere" ELSE "nowhere"
BY DEF Unchecked, Where

(* The place of what a macro gives.                                         *)
LEMMA AsLastFacts ==
  ASSUME NEW at \in Where
  PROVE  /\ AsLast(at) \in Where /\ AsLast(at).scope = at.scope /\ AsLast(at).arity = at.arity
         /\ AsLast(at).fn = at.fn /\ AsLast(at).lenient = at.lenient
         /\ AsLast(at).tail = "last"
BY DEF AsLast, Where

(* A place with more names in scope.                                        *)
LEMMA WithFacts ==
  ASSUME NEW at \in Where, NEW xs \in SUBSET Symbol
  PROVE  /\ With(at, xs) \in Where /\ With(at, xs).scope = at.scope \cup xs
         /\ With(at, xs).arity = at.arity /\ With(at, xs).fn = at.fn
         /\ With(at, xs).lenient = at.lenient /\ With(at, xs).tail = at.tail
BY DEF With, Where

(* The place of the body of a recursion point.                              *)
LEMMA PointFacts ==
  ASSUME NEW at \in Where, NEW xs, ToSet(xs) \in SUBSET Symbol, Len(xs) \in Nat
  PROVE  /\ Point(at, xs) \in Where /\ Point(at, xs).scope = at.scope \cup ToSet(xs)
         /\ Point(at, xs).arity = Len(xs) /\ Point(at, xs).fn = at.fn
         /\ Point(at, xs).lenient = at.lenient /\ Point(at, xs).tail = "last"
<1>1. PICK s : s = ToSet(xs) OBVIOUS
<1>2. PICK n \in Int : n = Len(xs) OBVIOUS
<1>3. Point(at, xs) = [at EXCEPT !.scope = @ \cup s, !.tail = "last", !.arity = n]
  BY <1>1, <1>2, Zenon DEF Point
<1>4. PICK r : r = at.scope \cup s OBVIOUS
<1>5. r \in SUBSET Symbol BY <1>1, <1>4, WhereFacts
<1>6. Point(at, xs) = [scope |-> r, tail |-> "last", arity |-> n, fn |-> at.fn, lenient |-> at.lenient]
  <2>1. at = [scope |-> at.scope, tail |-> at.tail, arity |-> at.arity, fn |-> at.fn,
              lenient |-> at.lenient]
    BY WhereFacts
  <2>2. QED BY <1>3, <1>4, <2>1
<1>7. PICK y : y = Point(at, xs) OBVIOUS
<1>8. y \in Where /\ y.scope = r /\ y.tail = "last" /\ y.arity = n /\ y.fn = at.fn
        /\ y.lenient = at.lenient
  BY <1>5, <1>6, <1>7, WhereFacts, WhereMade
<1>9. QED BY <1>1, <1>2, <1>4, <1>7, <1>8

(* The place of a function's body.                                          *)
FnAt(f, at) == Point([at EXCEPT !.fn = TRUE], f.names)

(* The place of a function's body: a recursion point, inside a function.    *)
LEMMA FnAtFacts ==
  ASSUME NEW at \in Where, NEW f \in Form, f.is = "fn*"
  PROVE  /\ FnAt(f, at) \in Where /\ FnAt(f, at).scope = at.scope \cup ToSet(f.names)
         /\ FnAt(f, at).arity = Len(f.names) /\ FnAt(f, at).fn = TRUE
         /\ FnAt(f, at).lenient = at.lenient /\ FnAt(f, at).tail = "last"
<1>1. PICK x : x = [at EXCEPT !.fn = TRUE] OBVIOUS
<1>2. x \in Where /\ x.scope = at.scope /\ x.fn = TRUE /\ x.lenient = at.lenient BY <1>1 DEF Where
<1>3. ToSet(f.names) \in SUBSET Symbol /\ Len(f.names) \in Nat BY NamesAreSymbols
<1>4. FnAt(f, at) = Point(x, f.names) BY <1>1, Zenon DEF FnAt
<1>5. QED BY <1>2, <1>3, <1>4, PointFacts

(* The names bound in a context above some of its frames.                   *)
Bound(c, b) == UNION {c.frames[k] : k \in (b + 1)..Len(c.frames)}

(* A name is bound above a frame if some frame above it has the name.       *)
LEMMA BoundFacts ==
  ASSUME NEW c \in Context, NEW b \in 0..Len(c.frames)
  PROVE  /\ Bound(c, b) \in SUBSET Symbol
         /\ \A x : x \in Bound(c, b) <=> \E k \in FindSymbol(c, x) : k > b
<1>1. PICK n \in Nat : n = Len(c.frames) BY ContextFacts
<1>2. DOMAIN c.frames = 1..n /\ \A k \in 1..n : c.frames[k] \in SUBSET Symbol
  BY <1>1, ContextFacts, ElementOfSeq
<1>3. \A k : k \in (b + 1)..n <=> k \in 1..n /\ k > b BY <1>1
<1>4. Bound(c, b) = UNION {c.frames[k] : k \in (b + 1)..n} BY <1>1 DEF Bound
<1>5. Bound(c, b) \in SUBSET Symbol BY <1>2, <1>3, <1>4
<1>6. \A x : x \in Bound(c, b) <=> \E k \in FindSymbol(c, x) : k > b
  BY <1>2, <1>3, <1>4 DEF FindSymbol
<1>7. QED BY <1>5, <1>6

(* A frame that is entered adds its names.                                  *)
LEMMA BoundEntered ==
  ASSUME NEW c \in Context, NEW b \in 0..Len(c.frames), NEW xs \in SUBSET Symbol,
         NEW d, Entered(c, xs, d)
  PROVE  Len(d.frames) = Len(c.frames) + 1 /\ Bound(d, b) = Bound(c, b) \cup xs
<1>1. PICK n \in Nat : n = Len(c.frames) BY ContextFacts
<1>2. d.frames = Append(c.frames, xs) BY DEF Entered
<1>3. c.frames \in Seq(SUBSET Symbol) BY ContextFacts
<1>4. PICK t : t = Append(c.frames, xs) OBVIOUS
<1>5. Len(t) = n + 1 /\ t[n + 1] = xs /\ \A i \in 1..n : t[i] = c.frames[i]
  BY <1>1, <1>3, <1>4, AppendProperties
<1>6. (b + 1)..(n + 1) = ((b + 1)..n) \cup {n + 1} BY <1>1
<1>7. Bound(d, b) = UNION {t[k] : k \in (b + 1)..(n + 1)} BY <1>2, <1>4, <1>5 DEF Bound
<1>8. UNION {t[k] : k \in (b + 1)..(n + 1)} = (UNION {t[k] : k \in (b + 1)..n}) \cup t[n + 1]
  BY <1>6
<1>9. \A k \in (b + 1)..n : t[k] = c.frames[k] BY <1>1, <1>5
<1>10. UNION {t[k] : k \in (b + 1)..n} = UNION {c.frames[k] : k \in (b + 1)..n} BY <1>9
<1>11. Bound(c, b) = UNION {c.frames[k] : k \in (b + 1)..n} BY <1>1 DEF Bound
<1>12. Bound(d, b) = Bound(c, b) \cup xs BY <1>5, <1>7, <1>8, <1>10, <1>11
<1>13. QED BY <1>1, <1>2, <1>4, <1>5, <1>12

(* The same frames bind the same names.                                     *)
LEMMA BoundSame ==
  ASSUME NEW c, NEW d, NEW b, c.frames = d.frames
  PROVE  Bound(c, b) = Bound(d, b)
BY DEF Bound

----------------------------------------------------------------------------
(* What is well formed is accepted.                                         *)

(* A context offers what a form that stands at a place may refer to: the     *)
(* names in scope, the recursion point when it is last in one, and a         *)
(* function around it.                                                      *)
Strict(at) == at \in Where /\ ~at.lenient /\ at.tail \in {"last", "nowhere"}

Offers(c, at) ==
  /\ Strict(at)
  /\ at.scope \subseteq Bound(c, 0)
  /\ at.tail = "last" => c.points # <<>> /\ Last(c.points) = at.arity
  /\ at.fn => c.functions # <<>>

(* A node may stand at such a place.                                        *)
Placed(n, tail) == n.tail /\ (tail = "nowhere" => ~n.recurs)

Taken(r, tail) == r.ok /\ Placed(r.nodes[1], tail)

(* A form is accepted wherever it is well formed.                           *)
Takes(f) ==
  \A at \in Where : \A c \in Context : \A pos \in Position :
    Offers(c, at) /\ WellFormed[f][at] => Taken(Analyze[f][pos][c], at.tail)

(* Strictly, a recur may not be in the arguments of another nor in an init   *)
(* form.                                                                    *)
LEMMA StrictInner ==
  ASSUME NEW at, Strict(at)
  PROVE  /\ Strict(Inner(at)) /\ Inner(at).tail = "nowhere"
         /\ Inner(at).scope = at.scope /\ Inner(at).fn = at.fn
         /\ Unchecked(at) = Inner(at) /\ LoopInits(at) = Inner(at) /\ Inner(Inner(at)) = Inner(at)
<1>1. at \in Where /\ ~at.lenient /\ at.tail \in {"last", "nowhere"} BY DEF Strict
<1>2. PICK x : x = Inner(at) OBVIOUS
<1>3. x \in Where /\ x.scope = at.scope /\ x.arity = at.arity /\ x.fn = at.fn
        /\ x.lenient = at.lenient /\ x.tail = "nowhere"
  BY <1>1, <1>2, InnerFacts
<1>4. Unchecked(at) = x
  <2>1. PICK y : y = Unchecked(at) OBVIOUS
  <2>2. y \in Where /\ y.scope = at.scope /\ y.arity = at.arity /\ y.fn = at.fn
          /\ y.lenient = at.lenient /\ y.tail = "nowhere"
    BY <1>1, <2>1, UncheckedFacts
  <2>3. y = x BY <1>3, <2>2, SameWhere
  <2>4. QED BY <2>1, <2>3
<1>5. LoopInits(at) = x BY <1>2, <1>4 DEF LoopInits
<1>6. Inner(x) = x BY <1>3 DEF Inner
<1>7. Strict(x) BY <1>1, <1>3 DEF Strict
<1>8. QED BY <1>2, <1>3, <1>4, <1>5, <1>6, <1>7

(* A context that offers a place offers those of its parts.                 *)
LEMMA OffersInner ==
  ASSUME NEW c \in Context, NEW at, Offers(c, at)
  PROVE  Offers(c, Inner(at))
<1>1. Strict(at) BY DEF Offers
<1>2. QED BY <1>1, StrictInner DEF Offers

(* A context whose pushes are undone offers what it offered before.         *)
LEMMA OffersUndone ==
  ASSUME NEW c \in Context, NEW d \in Context, Undone(c, d), NEW at, Offers(c, at)
  PROVE  Offers(d, at)
<1>1. d.frames = c.frames /\ d.points = c.points /\ Flagged(c.functions, d.functions) BY DEF Undone
<1>2. c.functions \in Seq(BOOLEAN) /\ d.functions \in Seq(BOOLEAN) BY ContextFacts
<1>3. (c.functions = <<>>) = (d.functions = <<>>) BY <1>1, <1>2, FlaggedEmpty
<1>4. Bound(d, 0) = Bound(c, 0) BY <1>1, BoundSame
<1>5. QED BY <1>1, <1>3, <1>4 DEF Offers

(* A context offers the names of a frame that is entered.                   *)
LEMMA OffersEntered ==
  ASSUME NEW c \in Context, NEW xs \in SUBSET Symbol, NEW d, Entered(c, xs, d),
         NEW at, Offers(c, at)
  PROVE  Offers(d, With(at, xs))
<1>1. at \in Where /\ Strict(at) BY DEF Offers, Strict
<1>2. PICK y : y = With(at, xs) OBVIOUS
<1>3. y \in Where /\ y.scope = at.scope \cup xs /\ y.arity = at.arity /\ y.fn = at.fn
        /\ y.lenient = at.lenient /\ y.tail = at.tail
  BY <1>1, <1>2, WithFacts
<1>4. d \in Context /\ d.points = c.points /\ Flagged(c.functions, d.functions) BY DEF Entered
<1>5. c.functions \in Seq(BOOLEAN) /\ d.functions \in Seq(BOOLEAN) BY <1>4, ContextFacts
<1>6. (c.functions = <<>>) = (d.functions = <<>>) BY <1>4, <1>5, FlaggedEmpty
<1>7. 0 \in 0..Len(c.frames) BY ContextFacts
<1>8. Bound(d, 0) = Bound(c, 0) \cup xs BY <1>7, BoundEntered
<1>9. y.scope \subseteq Bound(d, 0) BY <1>3, <1>8 DEF Offers
<1>10. Strict(y) BY <1>1, <1>3 DEF Strict
<1>11. Offers(d, y) BY <1>3, <1>4, <1>6, <1>9, <1>10 DEF Offers
<1>12. QED BY <1>2, <1>11

(* A recursion point of as many names.                                      *)
LEMMA OffersPoint ==
  ASSUME NEW c \in Context, NEW at, NEW xs, Len(xs) \in Nat, ToSet(xs) \in SUBSET Symbol,
         at \in Where, Offers(c, With(at, ToSet(xs)))
  PROVE  Offers(NewRecurPoint(c, Len(xs)), Point(at, xs))
<1>1. PICK y : y = With(at, ToSet(xs)) OBVIOUS
<1>2. y.scope = at.scope \cup ToSet(xs) /\ y.fn = at.fn /\ y.lenient = at.lenient
        /\ y.tail = at.tail
  BY <1>1, WithFacts
<1>3. PICK z : z = Point(at, xs) OBVIOUS
<1>4. z \in Where /\ z.scope = y.scope /\ z.arity = Len(xs) /\ z.fn = y.fn
        /\ z.lenient = y.lenient /\ z.tail = "last"
  BY <1>2, <1>3, PointFacts
<1>5. PICK d : d = NewRecurPoint(c, Len(xs)) OBVIOUS
<1>6. d.frames = c.frames /\ d.points = Append(c.points, Len(xs)) /\ d.functions = c.functions
  BY <1>5, PushPoint
<1>7. c.points \in Seq(Nat) BY ContextFacts
<1>8. d.points # <<>> /\ Last(d.points) = Len(xs)
  BY <1>6, <1>7, AppendProperties, FrontOfAppend
<1>9. Offers(c, y) BY <1>1
<1>10. y.scope \subseteq Bound(c, 0) /\ (y.fn => c.functions # <<>>) /\ ~y.lenient
  BY <1>9 DEF Offers, Strict
<1>11. Bound(d, 0) = Bound(c, 0) BY <1>6, BoundSame
<1>12. Strict(z) BY <1>4, <1>10 DEF Strict
<1>13. Offers(d, z) BY <1>4, <1>6, <1>8, <1>10, <1>11, <1>12 DEF Offers
<1>14. QED BY <1>3, <1>5, <1>13

(* The body of a function.                                                  *)
LEMMA FnCtxFacts ==
  ASSUME NEW f \in Form, f.is = "fn*", NEW c \in Context
  PROVE  /\ FnCtx(f, c) \in Context
         /\ Len(FnCtx(f, c).frames) = Len(c.frames) + 2
         /\ \A b \in 0..Len(c.frames) : Bound(FnCtx(f, c), b) = Bound(c, b) \cup ToSet(f.names)
         /\ FnCtx(f, c).points = Append(c.points, Len(f.names))
         /\ FnCtx(f, c).functions # <<>>
<1>1. Len(f.names) \in Nat /\ ToSet(f.names) \in SUBSET Symbol /\ {} \in SUBSET Symbol
  BY NamesAreSymbols
<1>2. PICK c1 : c1 = FnFrame(c) OBVIOUS
<1>3. c1 \in Context /\ Entered(c, {}, c1) /\ c1.points = c.points
  BY <1>1, <1>2, PushSymbols, PushEnters DEF FnFrame
<1>4. PICK c2 : c2 = FnFrames(f, c) OBVIOUS
<1>5. c2 \in Context /\ Entered(c1, ToSet(f.names), c2) /\ c2.points = c.points
  BY <1>1, <1>2, <1>3, <1>4, PushSymbols, PushEnters DEF FnFrames
<1>6. PICK c3 : c3 = FnPoint(f, c) OBVIOUS
<1>7. c3 \in Context /\ c3.frames = c2.frames /\ c3.points = Append(c.points, Len(f.names))
  BY <1>1, <1>4, <1>5, <1>6, PushPoint DEF FnPoint
<1>8. PICK c4 : c4 = FnCtx(f, c) OBVIOUS
<1>9. c4 = NewFuncCtx(c3) BY <1>6, <1>8 DEF FnCtx
<1>10. c4 \in Context /\ c4.frames = c2.frames /\ c4.points = Append(c.points, Len(f.names))
  BY <1>7, <1>9, PushFunc
<1>11. c4.functions # <<>>
  <2>1. c4.functions = Append(c3.functions, FALSE) BY <1>7, <1>9, PushFunc, Zenon
  <2>2. FALSE \in BOOLEAN OBVIOUS
  <2>3. c3.functions \in Seq(BOOLEAN) BY <1>7, ContextFacts
  <2>4. Append(c3.functions, FALSE) # <<>> BY <2>2, <2>3, AppendProperties
  <2>5. QED BY <2>1, <2>4, Zenon
<1>12. PICK n \in Nat : n = Len(c.frames) BY ContextFacts
<1>13. ASSUME NEW b \in 0..n
       PROVE  Len(c4.frames) = n + 2 /\ Bound(c4, b) = Bound(c, b) \cup ToSet(f.names)
  <2>1. Len(c1.frames) = n + 1 /\ Bound(c1, b) = Bound(c, b) \cup {}
    <3>1. PICK none \in SUBSET Symbol : none = {} OBVIOUS
    <3>2. b \in 0..Len(c.frames) BY <1>12
    <3>3. Entered(c, none, c1) BY <1>3, <3>1
    <3>4. Len(c1.frames) = Len(c.frames) + 1 /\ Bound(c1, b) = Bound(c, b) \cup none
      BY <3>2, <3>3, BoundEntered
    <3>5. QED BY <1>12, <3>1, <3>4
  <2>2. b \in 0..Len(c1.frames) BY <1>12, <2>1
  <2>3. Len(c2.frames) = Len(c1.frames) + 1 /\ Bound(c2, b) = Bound(c1, b) \cup ToSet(f.names)
    BY <1>1, <1>3, <1>5, <2>2, BoundEntered
  <2>4. Bound(c4, b) = Bound(c2, b) BY <1>10, BoundSame
  <2>5. QED BY <1>10, <1>12, <2>1, <2>3, <2>4
<1>14. 0 \in 0..n BY <1>12
<1>15. QED BY <1>8, <1>10, <1>11, <1>12, <1>13, <1>14

(* The context of a function's body offers the body's place.                *)
LEMMA OffersFn ==
  ASSUME NEW f \in Form, f.is = "fn*", NEW c \in Context, NEW at, Offers(c, at)
  PROVE  Offers(FnCtx(f, c), FnAt(f, at))
<1>1. at \in Where /\ ~at.lenient /\ at.scope \subseteq Bound(c, 0) BY DEF Offers, Strict
<1>2. PICK d : d = FnCtx(f, c) OBVIOUS
<1>3. 0 \in 0..Len(c.frames) BY ContextFacts
<1>4. d \in Context /\ Bound(d, 0) = Bound(c, 0) \cup ToSet(f.names)
        /\ d.points = Append(c.points, Len(f.names)) /\ d.functions # <<>>
  BY <1>2, <1>3, FnCtxFacts
<1>5. PICK z : z = FnAt(f, at) OBVIOUS
<1>6. z \in Where /\ z.scope = at.scope \cup ToSet(f.names) /\ z.arity = Len(f.names)
        /\ z.lenient = at.lenient /\ z.tail = "last"
  BY <1>1, <1>5, FnAtFacts
<1>7. c.points \in Seq(Nat) /\ Len(f.names) \in Nat BY ContextFacts, NamesAreSymbols
<1>8. d.points # <<>> /\ Last(d.points) = Len(f.names)
  BY <1>4, <1>7, AppendProperties, FrontOfAppend
<1>9. Strict(z) BY <1>1, <1>6 DEF Strict
<1>10. Offers(d, z) BY <1>1, <1>4, <1>6, <1>8, <1>9 DEF Offers
<1>11. QED BY <1>2, <1>5, <1>10

(* What analyzing items, a body, or one form gives, now for all forms.      *)
LEMMA AnalyzeAllIs ==
  ASSUME NEW c \in Context, NEW items \in Seq(Item), Plain(items) \/ Len(c.frames) > 1
  PROVE  AllUpto(c, items, Len(items), AnalyzeAll(Analyze, items, c))
<1>1. \A i \in 1..Len(items) : Good(items[i].form) BY ItemFacts, EveryFormGood
<1>2. QED BY <1>1, AllResult

(* What analyzing a body gives.                                             *)
LEMMA BodyIs ==
  ASSUME NEW c \in Context, NEW fs \in Seq(Form), NEW pos \in Position
  PROVE  IsResult(c, AnalyzeBody(Analyze, fs, pos, c))
<1>1. \A i \in 1..Len(fs) : Good(fs[i]) BY ElementOfSeq, EveryFormGood
<1>2. QED BY <1>1, BodyResult

(* What analyzing one form gives.                                           *)
LEMMA OneIs ==
  ASSUME NEW f \in Form, NEW pos \in Position, NEW c \in Context
  PROVE  IsResult(c, Analyze[f][pos][c])
BY EveryFormGood DEF Good

(* What analyzing the arguments of a form gives.                            *)
LEMMA ArgsAre ==
  ASSUME NEW f \in Form, NEW c \in Context
  PROVE  /\ ArgsOf(f, c).ok \in BOOLEAN /\ ArgsOf(f, c).ctx \in Context
         /\ ArgsOf(f, c).ok =>
              /\ Undone(c, ArgsOf(f, c).ctx)
              /\ ArgsOf(f, c).nodes \in Seq(NodeSet) /\ Len(ArgsOf(f, c).nodes) = Len(f.args)
              /\ DOMAIN ArgsOf(f, c).nodes = 1..Len(f.args)
              /\ \A i \in 1..Len(f.args) : IsNode(ArgsOf(f, c).nodes[i])
<1>1. f.args \in Seq(Form) BY FormFacts
<1>2. \A i \in 1..Len(f.args) : Good(f.args[i]) BY <1>1, ElementOfSeq, EveryFormGood
<1>3. QED BY <1>2, ArgsResult

(* Items that are accepted each at a place of its own, w[i], that every      *)
(* context in which it may be analyzed offers.                              *)
LEMMA AllTaken ==
  ASSUME NEW c \in Context, NEW items \in Seq(Item), Plain(items) \/ Len(c.frames) > 1,
         \A i \in 1..Len(items) : Takes(items[i].form),
         NEW w, \A i \in 1..Len(items) : w[i] \in Where /\ WellFormed[items[i].form][w[i]],
         \A i \in 1..Len(items) : \A d : InFrom(c, items, i, d) => Offers(d, w[i]),
         NEW a, a = AnalyzeAll(Analyze, items, c)
  PROVE  /\ a.ok
         /\ \A i \in 1..Len(items) : Placed(a.nodes[i], w[i].tail)
<1>1. AllUpto(c, items, Len(items), a) BY AnalyzeAllIs
<1>2. ASSUME NEW i \in 1..Len(items), NEW d \in Context, InFrom(c, items, i, d)
      PROVE  Taken(ResultOf(items, i, d), w[i].tail)
  <2>1. items[i].pos \in Position BY ItemFacts
  <2>2. w[i] \in Where /\ Offers(d, w[i]) /\ WellFormed[items[i].form][w[i]] /\ Takes(items[i].form)
    BY <1>2
  <2>3. Taken(Analyze[items[i].form][items[i].pos][d], w[i].tail) BY <2>1, <2>2 DEF Takes
  <2>4. QED BY <2>3 DEF ResultOf
<1>3. ~Fails(c, items) BY <1>2 DEF Fails, Taken
<1>4. a.ok BY <1>1, <1>3 DEF AllUpto
<1>5. ASSUME NEW i \in 1..Len(items) PROVE Placed(a.nodes[i], w[i].tail)
  <2>1. Made(c, items, i, a.nodes[i]) BY <1>1, <1>4 DEF AllUpto
  <2>2. PICK d \in Context : InFrom(c, items, i, d) /\ a.nodes[i] = ResultOf(items, i, d).nodes[1]
    BY <2>1 DEF Made
  <2>3. QED BY <1>2, <2>2 DEF Taken
<1>6. QED BY <1>4, <1>5

(* Forms, none of which binds anything, are accepted if each is well formed *)
(* at its place.                                                            *)
LEMMA PlainTaken ==
  ASSUME NEW c \in Context, NEW items \in Seq(Item), Plain(items),
         \A i \in 1..Len(items) : Takes(items[i].form),
         NEW w, \A i \in 1..Len(items) : w[i] \in Where /\ WellFormed[items[i].form][w[i]],
         \A i \in 1..Len(items) : Offers(c, w[i]),
         NEW a, a = AnalyzeAll(Analyze, items, c)
  PROVE  /\ a.ok
         /\ \A i \in 1..Len(items) : Placed(a.nodes[i], w[i].tail)
<1>1. PICK k \in Nat : k = Len(items) BY LenProperties
<1>2. ASSUME NEW i \in 1..k, NEW d, InFrom(c, items, i, d) PROVE Offers(d, w[i])
  <2>1. i \in 1..(Len(items) + 1) BY <1>1
  <2>2. d \in Context /\ Undone(c, d) BY <1>2, <2>1, PlainUndone
  <2>3. Offers(c, w[i]) BY <1>1
  <2>4. QED BY <2>2, <2>3, OffersUndone
<1>3. \A i \in 1..Len(items) : \A d : InFrom(c, items, i, d) => Offers(d, w[i]) BY <1>1, <1>2
<1>4. QED BY <1>3, AllTaken

(* Arguments are not looked for a recur in last position.                   *)
LEMMA ArgsTaken ==
  ASSUME NEW f \in Form, NEW c \in Context, \A i \in 1..Len(f.args) : Takes(f.args[i]),
         NEW at, Offers(c, at), All(WellFormed, f.args, Inner(at))
  PROVE  /\ ArgsOf(f, c).ok
         /\ NoneRecurs(ArgsOf(f, c).nodes)
<1>1. PICK s : s = Expressions(f.args) OBVIOUS
<1>2. f.args \in Seq(Form) BY FormFacts
<1>3. s \in Seq(Item) /\ Len(s) = Len(f.args) /\ \A i \in 1..Len(f.args) : s[i].form = f.args[i]
  BY <1>1, <1>2, ExpressionsList
<1>4. Plain(s) BY <1>1, <1>2, ExpressionsPlain
<1>5. PICK x : x = Inner(at) OBVIOUS
<1>6. Offers(c, x) /\ x.tail = "nowhere" /\ x \in Where
  <2>1. Strict(at) BY DEF Offers
  <2>2. Strict(x) /\ x.tail = "nowhere" BY <1>5, <2>1, StrictInner
  <2>3. Offers(c, x) BY <1>5, OffersInner
  <2>4. QED BY <2>2, <2>3 DEF Strict
<1>7. PICK w : w = [i \in 1..Len(s) |-> x] OBVIOUS
<1>8. DOMAIN f.args = 1..Len(s) BY <1>2, <1>3, LenProperties
<1>9. \A i \in 1..Len(s) : w[i] \in Where /\ WellFormed[s[i].form][w[i]]
  BY <1>3, <1>5, <1>6, <1>7, <1>8 DEF All
<1>10. \A i \in 1..Len(s) : Offers(c, w[i]) BY <1>6, <1>7
<1>11. \A i \in 1..Len(s) : Takes(s[i].form) BY <1>3
<1>12. PICK a : a = AnalyzeAll(Analyze, s, c) OBVIOUS
<1>13. a.ok /\ \A i \in 1..Len(s) : Placed(a.nodes[i], w[i].tail)
  BY <1>3, <1>4, <1>9, <1>10, <1>11, <1>12, PlainTaken
<1>14. a = ArgsOf(f, c) BY <1>1, <1>12 DEF ArgsOf
<1>15. DOMAIN a.nodes = 1..Len(s) BY <1>3, <1>13, <1>14, ArgsAre
<1>16. NoneRecurs(a.nodes) BY <1>6, <1>7, <1>13, <1>15 DEF NoneRecurs, Placed
<1>17. QED BY <1>13, <1>14, <1>16

(* A body whose forms are accepted.                                         *)
LEMMA BodyTaken ==
  ASSUME NEW fs \in Seq(Form), \A i \in 1..Len(fs) : Takes(fs[i]), NEW pos \in Position,
         NEW c \in Context, NEW at, Offers(c, at), Body(WellFormed, fs, at)
  PROVE  Taken(AnalyzeBody(Analyze, fs, pos, c), at.tail)
<1>1. PICK s : s = Statements(fs, pos) OBVIOUS
<1>2. PICK k \in Nat : k = Len(fs) /\ DOMAIN fs = 1..k BY LenProperties
<1>3. s \in Seq(Item) /\ Len(s) = k /\ \A i \in 1..k : s[i].form = fs[i]
  BY <1>1, <1>2, StatementsList
<1>4. Plain(s) BY <1>1, StatementsPlain
<1>5. PICK x : x = Inner(at) OBVIOUS
<1>6. Offers(c, x) /\ x.tail = "nowhere" /\ x \in Where /\ at \in Where
        /\ at.tail \in {"last", "nowhere"}
  <2>1. Strict(at) BY DEF Offers
  <2>2. Strict(x) /\ x.tail = "nowhere" BY <1>5, <2>1, StrictInner
  <2>3. Offers(c, x) BY <1>5, OffersInner
  <2>4. QED BY <2>1, <2>2, <2>3 DEF Strict
<1>7. PICK w : w = [i \in 1..k |-> IF i = k THEN at ELSE x] OBVIOUS
<1>8. \A i \in 1..k : w[i] = IF i = k THEN at ELSE x BY <1>7
<1>9. \A i \in 1..Len(s) : w[i] \in Where /\ WellFormed[s[i].form][w[i]]
  <2>1. \A i \in 1..k : WellFormed[fs[i]][IF i = k THEN at ELSE x] BY <1>2, <1>5 DEF Body
  <2>2. ASSUME NEW i \in 1..k PROVE w[i] \in Where /\ WellFormed[s[i].form][w[i]]
    BY <1>3, <1>6, <1>8, <2>1
  <2>3. QED BY <1>3, <2>2
<1>10. \A i \in 1..Len(s) : Offers(c, w[i]) BY <1>3, <1>6, <1>8
<1>11. \A i \in 1..Len(s) : Takes(s[i].form) BY <1>2, <1>3
<1>12. PICK a : a = AnalyzeAll(Analyze, s, c) OBVIOUS
<1>13. a.ok /\ \A i \in 1..Len(s) : Placed(a.nodes[i], w[i].tail)
  BY <1>3, <1>4, <1>9, <1>10, <1>11, <1>12, PlainTaken
<1>14. AllUpto(c, s, Len(s), a) BY <1>3, <1>4, <1>12, AnalyzeAllIs
<1>15. a.nodes \in Seq(NodeSet) /\ Len(a.nodes) = k BY <1>3, <1>13, <1>14 DEF AllUpto
<1>16. PICK ns : ns = IF fs = <<>> THEN <<ConstNode(Nil, pos)>> ELSE a.nodes OBVIOUS
<1>17. PICK n : n = Node("do", pos, ns, NoInfo) OBVIOUS
<1>18. (n.recurs <=> ~NoneRecurs(ns)) /\ (n.tail <=> NoneRecurs(Front(ns)) /\ Last(ns).tail)
  BY <1>17, NodeFacts DEF Recurs, RecurIsTail
<1>19. Placed(n, at.tail)
  <2>1. CASE fs = <<>>
    <3>1. PICK y : y = ConstNode(Nil, pos) OBVIOUS
    <3>2. ~y.recurs /\ y.tail
      <4>1. (y.recurs <=> Recurs("const", <<>>)) /\ (y.tail <=> RecurIsTail("const", <<>>))
        BY <3>1, NodeFacts DEF ConstNode
      <4>2. QED BY <4>1 DEF Recurs, RecurIsTail, NoneRecurs
    <3>3. ns = <<>> \o <<y>> /\ ns = <<y>> BY <1>16, <2>1, <3>1
    <3>4. << >> \in Seq({y}) OBVIOUS
    <3>5. Front(ns) = <<>> /\ Last(ns) = y BY <3>3, <3>4, Joined
    <3>6. NoneRecurs(ns) /\ NoneRecurs(Front(ns)) BY <3>2, <3>3, <3>5 DEF NoneRecurs
    <3>7. QED BY <1>18, <3>2, <3>5, <3>6 DEF Placed
  <2>2. CASE fs # <<>>
    <3>1. ns = a.nodes /\ k > 0 BY <1>2, <1>16, <2>2, EmptySeq
    <3>2. ns \in Seq(NodeSet) /\ Len(ns) = k /\ ns # <<>> /\ DOMAIN ns = 1..k
      BY <1>15, <3>1, EmptySeq, LenProperties
    <3>3. Front(ns) \in Seq(NodeSet) /\ Len(Front(ns)) = k - 1 /\ Last(ns) = ns[k]
            /\ \A i \in 1..(k - 1) : Front(ns)[i] = ns[i]
      BY <3>2, FrontFacts
    <3>4. DOMAIN Front(ns) = 1..(k - 1) BY <3>3, LenProperties
    <3>5. \A i \in 1..k : Placed(ns[i], IF i = k THEN at.tail ELSE "nowhere")
      BY <1>3, <1>6, <1>8, <1>13, <3>1
    <3>6. \A i \in 1..(k - 1) : ~ns[i].recurs BY <1>2, <3>5 DEF Placed
    <3>7. NoneRecurs(Front(ns)) BY <3>3, <3>4, <3>6 DEF NoneRecurs
    <3>8. ns[k].tail /\ (at.tail = "nowhere" => ~ns[k].recurs) BY <1>2, <3>1, <3>5 DEF Placed
    <3>9. at.tail = "nowhere" => NoneRecurs(ns) BY <1>2, <3>2, <3>6, <3>8 DEF NoneRecurs
    <3>10. QED BY <1>18, <3>3, <3>7, <3>8, <3>9 DEF Placed
  <2>3. QED BY <2>1, <2>2
<1>20. AnalyzeBody(Analyze, fs, pos, c) = Makes(a, n)
  BY <1>1, <1>12, <1>16, <1>17 DEF AnalyzeBody
<1>21. Makes(a, n) = Returns(a.ctx, <<n>>) BY <1>13 DEF Makes
<1>22. Taken(Returns(a.ctx, <<n>>), at.tail) BY <1>19 DEF Taken, Returns
<1>23. QED BY <1>20, <1>21, <1>22

(* Init forms that are accepted, each in the scope of those before.         *)
LEMMA InitsTaken ==
  ASSUME NEW f \in Form, f.is \in {"let*", "loop*"}, \A i \in 1..Len(f.args) : Takes(f.args[i]),
         NEW pos \in Position, NEW c \in Context, NEW at, Offers(c, at),
         Inits(WellFormed, f, Inner(at)),
         NEW a, a = AnalyzeAll(Analyze, InitForms(f, pos), NewSymbolTable(c, {}))
  PROVE  /\ a.ok /\ a.ctx \in Context
         /\ Entered(c, ToSet(f.names), a.ctx)
         /\ a.nodes \in Seq(NodeSet) /\ NoneRecurs(a.nodes)
         /\ Offers(a.ctx, With(at, ToSet(f.names)))
<1>1. PICK s : s = InitForms(f, pos) OBVIOUS
<1>2. PICK k \in Nat : k = Len(f.names) /\ DOMAIN f.names = 1..k BY NamesAreSymbols
<1>3. s \in Seq(Item) /\ Len(s) = k /\ \A i \in 1..k : s[i].form = f.args[i]
  BY <1>1, <1>2, InitFormsList
<1>4. f.args \in Seq(Form) /\ k <= Len(f.args) BY <1>2, FormFacts DEF HasShape
<1>5. \A i \in 1..Len(s) : Takes(s[i].form) BY <1>2, <1>3, <1>4, LenProperties
<1>6. PICK none \in SUBSET Symbol : none = {} OBVIOUS
<1>7. PICK c1 : c1 = NewSymbolTable(c, none) OBVIOUS
<1>8. c1 \in Context /\ c1.frames = Append(c.frames, none) BY <1>7, PushSymbols
<1>9. Len(c1.frames) > 1
  <2>1. Len(c.frames) \in Nat \ {0} /\ c.frames \in Seq(SUBSET Symbol) BY ContextFacts
  <2>2. Len(Append(c.frames, none)) = Len(c.frames) + 1 BY <2>1, AppendProperties
  <2>3. QED BY <1>8, <2>1, <2>2
<1>10. PICK x : x = Inner(at) OBVIOUS
<1>11. Offers(c, x) /\ x.tail = "nowhere" /\ x \in Where
  <2>1. Strict(at) BY DEF Offers
  <2>2. Strict(x) /\ x.tail = "nowhere" BY <1>10, <2>1, StrictInner
  <2>3. Offers(c, x) BY <1>10, OffersInner
  <2>4. QED BY <2>2, <2>3 DEF Strict
<1>12. PICK w : w = [i \in 1..k |-> With(x, BoundUpTo(f, i))] OBVIOUS
<1>13. \A i \in 1..k : w[i] = With(x, BoundUpTo(f, i)) BY <1>12
<1>14. ASSUME NEW i \in 1..k
       PROVE  /\ BoundUpTo(f, i) \in SUBSET Symbol
              /\ w[i] \in Where /\ w[i].tail = "nowhere"
              /\ WellFormed[s[i].form][w[i]]
              /\ \A d : InFrom(c1, s, i, d) => Offers(d, w[i])
  <2>1. i \in 1..(Len(f.names) + 1) BY <1>2
  <2>2. BoundUpTo(f, i) \in SUBSET Symbol BY <2>1, InitsBind
  <2>3. w[i] \in Where /\ w[i].tail = "nowhere" BY <1>11, <1>13, <2>2, WithFacts
  <2>4. WellFormed[f.args[i]][With(x, {f.names[j] : j \in 1..(i - 1)})] BY <1>2, <1>10 DEF Inits
  <2>5. WellFormed[s[i].form][w[i]] BY <1>3, <1>13, <2>4 DEF BoundUpTo
  <2>6. ASSUME NEW d, InFrom(c1, s, i, d) PROVE Offers(d, w[i])
    <3>1. InFrom(NewSymbolTable(c, {}), InitForms(f, pos), i, d) BY <1>1, <1>6, <1>7, <2>6
    <3>2. Entered(c, BoundUpTo(f, i), d) BY <2>1, <3>1, InFromEntered
    <3>3. Offers(d, With(x, BoundUpTo(f, i))) BY <1>11, <2>2, <3>2, OffersEntered
    <3>4. QED BY <1>13, <3>3
  <2>7. QED BY <2>2, <2>3, <2>5, <2>6
<1>15. a = AnalyzeAll(Analyze, s, c1) BY <1>1, <1>6, <1>7
<1>16. \A i \in 1..Len(s) : w[i] \in Where /\ WellFormed[s[i].form][w[i]] BY <1>3, <1>14
<1>17. \A i \in 1..Len(s) : \A d : InFrom(c1, s, i, d) => Offers(d, w[i]) BY <1>3, <1>14
<1>18. a.ok /\ \A i \in 1..Len(s) : Placed(a.nodes[i], w[i].tail)
  BY <1>3, <1>5, <1>8, <1>9, <1>15, <1>16, <1>17, AllTaken
<1>19. \A i \in 1..Len(f.args) : Good(f.args[i]) BY <1>4, ElementOfSeq, EveryFormGood
<1>20. a.ctx \in Context /\ Entered(c, ToSet(f.names), a.ctx) /\ a.nodes \in Seq(NodeSet)
         /\ Len(a.nodes) = k
  BY <1>2, <1>18, <1>19, InitsResult
<1>21. DOMAIN a.nodes = 1..k BY <1>20, LenProperties
<1>22. NoneRecurs(a.nodes) BY <1>3, <1>14, <1>18, <1>21 DEF NoneRecurs, Placed
<1>23. ToSet(f.names) \in SUBSET Symbol BY NamesAreSymbols
<1>24. Offers(a.ctx, With(at, ToSet(f.names))) BY <1>20, <1>23, OffersEntered
<1>25. QED BY <1>18, <1>20, <1>22, <1>24

(* A well-formed let* is accepted.                                          *)
LEMMA LetTaken ==
  ASSUME NEW f \in Form, f.is = "let*", \A i \in 1..Len(f.args) : Takes(f.args[i]),
         \A i \in 1..Len(BodyOf(f)) : Takes(BodyOf(f)[i]),
         NEW pos \in Position, NEW c \in Context, NEW at, Offers(c, at), WellFormed[f][at]
  PROVE  Taken(LetAst(Analyze, f, pos, c), at.tail)
<1>1. at \in Where BY DEF Offers, Strict
<1>2. Inits(WellFormed, f, Inner(at)) /\ Body(WellFormed, BodyOf(f), With(at, ToSet(f.names)))
  BY <1>1, WellFormedCases
<1>3. PICK i : i = AnalyzeAll(Analyze, InitForms(f, pos), NewSymbolTable(c, {})) OBVIOUS
<1>4. PICK y : y = AnalyzeBody(Analyze, BodyOf(f), pos, i.ctx) OBVIOUS
<1>5. i.ok /\ i.ctx \in Context /\ i.nodes \in Seq(NodeSet) /\ NoneRecurs(i.nodes)
        /\ Offers(i.ctx, With(at, ToSet(f.names)))
  BY <1>2, <1>3, InitsTaken
<1>6. BodyOf(f) \in Seq(Form) BY BodyOfFacts
<1>7. PICK z : z = With(at, ToSet(f.names)) OBVIOUS
<1>8. z.tail = at.tail BY <1>1, <1>7, NamesAreSymbols, WithFacts
<1>9. Taken(y, z.tail) BY <1>2, <1>4, <1>5, <1>6, <1>7, BodyTaken
<1>10. IsResult(i.ctx, y) BY <1>4, <1>5, <1>6, BodyIs
<1>11. PICK x : x = y.nodes[1] OBVIOUS
<1>12. y.ok /\ y.nodes = <<x>> /\ Placed(x, at.tail) BY <1>8, <1>9, <1>10, <1>11 DEF Taken, IsResult
<1>13. PICK t : t = i.nodes \o <<x>> OBVIOUS
<1>14. PICK n : n = Node("let*", pos, t, [names |-> f.names]) OBVIOUS
<1>15. LetAst(Analyze, f, pos, c) = Returns(PopSymbolTable(y.ctx), <<n>>)
  BY <1>3, <1>4, <1>5, <1>12, <1>13, <1>14 DEF LetAst
<1>16. (n.recurs <=> ~NoneRecurs(t)) /\ (n.tail <=> NoneRecurs(Front(t)) /\ Last(t).tail)
  BY <1>14, NodeFacts DEF Recurs, RecurIsTail
<1>17. PICK k \in Nat : k = Len(i.nodes) /\ DOMAIN i.nodes = 1..k BY <1>5, LenProperties
<1>18. /\ DOMAIN t = 1..(k + 1) /\ t[k + 1] = x /\ Front(t) = i.nodes /\ Last(t) = x
       /\ \A j \in 1..k : t[j] = i.nodes[j]
  <2>1. PICK s : s = i.nodes OBVIOUS
  <2>2. s \in Seq(NodeSet) BY <1>5, <2>1
  <2>3. t = s \o <<x>> BY <1>13, <2>1
  <2>4. DOMAIN t = 1..(Len(s) + 1) /\ t[Len(s) + 1] = x BY <2>2, <2>3, Joined
  <2>5. Front(t) = s /\ Last(t) = x BY <2>2, <2>3, Joined
  <2>6. \A j \in 1..Len(s) : t[j] = s[j] BY <2>2, <2>3, Joined
  <2>7. QED BY <1>17, <2>1, <2>4, <2>5, <2>6
<1>19. n.tail BY <1>5, <1>12, <1>16, <1>18 DEF Placed
<1>20. ASSUME at.tail = "nowhere" PROVE ~n.recurs
  <2>1. \A j \in 1..k : ~t[j].recurs BY <1>5, <1>17, <1>18 DEF NoneRecurs
  <2>2. ~t[k + 1].recurs BY <1>12, <1>18, <1>20 DEF Placed
  <2>3. NoneRecurs(t) BY <1>17, <1>18, <2>1, <2>2 DEF NoneRecurs
  <2>4. QED BY <1>16, <2>3
<1>21. Taken(Returns(PopSymbolTable(y.ctx), <<n>>), at.tail) BY <1>19, <1>20 DEF Taken, Placed, Returns
<1>22. QED BY <1>15, <1>21

(* A well-formed loop* is accepted.                                         *)
LEMMA LoopTaken ==
  ASSUME NEW f \in Form, f.is = "loop*", \A i \in 1..Len(f.args) : Takes(f.args[i]),
         \A i \in 1..Len(BodyOf(f)) : Takes(BodyOf(f)[i]),
         NEW pos \in Position, NEW c \in Context, NEW at, Offers(c, at), WellFormed[f][at]
  PROVE  Taken(LoopAst(Analyze, f, pos, c), at.tail)
<1>1. at \in Where /\ Strict(at) BY DEF Offers, Strict
<1>2. Inits(WellFormed, f, Inner(at)) /\ Body(WellFormed, BodyOf(f), Point(at, f.names))
  <2>1. LoopInits(at) = Inner(at) BY <1>1, StrictInner
  <2>2. Inits(WellFormed, f, LoopInits(at)) /\ Body(WellFormed, BodyOf(f), Point(at, f.names))
    BY <1>1, WellFormedCases
  <2>3. QED BY <2>1, <2>2
<1>3. PICK i : i = AnalyzeAll(Analyze, InitForms(f, pos), NewSymbolTable(c, {})) OBVIOUS
<1>4. PICK q : q = NewRecurPoint(i.ctx, Len(f.names)) OBVIOUS
<1>5. PICK y : y = AnalyzeBody(Analyze, BodyOf(f), pos, q) OBVIOUS
<1>6. i.ok /\ i.ctx \in Context /\ i.nodes \in Seq(NodeSet) /\ NoneRecurs(i.nodes)
        /\ Offers(i.ctx, With(at, ToSet(f.names)))
  BY <1>2, <1>3, InitsTaken
<1>7. BodyOf(f) \in Seq(Form) BY BodyOfFacts
<1>8. Len(f.names) \in Nat /\ ToSet(f.names) \in SUBSET Symbol BY NamesAreSymbols
<1>9. PICK z : z = Point(at, f.names) OBVIOUS
<1>10. z.tail = "last" BY <1>1, <1>8, <1>9, PointFacts
<1>11. q \in Context BY <1>4, <1>6, <1>8, PushPoint
<1>12. Offers(q, z) BY <1>1, <1>4, <1>6, <1>8, <1>9, OffersPoint
<1>13. Taken(y, z.tail) BY <1>2, <1>5, <1>7, <1>9, <1>11, <1>12, BodyTaken
<1>14. IsResult(q, y) BY <1>5, <1>7, <1>11, BodyIs
<1>15. PICK x : x = y.nodes[1] OBVIOUS
<1>16. y.ok /\ y.nodes = <<x>> /\ x.tail BY <1>13, <1>14, <1>15 DEF Taken, IsResult, Placed
<1>17. PICK t : t = i.nodes \o <<x>> OBVIOUS
<1>18. PICK n : n = Node("loop*", pos, t, [names |-> f.names]) OBVIOUS
<1>19. PICK d : d = PopSymbolTable(PopRecurPoint(y.ctx)) OBVIOUS
<1>20. LoopAst(Analyze, f, pos, c) = Returns(d, <<n>>)
  <2>1. y.nodes[1].tail /\ i.nodes \o y.nodes = t BY <1>16, <1>17
  <2>2. QED BY <1>3, <1>4, <1>5, <1>6, <1>16, <1>18, <1>19, <2>1 DEF LoopAst
<1>21. ~n.recurs /\ (n.tail <=> NoneRecurs(Front(t))) BY <1>18, NodeFacts DEF Recurs, RecurIsTail
<1>22. Front(t) = i.nodes
  <2>1. PICK s : s = i.nodes OBVIOUS
  <2>2. s \in Seq(NodeSet) BY <1>6, <2>1
  <2>3. t = s \o <<x>> BY <1>17, <2>1
  <2>4. Front(t) = s BY <2>2, <2>3, Joined
  <2>5. QED BY <2>1, <2>4
<1>23. n.tail BY <1>6, <1>21, <1>22
<1>24. Taken(Returns(d, <<n>>), at.tail) BY <1>21, <1>23 DEF Taken, Placed, Returns
<1>25. QED BY <1>20, <1>24

(* A well-formed function is accepted.                                      *)
LEMMA FnTaken ==
  ASSUME NEW f \in Form, f.is = "fn*", \A i \in 1..Len(f.args) : Takes(f.args[i]),
         \A i \in 1..Len(f.body) : Takes(f.body[i]),
         NEW pos \in Position, NEW c \in Context, NEW at, Offers(c, at), WellFormed[f][at]
  PROVE  Taken(FnAst(Analyze, f, pos, c), at.tail)
<1>1. at \in Where BY DEF Offers, Strict
<1>2. All(WellFormed, f.args, Inner(at)) /\ Body(WellFormed, f.body, FnAt(f, at))
  BY <1>1, WellFormedCases DEF FnAt
<1>3. PICK q : q = FnCtx(f, c) OBVIOUS
<1>4. PICK z : z = FnAt(f, at) OBVIOUS
<1>5. q \in Context /\ Offers(q, z) BY <1>3, <1>4, FnContexts, OffersFn
<1>6. f.body \in Seq(Form) /\ "expression" \in Position BY FormFacts DEF Position
<1>7. PICK y : y = FnBody(f, c) OBVIOUS
<1>8. y = AnalyzeBody(Analyze, f.body, "expression", q) BY <1>3, <1>7 DEF FnBody
<1>9. Taken(y, z.tail) BY <1>2, <1>4, <1>5, <1>6, <1>8, BodyTaken
<1>10. IsResult(q, y) BY <1>5, <1>6, <1>8, BodyIs
<1>11. PICK x : x = y.nodes[1] OBVIOUS
<1>12. z.tail = "last" BY <1>1, <1>4, FnAtFacts
<1>13. y.ok /\ y.nodes = <<x>> /\ x.tail BY <1>9, <1>10, <1>11 DEF Taken, IsResult, Placed
<1>14. PICK a : a = ArgsOf(f, c) OBVIOUS
<1>15. a.ok /\ NoneRecurs(a.nodes) BY <1>2, <1>14, ArgsTaken
<1>16. a.nodes \in Seq(NodeSet) BY <1>14, <1>15, ArgsAre
<1>17. PICK n : n = FnNode(f, pos, c) OBVIOUS
<1>18. FnAst(Analyze, f, pos, c) = Makes(a, n)
  <2>1. IsResult(FnCtx(f, c), FnBody(f, c)) BY <1>3, <1>7, <1>10
  <2>2. FnBody(f, c).ok /\ FnBody(f, c).nodes[1].tail BY <1>7, <1>11, <1>13
  <2>3. FnAst(Analyze, f, pos, c) = Makes(ArgsOf(f, c), FnNode(f, pos, c)) BY <2>1, <2>2, FnAstIs
  <2>4. QED BY <1>14, <1>17, <2>3
<1>19. PICK t : t = a.nodes \o <<x>> OBVIOUS
<1>20. PICK info : info = [names |-> f.names, generator |-> Last(y.ctx.functions)] OBVIOUS
<1>21. n = Node("fn*", pos, t, info) BY <1>7, <1>13, <1>14, <1>17, <1>19, <1>20 DEF FnNode
<1>22. (n.recurs <=> ~NoneRecurs(Front(t))) /\ (n.tail <=> ~Recurs("fn*", t))
  BY <1>21, NodeFacts DEF Recurs, RecurIsTail
<1>23. Front(t) = a.nodes
  <2>1. PICK s : s = a.nodes OBVIOUS
  <2>2. s \in Seq(NodeSet) BY <1>16, <2>1
  <2>3. t = s \o <<x>> BY <1>19, <2>1
  <2>4. Front(t) = s BY <2>2, <2>3, Joined
  <2>5. QED BY <2>1, <2>4
<1>24. ~n.recurs /\ n.tail BY <1>15, <1>22, <1>23 DEF Recurs
<1>25. Makes(a, n) = Returns(a.ctx, <<n>>) BY <1>15 DEF Makes
<1>26. Taken(Returns(a.ctx, <<n>>), at.tail) BY <1>24 DEF Taken, Placed, Returns
<1>27. QED BY <1>18, <1>25, <1>26

(* The parts of a try are its body's node, and those of the catch and of the *)
(* finally.                                                                 *)
MadeOf(t, x, v, w) ==
  /\ 1 \in DOMAIN t /\ t[1] = x
  /\ \A i \in DOMAIN v : \E j \in DOMAIN t : t[j] = v[i]
  /\ \A i \in DOMAIN w : \E j \in DOMAIN t : t[j] = w[i]
  /\ NoneRecurs(t) <=> ~x.recurs /\ NoneRecurs(v) /\ NoneRecurs(w)
  /\ NoneRecurs(Tail(t)) <=> NoneRecurs(v) /\ NoneRecurs(w)

(* A sequence made of one element and two sequences.                        *)
LEMMA ThreeParts ==
  ASSUME NEW x, NEW S, NEW v \in Seq(S), NEW T, NEW w \in Seq(T), NEW t, t = <<x>> \o v \o w
  PROVE  MadeOf(t, x, v, w)
<1>1. PICK k \in Nat : k = Len(v) /\ DOMAIN v = 1..k BY LenProperties
<1>2. PICK m \in Nat : m = Len(w) /\ DOMAIN w = 1..m BY LenProperties
<1>3. DOMAIN t = 1..(1 + k + m) /\ t[1] = x /\ DOMAIN Tail(t) = 1..(k + m)
  BY <1>1, <1>2, ThreeJoined
<1>4. \A i \in 1..k : t[1 + i] = v[i] BY <1>1, ThreeJoined
<1>5. \A i \in 1..m : t[1 + k + i] = w[i] BY <1>1, <1>2, ThreeJoined
<1>6. \A i \in 1..(k + m) : Tail(t)[i] = t[i + 1] BY <1>1, <1>2, ThreeJoined
<1>7. 1 \in DOMAIN t BY <1>1, <1>2, <1>3
<1>8. \A i \in 1..k : 1 + i \in DOMAIN t BY <1>1, <1>2, <1>3
<1>9. \A i \in 1..m : 1 + k + i \in DOMAIN t BY <1>1, <1>2, <1>3
<1>10. ASSUME NEW i \in 1..(k + m)
       PROVE  (i \in 1..k /\ t[i + 1] = v[i]) \/ (\E j \in 1..m : t[i + 1] = w[j])
  <2>1. CASE i <= k
    <3>1. i \in 1..k /\ i + 1 = 1 + i BY <2>1, <1>1, <1>2
    <3>2. QED BY <1>4, <3>1
  <2>2. CASE ~(i <= k)
    <3>0. i - k \in 1..m
      <4>1. i \in Int /\ i <= k + m /\ k < i BY <2>2, <1>1, <1>2
      <4>2. i - k \in Int /\ 1 <= i - k /\ i - k <= m BY <4>1, <1>1, <1>2
      <4>3. QED BY <4>2
    <3>1. PICK j \in 1..m : j = i - k BY <3>0
    <3>2. i + 1 = 1 + k + j BY <3>1, <1>1, <1>2
    <3>3. t[1 + k + j] = w[j] BY <1>5
    <3>4. QED BY <3>2, <3>3
  <2>3. QED BY <2>1, <2>2
<1>11. NoneRecurs(Tail(t)) <=> NoneRecurs(v) /\ NoneRecurs(w)
  <2>1. ASSUME NoneRecurs(Tail(t)) PROVE NoneRecurs(v) /\ NoneRecurs(w)
    <3>1. ASSUME NEW i \in 1..k PROVE ~v[i].recurs
      <4>1. i \in 1..(k + m) /\ i + 1 = 1 + i BY <1>1, <1>2
      <4>2. Tail(t)[i] = v[i] BY <1>4, <1>6, <4>1
      <4>3. QED BY <1>3, <2>1, <4>1, <4>2 DEF NoneRecurs
    <3>2. ASSUME NEW i \in 1..m PROVE ~w[i].recurs
      <4>1. PICK j \in 1..(k + m) : j = k + i BY <1>1, <1>2
      <4>2. j + 1 = 1 + k + i BY <1>1, <1>2, <4>1
      <4>3. t[1 + k + i] = w[i] BY <1>5
      <4>4. Tail(t)[j] = w[i] BY <1>6, <4>2, <4>3
      <4>5. QED BY <1>3, <2>1, <4>4 DEF NoneRecurs
    <3>3. QED BY <1>1, <1>2, <3>1, <3>2 DEF NoneRecurs
  <2>2. ASSUME NoneRecurs(v), NoneRecurs(w) PROVE NoneRecurs(Tail(t))
    <3>1. ASSUME NEW i \in 1..(k + m) PROVE ~Tail(t)[i].recurs
      <4>1. Tail(t)[i] = t[i + 1] BY <1>6
      <4>2. QED BY <1>1, <1>2, <1>10, <2>2, <4>1 DEF NoneRecurs
    <3>2. QED BY <1>3, <3>1 DEF NoneRecurs
  <2>3. QED BY <2>1, <2>2
<1>12. NoneRecurs(t) <=> ~x.recurs /\ NoneRecurs(Tail(t))
  <2>1. ASSUME NoneRecurs(t) PROVE ~x.recurs /\ NoneRecurs(Tail(t))
    <3>1. \A i \in 1..(k + m) : i + 1 \in DOMAIN t BY <1>1, <1>2, <1>3
    <3>2. \A i \in 1..(k + m) : ~Tail(t)[i].recurs BY <1>6, <2>1, <3>1 DEF NoneRecurs
    <3>3. QED BY <1>3, <1>7, <2>1, <3>2 DEF NoneRecurs
  <2>2. ASSUME ~x.recurs, NoneRecurs(Tail(t)) PROVE NoneRecurs(t)
    <3>1. ASSUME NEW i \in DOMAIN t PROVE ~t[i].recurs
      <4>1. CASE i = 1 BY <1>3, <2>2, <4>1
      <4>2. CASE i # 1
        <5>1. PICK j \in 1..(k + m) : j = i - 1 BY <1>1, <1>2, <1>3, <4>2
        <5>2. i = j + 1 BY <1>3, <5>1
        <5>3. Tail(t)[j] = t[i] BY <1>6, <5>2
        <5>4. ~Tail(t)[j].recurs BY <1>3, <2>2 DEF NoneRecurs
        <5>5. QED BY <5>3, <5>4
      <4>3. QED BY <4>1, <4>2
    <3>2. QED BY <3>1 DEF NoneRecurs
  <2>3. QED BY <2>1, <2>2
<1>13. \A i \in DOMAIN v : \E j \in DOMAIN t : t[j] = v[i] BY <1>1, <1>4, <1>8
<1>14. \A i \in DOMAIN w : \E j \in DOMAIN t : t[j] = w[i] BY <1>2, <1>5, <1>9
<1>15. QED BY <1>3, <1>7, <1>11, <1>12, <1>13, <1>14 DEF MadeOf

(* No nodes, no recurs.                                                     *)
LEMMA NoneOfNothing ==
  ASSUME NEW v, v = <<>>
  PROVE  NoneRecurs(v)
<1>1. DOMAIN << >> = {} OBVIOUS
<1>2. QED BY <1>1 DEF NoneRecurs

(* The recurs of one node.                                                  *)
LEMMA NoneOfOne ==
  ASSUME NEW x, NEW v, v = <<x>>
  PROVE  NoneRecurs(v) <=> ~x.recurs
<1>1. DOMAIN v = {1} /\ v[1] = x OBVIOUS
<1>2. QED BY <1>1 DEF NoneRecurs

(* What a try is made of, when none of its parts raised.                    *)
IsTryOf(n, x, vs, ws) ==
  /\ n.recurs <=> x.recurs \/ ~NoneRecurs(vs) \/ ~NoneRecurs(ws)
  /\ n.tail <=> x.tail /\ NoneRecurs(vs) /\ NoneRecurs(ws)
  /\ x.frames \subseteq n.frames /\ x.points \subseteq n.points
  /\ \A i \in DOMAIN vs : vs[i].frames \subseteq n.frames /\ vs[i].points \subseteq n.points
  /\ \A i \in DOMAIN ws : ws[i].frames \subseteq n.frames /\ ws[i].points \subseteq n.points

(* What the node of a try says of those below it.                           *)
LEMMA TryNodeFacts ==
  ASSUME NEW f, NEW pos, NEW b, NEW x, b.nodes = <<x>>,
         NEW c, NEW fs, NEW k, IsOptional(c, fs, k), k.ok,
         NEW d, NEW gs, NEW e, IsOptional(d, gs, e), e.ok,
         NEW n, n = TryNode(f, pos, b, k, e)
  PROVE  IsTryOf(n, x, k.nodes, e.nodes)
<1>1. PICK v : v = k.nodes OBVIOUS
<1>2. PICK V : v \in Seq(V) BY <1>1, OptionalNodes
<1>3. PICK w : w = e.nodes OBVIOUS
<1>4. PICK W : w \in Seq(W) BY <1>3, OptionalNodes
<1>5. PICK t : t = <<x>> \o v \o w OBVIOUS
<1>6. MadeOf(t, x, v, w) BY <1>2, <1>4, <1>5, ThreeParts
<1>7. \A i \in DOMAIN v : \E j \in DOMAIN t : t[j] = v[i] BY <1>6 DEF MadeOf
<1>8. \A i \in DOMAIN w : \E j \in DOMAIN t : t[j] = w[i] BY <1>6 DEF MadeOf
<1>9. NoneRecurs(t) <=> ~x.recurs /\ NoneRecurs(v) /\ NoneRecurs(w) BY <1>6 DEF MadeOf
<1>10. NoneRecurs(Tail(t)) <=> NoneRecurs(v) /\ NoneRecurs(w) BY <1>6 DEF MadeOf
<1>11. PICK info : info = [caught |-> Len(v)] OBVIOUS
<1>12. n = Node("try", pos, t, info) BY <1>1, <1>3, <1>5, <1>11 DEF TryNode
<1>13. (n.recurs <=> Recurs("try", t)) /\ (n.tail <=> RecurIsTail("try", t))
  BY <1>12, NodeFacts
<1>14. n.recurs <=> ~NoneRecurs(t) BY <1>13 DEF Recurs
<1>15. n.tail <=> t[1].tail /\ NoneRecurs(Tail(t)) BY <1>13, Zenon DEF RecurIsTail
<1>16. \A i \in DOMAIN t : t[i].frames \subseteq n.frames BY <1>12, NodeFacts
<1>17. \A i \in DOMAIN t : t[i].points \subseteq n.points BY <1>12, NodeFacts
<1>18. \A i \in DOMAIN v : v[i].frames \subseteq n.frames /\ v[i].points \subseteq n.points
  BY <1>7, <1>16, <1>17
<1>19. \A i \in DOMAIN w : w[i].frames \subseteq n.frames /\ w[i].points \subseteq n.points
  BY <1>8, <1>16, <1>17
<1>20. x.frames \subseteq n.frames /\ x.points \subseteq n.points BY <1>6, <1>16, <1>17 DEF MadeOf
<1>21. n.recurs <=> x.recurs \/ ~NoneRecurs(v) \/ ~NoneRecurs(w) BY <1>9, <1>14
<1>22. n.tail <=> x.tail /\ NoneRecurs(v) /\ NoneRecurs(w) BY <1>6, <1>10, <1>15 DEF MadeOf
<1>23. QED BY <1>1, <1>3, <1>18, <1>19, <1>20, <1>21, <1>22 DEF IsTryOf

(* A catch, in the scope of what it binds, and a finally.                   *)
LEMMA CatchTaken ==
  ASSUME NEW f \in Form, f.is = "try", \A i \in 1..Len(f.catches) : Takes(f.catches[i]),
         NEW pos \in Position, NEW c \in Context, NEW at, Offers(c, at),
         All(WellFormed, f.catches, With(Inner(at), {"e"})),
         NEW k, k = CatchOf(f, pos, c)
  PROVE  k.ok /\ NoneRecurs(k.nodes)
<1>1. CASE f.catches = <<>>
  <2>1. k = Returns(c, <<>>) BY <1>1 DEF CatchOf, CatchAst
  <2>2. k.ok /\ k.nodes = <<>> BY <2>1 DEF Returns
  <2>3. QED BY <2>2, NoneOfNothing
<1>2. CASE f.catches # <<>>
  <2>1. PICK r : r = Analyze[f.catches[1]][pos][CatchCtx(c)] OBVIOUS
  <2>2. f.catches[1] \in Form /\ 1 \in 1..Len(f.catches)
          /\ k = IF r.ok THEN Returns(PopSymbolTable(r.ctx), r.nodes) ELSE r
    BY <1>2, <2>1, CatchIs
  <2>3. PICK d : d = CatchCtx(c) OBVIOUS
  <2>4. d \in Context /\ Entered(c, {"e"}, d) /\ {"e"} \in SUBSET Symbol BY <2>3, CatchCtxFacts
  <2>5. PICK x : x = Inner(at) OBVIOUS
  <2>6. Strict(x) /\ x.tail = "nowhere" /\ Offers(c, x)
    <3>1. Strict(at) BY DEF Offers
    <3>2. Strict(x) /\ x.tail = "nowhere" BY <2>5, <3>1, StrictInner
    <3>3. QED BY <2>5, <3>2, OffersInner
  <2>7. PICK y : y = With(x, {"e"}) OBVIOUS
  <2>8. y \in Where /\ y.tail = "nowhere" BY <2>4, <2>6, <2>7, WithFacts DEF Strict
  <2>9. PICK es \in SUBSET Symbol : es = {"e"} BY <2>4
  <2>10. Entered(c, es, d) BY <2>4, <2>9
  <2>11. Offers(d, With(x, es)) BY <2>6, <2>10, OffersEntered
  <2>12. Offers(d, y) BY <2>7, <2>9, <2>11
  <2>13. DOMAIN f.catches = 1..Len(f.catches) BY FormFacts, LenProperties
  <2>14. WellFormed[f.catches[1]][y] BY <2>2, <2>5, <2>7, <2>13 DEF All
  <2>15. Takes(f.catches[1]) BY <2>2
  <2>16. Taken(r, y.tail) BY <2>1, <2>3, <2>4, <2>8, <2>12, <2>14, <2>15 DEF Takes
  <2>17. r.ok /\ ~r.nodes[1].recurs BY <2>8, <2>16 DEF Taken, Placed
  <2>18. IsResult(d, r) BY <2>1, <2>2, <2>3, <2>4, OneIs
  <2>19. PICK z : z = r.nodes[1] OBVIOUS
  <2>20. r.nodes = <<z>> BY <2>17, <2>18, <2>19 DEF IsResult
  <2>21. k.ok /\ k.nodes = <<z>> BY <2>2, <2>17, <2>20 DEF Returns
  <2>22. QED BY <2>17, <2>19, <2>21, NoneOfOne
<1>3. QED BY <1>1, <1>2

(* A well-formed finally is accepted.                                       *)
LEMMA FinallyTaken ==
  ASSUME NEW f \in Form, f.is = "try", \A i \in 1..Len(f.finally) : Takes(f.finally[i]),
         NEW c \in Context, NEW at, Offers(c, at), All(WellFormed, f.finally, Inner(at)),
         NEW e, e = FinallyOf(f, c)
  PROVE  e.ok /\ NoneRecurs(e.nodes)
<1>1. CASE f.finally = <<>>
  <2>1. e = Returns(c, <<>>) BY <1>1 DEF FinallyOf
  <2>2. e.ok /\ e.nodes = <<>> BY <2>1 DEF Returns
  <2>3. QED BY <2>2, NoneOfNothing
<1>2. CASE f.finally # <<>>
  <2>1. PICK r : r = AnalyzeBody(Analyze, f.finally, "statement", c) OBVIOUS
  <2>2. f.finally \in Seq(Form) /\ "statement" \in Position BY FormFacts DEF Position
  <2>3. PICK x : x = Inner(at) OBVIOUS
  <2>4. Offers(c, x) /\ x.tail = "nowhere" /\ Inner(x) = x
    <3>1. Strict(at) BY DEF Offers
    <3>2. x.tail = "nowhere" /\ Inner(x) = x BY <2>3, <3>1, StrictInner
    <3>3. QED BY <2>3, <3>2, OffersInner
  <2>5. Body(WellFormed, f.finally, x)
    <3>1. \A i \in DOMAIN f.finally : WellFormed[f.finally[i]][x] BY <2>3 DEF All
    <3>2. QED BY <2>4, <3>1 DEF Body
  <2>6. Taken(r, x.tail) BY <2>1, <2>2, <2>4, <2>5, BodyTaken
  <2>7. IsResult(c, r) BY <2>1, <2>2, BodyIs
  <2>8. PICK z : z = r.nodes[1] OBVIOUS
  <2>9. r.ok /\ ~z.recurs /\ r.nodes = <<z>>
    BY <2>4, <2>6, <2>7, <2>8 DEF Taken, Placed, IsResult
  <2>10. e = r BY <1>2, <2>1 DEF FinallyOf
  <2>11. QED BY <2>9, <2>10, NoneOfOne
<1>3. QED BY <1>1, <1>2

(* A well-formed try is accepted.                                           *)
LEMMA TryTaken ==
  ASSUME NEW f \in Form, f.is = "try", \A i \in 1..Len(f.args) : Takes(f.args[i]),
         \A i \in 1..Len(f.catches) : Takes(f.catches[i]),
         \A i \in 1..Len(f.finally) : Takes(f.finally[i]),
         NEW pos \in Position, NEW c \in Context, NEW at, Offers(c, at), WellFormed[f][at]
  PROVE  Taken(TryAst(Analyze, f, pos, c), at.tail)
<1>1. at \in Where BY DEF Offers, Strict
<1>2. /\ WellFormed[f.args[1]][at]
      /\ All(WellFormed, f.catches, With(Inner(at), {"e"}))
      /\ All(WellFormed, f.finally, Inner(at))
  BY <1>1, WellFormedCases
<1>3. PICK b : b = Analyze[f.args[1]][pos][c] OBVIOUS
<1>4. PICK k : k = CatchOf(f, pos, b.ctx) OBVIOUS
<1>5. PICK e : e = FinallyOf(f, k.ctx) OBVIOUS
<1>6. TryAst(Analyze, f, pos, c) =
        IF ~b.ok THEN b ELSE IF ~k.ok THEN k ELSE Makes(e, TryNode(f, pos, b, k, e))
  BY <1>3, <1>4, <1>5, Zenon DEF TryAst, CatchOf, FinallyOf, TryNode
<1>7. Len(f.args) = 1 /\ f.args \in Seq(Form) BY FormFacts DEF HasShape
<1>8. f.args[1] \in Form /\ Takes(f.args[1]) BY <1>7, ElementOfSeq
<1>9. Taken(b, at.tail) BY <1>1, <1>2, <1>3, <1>8 DEF Takes
<1>10. IsResult(c, b) BY <1>3, <1>8, OneIs
<1>11. PICK x : x = b.nodes[1] OBVIOUS
<1>12. b.ok /\ b.nodes = <<x>> /\ Placed(x, at.tail) /\ b.ctx \in Context /\ Undone(c, b.ctx)
  BY <1>9, <1>10, <1>11 DEF Taken, IsResult
<1>13. PICK d : d = b.ctx OBVIOUS
<1>14. d \in Context /\ Undone(c, d) /\ k = CatchOf(f, pos, d) BY <1>4, <1>12, <1>13
<1>15. Offers(d, at) BY <1>14, OffersUndone
<1>16. k.ok /\ NoneRecurs(k.nodes) BY <1>2, <1>14, <1>15, CatchTaken
<1>17. \A i \in 1..Len(f.catches) : Good(f.catches[i])
  BY FormFacts, ElementOfSeq, EveryFormGood
<1>18. IsOptional(d, f.catches, k) BY <1>14, <1>17, CatchResult
<1>19. PICK g : g = k.ctx OBVIOUS
<1>20. g \in Context /\ Undone(d, g) BY <1>16, <1>18, <1>19 DEF IsOptional
<1>21. Offers(g, at) BY <1>14, <1>15, <1>20, OffersUndone
<1>22. e = FinallyOf(f, g) BY <1>5, <1>19
<1>23. e.ok /\ NoneRecurs(e.nodes) BY <1>2, <1>20, <1>21, <1>22, FinallyTaken
<1>24. \A i \in 1..Len(f.finally) : Good(f.finally[i])
  BY FormFacts, ElementOfSeq, EveryFormGood
<1>25. IsOptional(g, f.finally, e) BY <1>20, <1>22, <1>24, FinallyResult
<1>26. PICK n : n = TryNode(f, pos, b, k, e) OBVIOUS
<1>27. IsTryOf(n, x, k.nodes, e.nodes)
  BY <1>12, <1>16, <1>18, <1>23, <1>25, <1>26, TryNodeFacts
<1>28. (n.recurs <=> x.recurs) /\ (n.tail <=> x.tail) BY <1>16, <1>23, <1>27 DEF IsTryOf
<1>29. Placed(n, at.tail) BY <1>12, <1>28 DEF Placed
<1>30. TryAst(Analyze, f, pos, c) = Returns(e.ctx, <<n>>)
  BY <1>6, <1>12, <1>16, <1>23, <1>26 DEF Makes
<1>31. Taken(Returns(e.ctx, <<n>>), at.tail) BY <1>29 DEF Taken, Returns
<1>32. QED BY <1>30, <1>31

(* What is made of arguments that are accepted.                             *)
LEMMA CallTaken ==
  ASSUME NEW f \in Form, NEW c \in Context, \A i \in 1..Len(f.args) : Takes(f.args[i]),
         NEW at, Offers(c, at), All(WellFormed, f.args, Inner(at)),
         NEW op \in {"invoke", "throw", "yield"}, NEW pos, NEW info
  PROVE  Taken(Makes(ArgsOf(f, c), Node(op, pos, ArgsOf(f, c).nodes, info)), at.tail)
<1>1. PICK a : a = ArgsOf(f, c) OBVIOUS
<1>2. a.ok /\ NoneRecurs(a.nodes) BY <1>1, ArgsTaken
<1>3. PICK n : n = Node(op, pos, a.nodes, info) OBVIOUS
<1>4. (n.recurs <=> Recurs(op, a.nodes)) /\ (n.tail <=> RecurIsTail(op, a.nodes))
  BY <1>3, NodeFacts
<1>5. ~Recurs(op, a.nodes) /\ RecurIsTail(op, a.nodes) BY <1>2 DEF Recurs, RecurIsTail
<1>6. Makes(a, n) = Returns(a.ctx, <<n>>) BY <1>2 DEF Makes
<1>7. Taken(Returns(a.ctx, <<n>>), at.tail) BY <1>4, <1>5 DEF Taken, Placed, Returns
<1>8. QED BY <1>1, <1>3, <1>6, <1>7

(* A well-formed recur is accepted.                                         *)
LEMMA RecurTaken ==
  ASSUME NEW f \in Form, f.is = "recur", \A i \in 1..Len(f.args) : Takes(f.args[i]),
         NEW pos \in Position, NEW c \in Context, NEW at, Offers(c, at), WellFormed[f][at]
  PROVE  Taken(RecurAst(Analyze, f, pos, c), at.tail)
<1>1. at \in Where /\ Strict(at) BY DEF Offers, Strict
<1>2. at.tail # "nowhere" /\ Len(f.args) = at.arity /\ All(WellFormed, f.args, Unchecked(at))
  BY <1>1, WellFormedCases
<1>3. at.tail = "last" BY <1>1, <1>2 DEF Strict
<1>4. c.points # <<>> /\ Last(c.points) = Len(f.args) BY <1>2, <1>3 DEF Offers
<1>5. Unchecked(at) = Inner(at) BY <1>1, StrictInner
<1>6. All(WellFormed, f.args, Inner(at)) BY <1>2, <1>5
<1>7. PICK a : a = ArgsOf(f, c) OBVIOUS
<1>8. a.ok BY <1>6, <1>7, ArgsTaken
<1>9. PICK info : info = [point |-> Len(c.points)] OBVIOUS
<1>10. PICK n : n = Node("recur", pos, a.nodes, info) OBVIOUS
<1>11. RecurAst(Analyze, f, pos, c) = Makes(a, n) BY <1>4, <1>7, <1>9, <1>10, RecurIs
<1>12. n.tail
  <2>1. n.tail <=> RecurIsTail("recur", a.nodes) BY <1>10, NodeFacts
  <2>2. QED BY <2>1 DEF RecurIsTail
<1>13. Makes(a, n) = Returns(a.ctx, <<n>>) BY <1>8 DEF Makes
<1>14. Taken(Returns(a.ctx, <<n>>), at.tail) BY <1>3, <1>12 DEF Taken, Placed, Returns
<1>15. QED BY <1>11, <1>13, <1>14

(* A well-formed yield is accepted.                                         *)
LEMMA YieldTaken ==
  ASSUME NEW f \in Form, f.is = "yield", \A i \in 1..Len(f.args) : Takes(f.args[i]),
         NEW pos \in Position, NEW c \in Context, NEW at, Offers(c, at), WellFormed[f][at]
  PROVE  Taken(YieldAst(Analyze, f, pos, c), at.tail)
<1>1. at \in Where BY DEF Offers, Strict
<1>2. at.fn /\ All(WellFormed, f.args, Inner(at)) BY <1>1, WellFormedCases
<1>3. c.functions # <<>> BY <1>2 DEF Offers
<1>4. PICK d : d = Marked(c) OBVIOUS
<1>5. d \in Context /\ Undone(c, d) BY <1>3, <1>4, MarkedFacts
<1>6. Offers(d, at) BY <1>5, OffersUndone
<1>7. Taken(Makes(ArgsOf(f, d), Node("yield", pos, ArgsOf(f, d).nodes, NoInfo)), at.tail)
  BY <1>2, <1>5, <1>6, CallTaken
<1>8. YieldAst(Analyze, f, pos, c) = Makes(ArgsOf(f, d), Node("yield", pos, ArgsOf(f, d).nodes, NoInfo))
  BY <1>3, <1>4, YieldIs
<1>9. QED BY <1>7, <1>8

(* Where what a macro gives is well formed, the macro is accepted.          *)
LEMMA MacroTaken ==
  ASSUME NEW f \in Form, f.is = "macro", \A i \in 1..Len(f.args) : Takes(f.args[i]),
         NEW pos \in Position, NEW c \in Context, NEW at, Offers(c, at), WellFormed[f][at]
  PROVE  Taken(MacroAst(Analyze, f, pos, c), at.tail)
<1>1. at \in Where BY DEF Offers, Strict
<1>2. WellFormed[f.args[1]][at] BY <1>1, WellFormedCases
<1>3. Len(f.args) = 1 BY FormFacts DEF HasShape
<1>4. Takes(f.args[1]) BY <1>3
<1>5. PICK a : a = Analyze[f.args[1]]["expression"][c] OBVIOUS
<1>6. "expression" \in Position BY DEF Position
<1>7. Taken(a, at.tail) BY <1>1, <1>2, <1>4, <1>5, <1>6 DEF Takes
<1>8. a.nodes[1].tail BY <1>7 DEF Taken, Placed
<1>9. MacroAst(Analyze, f, pos, c) = a BY <1>5, <1>8, MacroIs
<1>10. QED BY <1>7, <1>9

(* A well-formed if is accepted.                                            *)
LEMMA IfTaken ==
  ASSUME NEW f \in Form, f.is = "if", \A i \in 1..Len(f.args) : Takes(f.args[i]),
         NEW pos \in Position, NEW c \in Context, NEW at, Offers(c, at), WellFormed[f][at]
  PROVE  Taken(IfAst(Analyze, f, pos, c), at.tail)
<1>1. at \in Where BY DEF Offers, Strict
<1>2. WellFormed[f.args[1]][Inner(at)] /\ WellFormed[f.args[2]][at] /\ WellFormed[f.args[3]][at]
  BY <1>1, WellFormedCases
<1>3. PICK s : s = Branches(f, pos) OBVIOUS
<1>4. s \in Seq(Item) /\ Len(s) = 3 /\ \A i \in 1..3 : s[i].form = f.args[i] /\ s[i].binds = {}
  BY <1>3, BranchesList
<1>5. Len(f.args) = 3 BY FormFacts DEF HasShape
<1>6. \A i \in 1..Len(s) : Takes(s[i].form) BY <1>4, <1>5
<1>7. Plain(s) BY <1>4 DEF Plain
<1>8. PICK x : x = Inner(at) OBVIOUS
<1>9. Offers(c, x) /\ x.tail = "nowhere" /\ x \in Where
  <2>1. Strict(at) BY DEF Offers
  <2>2. Strict(x) /\ x.tail = "nowhere" BY <1>8, <2>1, StrictInner
  <2>3. Offers(c, x) BY <1>8, OffersInner
  <2>4. QED BY <2>2, <2>3 DEF Strict
<1>10. PICK w : w = [i \in 1..3 |-> IF i = 1 THEN x ELSE at] OBVIOUS
<1>11. w[1] = x /\ w[2] = at /\ w[3] = at BY <1>10
<1>12. \A i \in 1..3 : i = 1 \/ i = 2 \/ i = 3 OBVIOUS
<1>13. \A i \in 1..Len(s) : w[i] \in Where /\ WellFormed[s[i].form][w[i]]
  BY <1>1, <1>2, <1>4, <1>8, <1>9, <1>11, <1>12
<1>14. \A i \in 1..Len(s) : Offers(c, w[i]) BY <1>4, <1>9, <1>11, <1>12
<1>15. PICK a : a = AnalyzeAll(Analyze, s, c) OBVIOUS
<1>16. a.ok /\ \A i \in 1..Len(s) : Placed(a.nodes[i], w[i].tail)
  BY <1>4, <1>6, <1>7, <1>13, <1>14, <1>15, PlainTaken
<1>17. AllUpto(c, s, Len(s), a) BY <1>4, <1>7, <1>15, AnalyzeAllIs
<1>18. DOMAIN a.nodes = 1..3 BY <1>4, <1>16, <1>17, LenProperties DEF AllUpto
<1>19. Placed(a.nodes[1], "nowhere") /\ Placed(a.nodes[2], at.tail) /\ Placed(a.nodes[3], at.tail)
  BY <1>4, <1>9, <1>11, <1>16
<1>20. PICK n : n = Node("if", pos, a.nodes, NoInfo) OBVIOUS
<1>21. (n.recurs <=> Recurs("if", a.nodes)) /\ (n.tail <=> RecurIsTail("if", a.nodes))
  BY <1>20, NodeFacts
<1>22. n.recurs <=> ~NoneRecurs(a.nodes) BY <1>21 DEF Recurs
<1>23. n.tail <=> ~a.nodes[1].recurs /\ a.nodes[2].tail /\ a.nodes[3].tail
  BY <1>21, Zenon DEF RecurIsTail
<1>24. at.tail = "nowhere" => NoneRecurs(a.nodes) BY <1>12, <1>18, <1>19 DEF NoneRecurs, Placed
<1>25. Placed(n, at.tail) BY <1>19, <1>22, <1>23, <1>24 DEF Placed
<1>26. IfAst(Analyze, f, pos, c) = Makes(a, n) BY <1>3, <1>15, <1>20 DEF IfAst
<1>27. Makes(a, n) = Returns(a.ctx, <<n>>) BY <1>16 DEF Makes
<1>28. Taken(Returns(a.ctx, <<n>>), at.tail) BY <1>25 DEF Taken, Returns
<1>29. QED BY <1>26, <1>27, <1>28

(* A node with nothing below it has no recurs.                              *)
LEMMA LeafTaken ==
  ASSUME NEW c, NEW op \in {"const", "local"}, NEW pos, NEW info, NEW tail
  PROVE  Taken(Returns(c, <<Node(op, pos, <<>>, info)>>), tail)
<1>1. PICK n : n = Node(op, pos, <<>>, info) OBVIOUS
<1>2. (n.recurs <=> Recurs(op, <<>>)) /\ (n.tail <=> RecurIsTail(op, <<>>)) BY <1>1, NodeFacts
<1>3. NoneRecurs(<<>>) BY NoneOfNothing
<1>4. ~n.recurs /\ n.tail BY <1>2, <1>3 DEF Recurs, RecurIsTail
<1>5. QED BY <1>1, <1>4 DEF Taken, Placed, Returns

(* A symbol in scope is found.                                              *)
LEMMA SymbolTaken ==
  ASSUME NEW f \in Form, f.is = "symbol",
         NEW pos \in Position, NEW c \in Context, NEW at, Offers(c, at), WellFormed[f][at]
  PROVE  Taken(SymbolNode(f, pos, c), at.tail)
<1>1. at \in Where BY DEF Offers, Strict
<1>2. f.name \in at.scope BY <1>1, WellFormedCases
<1>3. f.name \in Bound(c, 0) BY <1>2 DEF Offers
<1>4. 0 \in 0..Len(c.frames) BY ContextFacts
<1>5. \E k \in FindSymbol(c, f.name) : k > 0 BY <1>3, <1>4, BoundFacts
<1>6. FindSymbol(c, f.name) # {} BY <1>5
<1>7. PICK info : info = [name |-> f.name, frame |-> Max(FindSymbol(c, f.name))] OBVIOUS
<1>8. SymbolNode(f, pos, c) = Returns(c, <<Node("local", pos, <<>>, info)>>)
  BY <1>6, <1>7 DEF SymbolNode
<1>9. Taken(Returns(c, <<Node("local", pos, <<>>, info)>>), at.tail) BY LeafTaken
<1>10. QED BY <1>8, <1>9

(* A form is accepted wherever it is well formed, whatever errors have left  *)
(* in the context.                                                          *)
THEOREM EveryFormTaken == \A f \in Form : Takes(f)
<1> DEFINE S == {f \in Form : Takes(f)}
<1>1. ASSUME NEW f \in Form, Parts(f) \subseteq S PROVE f \in S
  <2> SUFFICES ASSUME NEW at \in Where, NEW c \in Context, NEW pos \in Position,
                      Offers(c, at), WellFormed[f][at]
               PROVE  Taken(AnalyzeOne(Analyze, f, pos, c), at.tail)
    BY AnalyzeIs DEF Takes
  <2>1. /\ \A i \in 1..Len(f.args) : f.args[i] \in S
        /\ f.is \in {"let*", "loop*"} => \A i \in 1..Len(BodyOf(f)) : BodyOf(f)[i] \in S
        /\ f.is = "fn*" => \A i \in 1..Len(f.body) : f.body[i] \in S
        /\ f.is = "try" => /\ \A i \in 1..Len(f.catches) : f.catches[i] \in S
                           /\ \A i \in 1..Len(f.finally) : f.finally[i] \in S
    <3> HIDE DEF S
    <3>1. QED BY <1>1, PartsAre
  <2>2. /\ \A i \in 1..Len(f.args) : Takes(f.args[i])
        /\ f.is \in {"let*", "loop*"} => \A i \in 1..Len(BodyOf(f)) : Takes(BodyOf(f)[i])
        /\ f.is = "fn*" => \A i \in 1..Len(f.body) : Takes(f.body[i])
        /\ f.is = "try" => /\ \A i \in 1..Len(f.catches) : Takes(f.catches[i])
                           /\ \A i \in 1..Len(f.finally) : Takes(f.finally[i])
    BY <2>1
  <2> HIDE DEF S
  <2>3. f.args \in Seq(Form) BY FormFacts
  <2>4. CASE f.is = "const"
    <3>1. PICK info : info = [val |-> f.val] OBVIOUS
    <3>2. Taken(Returns(c, <<Node("const", pos, <<>>, info)>>), at.tail) BY LeafTaken
    <3>3. QED BY <2>4, <3>1, <3>2 DEF AnalyzeOne, ConstNode
  <2>5. f.is # "malformed" BY WellFormedCases
  <2>6. CASE f.is = "symbol"
    <3>1. Taken(SymbolNode(f, pos, c), at.tail) BY <2>6, SymbolTaken
    <3>2. QED BY <2>6, <3>1 DEF AnalyzeOne
  <2>7. CASE f.is = "invoke"
    <3>1. All(WellFormed, f.args, Inner(at)) BY <2>7, WellFormedCases
    <3>2. Taken(Makes(ArgsOf(f, c), Node("invoke", pos, ArgsOf(f, c).nodes, [name |-> f.name])), at.tail)
      BY <2>2, <3>1, CallTaken
    <3>3. Taken(InvokeAst(Analyze, f, pos, c), at.tail) BY <3>2, CallsAre
    <3>4. QED BY <2>7, <3>3 DEF AnalyzeOne
  <2>8. CASE f.is = "do"
    <3>1. Body(WellFormed, f.args, at) BY <2>8, WellFormedCases
    <3>2. Taken(AnalyzeBody(Analyze, f.args, pos, c), at.tail) BY <2>2, <2>3, <3>1, BodyTaken
    <3>3. QED BY <2>8, <3>2 DEF AnalyzeOne
  <2>9. CASE f.is = "if"
    <3>1. Taken(IfAst(Analyze, f, pos, c), at.tail) BY <2>2, <2>9, IfTaken
    <3>2. QED BY <2>9, <3>1 DEF AnalyzeOne
  <2>10. CASE f.is = "let*"
    <3>1. Taken(LetAst(Analyze, f, pos, c), at.tail) BY <2>2, <2>10, LetTaken
    <3>2. QED BY <2>10, <3>1 DEF AnalyzeOne
  <2>11. CASE f.is = "loop*"
    <3>1. Taken(LoopAst(Analyze, f, pos, c), at.tail) BY <2>2, <2>11, LoopTaken
    <3>2. QED BY <2>11, <3>1 DEF AnalyzeOne
  <2>12. CASE f.is = "fn*"
    <3>1. Taken(FnAst(Analyze, f, pos, c), at.tail) BY <2>2, <2>12, FnTaken
    <3>2. QED BY <2>12, <3>1 DEF AnalyzeOne
  <2>13. CASE f.is = "try"
    <3>1. Taken(TryAst(Analyze, f, pos, c), at.tail) BY <2>2, <2>13, TryTaken
    <3>2. QED BY <2>13, <3>1 DEF AnalyzeOne
  <2>14. CASE f.is = "throw"
    <3>1. All(WellFormed, f.args, Inner(at)) BY <2>14, WellFormedCases
    <3>2. Taken(Makes(ArgsOf(f, c), Node("throw", pos, ArgsOf(f, c).nodes, NoInfo)), at.tail)
      BY <2>2, <3>1, CallTaken
    <3>3. Taken(ThrowAst(Analyze, f, pos, c), at.tail) BY <3>2, CallsAre
    <3>4. QED BY <2>14, <3>3 DEF AnalyzeOne
  <2>15. CASE f.is = "recur"
    <3>1. Taken(RecurAst(Analyze, f, pos, c), at.tail) BY <2>2, <2>15, RecurTaken
    <3>2. QED BY <2>15, <3>1 DEF AnalyzeOne
  <2>16. CASE f.is = "yield"
    <3>1. Taken(YieldAst(Analyze, f, pos, c), at.tail) BY <2>2, <2>16, YieldTaken
    <3>2. QED BY <2>16, <3>1 DEF AnalyzeOne
  <2>17. CASE f.is = "macro"
    <3>1. Taken(MacroAst(Analyze, f, pos, c), at.tail) BY <2>2, <2>17, MacroTaken
    <3>2. QED BY <2>17, <3>1 DEF AnalyzeOne
  <2>18. QED
    BY <2>4, <2>5, <2>6, <2>7, <2>8, <2>9, <2>10, <2>11, <2>12, <2>13, <2>14, <2>15, <2>16, <2>17,
       FormFacts
<1>2. Form \subseteq S
  <2> HIDE DEF S
  <2>1. QED BY <1>1, FormInduction
<1>3. QED BY <1>2

----------------------------------------------------------------------------
(* What is accepted and refers to nothing that errors have left behind is    *)
(* well formed.                                                             *)

Tails == {"last", "nowhere", "anywhere"}

InnerTail(tail) == IF tail = "last" THEN "nowhere" ELSE tail

(* The place of a form in a context, where b frames and p recursion points   *)
(* are left behind.                                                         *)
ArityIn(c, p) == IF Len(c.points) > p THEN Last(c.points) ELSE -1

Place(c, b, p, tail) ==
  [scope |-> Bound(c, b), tail |-> tail, arity |-> ArityIn(c, p), fn |-> c.functions # <<>>,
   lenient |-> TRUE]

Base(c, b, p) == b \in 0..Len(c.frames) /\ p \in 0..Len(c.points)

(* A node refers to nothing that is left behind; its recurs are where those  *)
(* of a form at such a place may be.                                        *)
Clear(n, b, p) == n.frames \cap (1..b) = {} /\ n.points \cap (1..p) = {}

Allows(n, tail) == (tail = "last" => n.tail) /\ (tail = "nowhere" => ~n.recurs)

Stands(n, c, b, p, tail) == Clear(n, b, p) /\ (Len(c.points) > p => Allows(n, tail))

(* An accepted form is well formed where its node stands.                   *)
ShowsAt(f, c, r) ==
  r.ok => \A b \in Nat : \A p \in Nat : \A tail \in Tails :
            Base(c, b, p) /\ Stands(r.nodes[1], c, b, p, tail) => WellFormed[f][Place(c, b, p, tail)]

Shows(f) == \A pos \in Position : \A c \in Context : ShowsAt(f, c, Analyze[f][pos][c])

Below(m, n) == m.frames \subseteq n.frames /\ m.points \subseteq n.points

(* What a node refers to, the nodes above it refer to.                      *)
LEMMA ClearBelow ==
  ASSUME NEW m, NEW n, NEW b, NEW p, Clear(n, b, p), Below(m, n)
  PROVE  Clear(m, b, p)
BY DEF Clear, Below

(* A place is what its fields say.                                          *)
IsPlace(x, c, b, p, tail) ==
  /\ x \in Where /\ x.scope = Bound(c, b) /\ x.tail = tail /\ x.arity = ArityIn(c, p)
  /\ x.fn <=> c.functions # <<>>
  /\ x.lenient

(* The place of a form is a place, with these fields.                       *)
LEMMA PlaceFacts ==
  ASSUME NEW c \in Context, NEW b, NEW p, Base(c, b, p), NEW tail \in Tails
  PROVE  IsPlace(Place(c, b, p, tail), c, b, p, tail)
<1>1. PICK s : s = Bound(c, b) OBVIOUS
<1>2. b \in 0..Len(c.frames) /\ p \in 0..Len(c.points) BY DEF Base
<1>3. s \in SUBSET Symbol BY <1>1, <1>2, BoundFacts
<1>4. PICK a : a = ArityIn(c, p) OBVIOUS
<1>5. a \in Int
  <2>1. CASE Len(c.points) > p
    <3>1. c.points \in Seq(Nat) /\ Len(c.points) \in Nat BY ContextFacts, LenProperties
    <3>2. c.points # <<>> BY <1>2, <2>1, <3>1, EmptySeq
    <3>3. Last(c.points) \in Nat
      <4>1. PICK t \in Seq(Nat) : t = c.points BY <3>1
      <4>2. Len(t) \in 1..Len(t) BY <3>2, <4>1, EmptySeq
      <4>3. t[Len(t)] \in Nat BY <4>1, <4>2, ElementOfSeq
      <4>4. Last(t) = t[Len(t)] BY DEF Last
      <4>5. QED BY <4>1, <4>3, <4>4
    <3>4. QED BY <1>4, <2>1, <3>3 DEF ArityIn
  <2>2. CASE ~(Len(c.points) > p) BY <1>4, <2>2 DEF ArityIn
  <2>3. QED BY <2>1, <2>2
<1>6. PICK h \in BOOLEAN : h = (c.functions # <<>>) OBVIOUS
<1>7. PICK yes \in BOOLEAN : yes = TRUE OBVIOUS
<1>8. PICK x : x = Place(c, b, p, tail) OBVIOUS
<1>9. x = [scope |-> s, tail |-> tail, arity |-> a, fn |-> h, lenient |-> yes]
  BY <1>1, <1>4, <1>6, <1>7, <1>8, Zenon DEF Place
<1>10. tail \in {"last", "nowhere", "anywhere"} BY DEF Tails
<1>11. x \in Where /\ x.scope = s /\ x.tail = tail /\ x.arity = a /\ x.fn = h /\ x.lenient = yes
  BY <1>3, <1>5, <1>9, <1>10, WhereMade
<1>12. IsPlace(x, c, b, p, tail) BY <1>1, <1>4, <1>6, <1>7, <1>11 DEF IsPlace
<1>13. QED BY <1>8, <1>12

(* A place with these fields is the place of the form.                      *)
LEMMA PlaceIs ==
  ASSUME NEW c \in Context, NEW b, NEW p, Base(c, b, p), NEW tail \in Tails,
         NEW x, IsPlace(x, c, b, p, tail)
  PROVE  x = Place(c, b, p, tail)
<1>1. PICK y : y = Place(c, b, p, tail) OBVIOUS
<1>2. IsPlace(y, c, b, p, tail) BY <1>1, PlaceFacts
<1>3. x \in Where /\ y \in Where /\ x.scope = y.scope /\ x.tail = y.tail /\ x.arity = y.arity
        /\ (x.fn <=> y.fn) /\ (x.lenient <=> y.lenient)
  BY <1>2 DEF IsPlace
<1>4. x.fn = y.fn /\ x.lenient = y.lenient BY <1>3, WhereFacts
<1>5. x = y BY <1>3, <1>4, SameWhere
<1>6. QED BY <1>1, <1>5

(* The places of the parts of a form.                                       *)
LEMMA PlaceInner ==
  ASSUME NEW c \in Context, NEW b, NEW p, Base(c, b, p), NEW tail \in Tails,
         NEW at, at = Place(c, b, p, tail)
  PROVE  /\ InnerTail(tail) \in Tails /\ Inner(at) = Place(c, b, p, InnerTail(tail))
         /\ Unchecked(at) = Place(c, b, p, "anywhere")
         /\ AsLast(at) = Place(c, b, p, "last")
         /\ LoopInits(at) = Place(c, b, p, IF tail = "last" THEN "nowhere" ELSE "anywhere")
<1>1. /\ at \in Where /\ at.scope = Bound(c, b) /\ at.tail = tail /\ at.arity = ArityIn(c, p)
      /\ at.fn <=> c.functions # <<>>
      /\ at.lenient
  <2>1. IsPlace(at, c, b, p, tail) BY PlaceFacts
  <2>2. QED BY <2>1 DEF IsPlace
<1>2. InnerTail(tail) \in Tails /\ "anywhere" \in Tails /\ "last" \in Tails BY DEF Tails, InnerTail
<1>3. PICK t \in Tails : t = InnerTail(tail) BY <1>2
<1>4. PICK x : x = Inner(at) OBVIOUS
<1>5. x \in Where /\ x.scope = at.scope /\ x.arity = at.arity /\ x.fn = at.fn
        /\ x.lenient = at.lenient /\ x.tail = t
  BY <1>1, <1>3, <1>4, InnerFacts DEF InnerTail
<1>6. x = Place(c, b, p, t)
  <2>1. IsPlace(x, c, b, p, t) BY <1>1, <1>5 DEF IsPlace
  <2>2. QED BY <2>1, PlaceIs
<1>7. PICK y : y = Unchecked(at) OBVIOUS
<1>8. y \in Where /\ y.scope = at.scope /\ y.arity = at.arity /\ y.fn = at.fn
        /\ y.lenient = at.lenient /\ y.tail = "anywhere"
  BY <1>1, <1>7, UncheckedFacts
<1>9. y = Place(c, b, p, "anywhere")
  <2>1. IsPlace(y, c, b, p, "anywhere") BY <1>1, <1>8 DEF IsPlace
  <2>2. QED BY <1>2, <2>1, PlaceIs
<1>10. PICK z : z = AsLast(at) OBVIOUS
<1>11. z \in Where /\ z.scope = at.scope /\ z.arity = at.arity /\ z.fn = at.fn
        /\ z.lenient = at.lenient /\ z.tail = "last"
  BY <1>1, <1>10, AsLastFacts
<1>12. z = Place(c, b, p, "last")
  <2>1. IsPlace(z, c, b, p, "last") BY <1>1, <1>11 DEF IsPlace
  <2>2. QED BY <1>2, <2>1, PlaceIs
<1>13. LoopInits(at) = IF tail = "last" THEN x ELSE y BY <1>1, <1>4, <1>7 DEF LoopInits
<1>14. CASE tail = "last"
  <2>1. LoopInits(at) = Place(c, b, p, "nowhere") BY <1>3, <1>6, <1>13, <1>14 DEF InnerTail
  <2>2. QED BY <1>3, <1>4, <1>6, <1>7, <1>9, <1>10, <1>12, <1>14, <2>1
<1>15. CASE tail # "last"
  <2>1. LoopInits(at) = Place(c, b, p, "anywhere") BY <1>9, <1>13, <1>15
  <2>2. QED BY <1>3, <1>4, <1>6, <1>7, <1>9, <1>10, <1>12, <1>15, <2>1
<1>16. QED BY <1>14, <1>15

(* The place is the same where what was pushed is popped, and with the names *)
(* of a frame that is entered.                                              *)
LEMMA PlaceSame ==
  ASSUME NEW c \in Context, NEW d \in Context, Undone(c, d), NEW b, NEW p, Base(c, b, p)
  PROVE  /\ Base(d, b, p) /\ Len(d.points) = Len(c.points)
         /\ \A tail : Place(d, b, p, tail) = Place(c, b, p, tail)
<1>1. d.frames = c.frames /\ d.points = c.points /\ Flagged(c.functions, d.functions) BY DEF Undone
<1>2. c.functions \in Seq(BOOLEAN) /\ d.functions \in Seq(BOOLEAN) BY ContextFacts
<1>3. (c.functions = <<>>) = (d.functions = <<>>) BY <1>1, <1>2, FlaggedEmpty
<1>4. Bound(d, b) = Bound(c, b) BY <1>1, BoundSame
<1>5. ArityIn(d, p) = ArityIn(c, p) BY <1>1 DEF ArityIn
<1>6. (d.functions # <<>>) = (c.functions # <<>>) BY <1>3
<1>7. \A tail : Place(d, b, p, tail) = Place(c, b, p, tail) BY <1>4, <1>5, <1>6, Zenon DEF Place
<1>8. QED BY <1>1, <1>7 DEF Base

(* A frame that is entered adds its names to the place.                     *)
LEMMA PlaceEntered ==
  ASSUME NEW c \in Context, NEW xs \in SUBSET Symbol, NEW d, Entered(c, xs, d),
         NEW b, NEW p, Base(c, b, p), NEW tail \in Tails
  PROVE  /\ d \in Context /\ Base(d, b, p) /\ d.points = c.points
         /\ Place(d, b, p, tail) = With(Place(c, b, p, tail), xs)
<1>1. d \in Context /\ d.points = c.points /\ Flagged(c.functions, d.functions) BY DEF Entered
<1>2. c.functions \in Seq(BOOLEAN) /\ d.functions \in Seq(BOOLEAN) BY <1>1, ContextFacts
<1>3. (c.functions = <<>>) = (d.functions = <<>>) BY <1>1, <1>2, FlaggedEmpty
<1>4. b \in 0..Len(c.frames) BY DEF Base
<1>5. Len(d.frames) = Len(c.frames) + 1 /\ Bound(d, b) = Bound(c, b) \cup xs
  <2>1. PICK k \in 0..Len(c.frames) : k = b BY <1>4
  <2>2. Len(d.frames) = Len(c.frames) + 1 /\ Bound(d, k) = Bound(c, k) \cup xs BY BoundEntered
  <2>3. QED BY <2>1, <2>2
<1>6. Len(c.frames) \in Nat BY ContextFacts
<1>7. Base(d, b, p) BY <1>1, <1>4, <1>5, <1>6 DEF Base
<1>8. PICK at : at = Place(c, b, p, tail) OBVIOUS
<1>9. /\ at \in Where /\ at.scope = Bound(c, b) /\ at.tail = tail /\ at.arity = ArityIn(c, p)
      /\ at.fn <=> c.functions # <<>>
      /\ at.lenient
  <2>1. IsPlace(at, c, b, p, tail) BY <1>8, PlaceFacts
  <2>2. QED BY <2>1 DEF IsPlace
<1>10. PICK x : x = With(at, xs) OBVIOUS
<1>11. x \in Where /\ x.scope = at.scope \cup xs /\ x.arity = at.arity /\ x.fn = at.fn
         /\ x.lenient = at.lenient /\ x.tail = at.tail
  BY <1>9, <1>10, WithFacts
<1>12. ArityIn(d, p) = ArityIn(c, p) BY <1>1 DEF ArityIn
<1>13. x.fn <=> d.functions # <<>> BY <1>3, <1>9, <1>11
<1>14. x = Place(d, b, p, tail)
  <2>1. IsPlace(x, d, b, p, tail) BY <1>5, <1>9, <1>11, <1>12, <1>13 DEF IsPlace
  <2>2. QED BY <1>1, <1>7, <2>1, PlaceIs
<1>15. QED BY <1>1, <1>7, <1>8, <1>10, <1>14

(* A recursion point, and a function.                                       *)
LEMMA PlacePoint ==
  ASSUME NEW c \in Context, NEW b, NEW p, Base(c, b, p), NEW at \in Where, NEW tail \in Tails,
         NEW xs, Len(xs) \in Nat, ToSet(xs) \in SUBSET Symbol,
         With(at, ToSet(xs)) = Place(c, b, p, tail),
         NEW d, d = NewRecurPoint(c, Len(xs))
  PROVE  /\ d \in Context /\ Base(d, b, p) /\ Place(d, b, p, "last") = Point(at, xs)
<1>1. PICK y : y = With(at, ToSet(xs)) OBVIOUS
<1>2. y.scope = at.scope \cup ToSet(xs) /\ y.fn = at.fn /\ y.lenient = at.lenient
  BY <1>1, WithFacts
<1>3. y.scope = Bound(c, b) /\ (y.fn <=> c.functions # <<>>) /\ y.lenient
  <2>1. y = Place(c, b, p, tail) BY <1>1
  <2>2. IsPlace(y, c, b, p, tail) BY <2>1, PlaceFacts
  <2>3. QED BY <2>2 DEF IsPlace
<1>4. PICK z : z = Point(at, xs) OBVIOUS
<1>5. z \in Where /\ z.scope = at.scope \cup ToSet(xs) /\ z.arity = Len(xs) /\ z.fn = at.fn
        /\ z.lenient = at.lenient /\ z.tail = "last"
  BY <1>4, PointFacts
<1>6. d \in Context /\ d.frames = c.frames /\ d.points = Append(c.points, Len(xs))
        /\ d.functions = c.functions
  BY PushPoint
<1>7. c.points \in Seq(Nat) BY ContextFacts
<1>8. PICK k \in Nat : k = Len(c.points) BY <1>7, LenProperties
<1>9. Len(d.points) = k + 1 /\ Last(d.points) = Len(xs)
  BY <1>6, <1>7, <1>8, AppendProperties, FrontOfAppend
<1>10. b \in 0..Len(c.frames) /\ p \in 0..k BY <1>8 DEF Base
<1>11. Base(d, b, p) BY <1>6, <1>8, <1>9, <1>10 DEF Base
<1>12. ArityIn(d, p) = Len(xs)
  <2>1. Len(d.points) > p BY <1>8, <1>9, <1>10
  <2>2. QED BY <1>9, <2>1 DEF ArityIn
<1>13. Bound(d, b) = Bound(c, b) BY <1>6, BoundSame
<1>14. z.fn <=> d.functions # <<>> BY <1>2, <1>3, <1>5, <1>6
<1>15. z.scope = Bound(d, b) /\ z.lenient BY <1>2, <1>3, <1>5, <1>13
<1>16. "last" \in Tails BY DEF Tails
<1>17. z = Place(d, b, p, "last")
  <2>1. IsPlace(z, d, b, p, "last") BY <1>5, <1>12, <1>14, <1>15 DEF IsPlace
  <2>2. QED BY <1>6, <1>11, <1>16, <2>1, PlaceIs
<1>18. QED BY <1>4, <1>6, <1>11, <1>17

(* The place of a function's body.                                          *)
LEMMA PlaceFn ==
  ASSUME NEW f \in Form, f.is = "fn*", NEW c \in Context, NEW b, NEW p, Base(c, b, p),
         NEW tail \in Tails
  PROVE  /\ FnCtx(f, c) \in Context /\ Base(FnCtx(f, c), b, p)
         /\ Place(FnCtx(f, c), b, p, "last") = FnAt(f, Place(c, b, p, tail))
<1>1. PICK at : at = Place(c, b, p, tail) OBVIOUS
<1>2. at \in Where /\ at.scope = Bound(c, b) /\ at.lenient
  <2>1. IsPlace(at, c, b, p, tail) BY <1>1, PlaceFacts
  <2>2. QED BY <2>1 DEF IsPlace
<1>3. PICK z : z = FnAt(f, at) OBVIOUS
<1>4. z \in Where /\ z.scope = at.scope \cup ToSet(f.names) /\ z.arity = Len(f.names)
        /\ z.fn = TRUE /\ z.lenient = at.lenient /\ z.tail = "last"
  BY <1>2, <1>3, FnAtFacts
<1>5. PICK d : d = FnCtx(f, c) OBVIOUS
<1>6. b \in 0..Len(c.frames) /\ p \in 0..Len(c.points) BY DEF Base
<1>7. d \in Context /\ Len(d.frames) = Len(c.frames) + 2
        /\ d.points = Append(c.points, Len(f.names)) /\ d.functions # <<>>
  BY <1>5, FnCtxFacts
<1>8. Bound(d, b) = Bound(c, b) \cup ToSet(f.names) BY <1>5, <1>6, FnCtxFacts
<1>9. c.points \in Seq(Nat) /\ Len(f.names) \in Nat /\ Len(c.frames) \in Nat
  BY ContextFacts, NamesAreSymbols
<1>10. PICK k \in Nat : k = Len(c.points) BY <1>9, LenProperties
<1>11. Len(d.points) = k + 1 /\ Last(d.points) = Len(f.names)
  BY <1>7, <1>9, <1>10, AppendProperties, FrontOfAppend
<1>12. Base(d, b, p) BY <1>6, <1>7, <1>9, <1>10, <1>11 DEF Base
<1>13. ArityIn(d, p) = Len(f.names)
  <2>1. Len(d.points) > p BY <1>6, <1>10, <1>11
  <2>2. QED BY <1>11, <2>1 DEF ArityIn
<1>14. z.fn <=> d.functions # <<>> BY <1>4, <1>7
<1>15. z.scope = Bound(d, b) /\ z.lenient BY <1>2, <1>4, <1>8
<1>16. "last" \in Tails BY DEF Tails
<1>17. z = Place(d, b, p, "last")
  <2>1. IsPlace(z, d, b, p, "last") BY <1>4, <1>13, <1>14, <1>15 DEF IsPlace
  <2>2. QED BY <1>7, <1>12, <1>16, <2>1, PlaceIs
<1>18. QED BY <1>1, <1>3, <1>5, <1>7, <1>12, <1>17

(* What the nodes below a node refer to, the node refers to.                *)
LEMMA NodeBelow ==
  ASSUME NEW op, NEW pos, NEW args, NEW info, NEW n, n = Node(op, pos, args, info)
  PROVE  \A i \in DOMAIN args : Below(args[i], n)
<1>1. \A i \in DOMAIN args : args[i].frames \subseteq n.frames BY NodeFacts
<1>2. \A i \in DOMAIN args : args[i].points \subseteq n.points BY NodeFacts
<1>3. QED BY <1>1, <1>2 DEF Below

(* Forms that are accepted one after the other.                             *)
LEMMA ItemShows ==
  ASSUME NEW c \in Context, NEW items \in Seq(Item), Plain(items) \/ Len(c.frames) > 1,
         NEW a, a = AnalyzeAll(Analyze, items, c), a.ok,
         NEW i \in 1..Len(items), Shows(items[i].form),
         NEW b \in Nat, NEW p \in Nat, NEW tail \in Tails, NEW at,
         \A d : InFrom(c, items, i, d) => Base(d, b, p) /\ Place(d, b, p, tail) = at,
         Stands(a.nodes[i], c, b, p, tail)
  PROVE  WellFormed[items[i].form][at]
<1>1. AllUpto(c, items, Len(items), a) BY AnalyzeAllIs
<1>2. Made(c, items, i, a.nodes[i]) BY <1>1 DEF AllUpto
<1>3. PICK d \in Context : InFrom(c, items, i, d) /\ ResultOf(items, i, d).ok
                             /\ a.nodes[i] = ResultOf(items, i, d).nodes[1]
  BY <1>2 DEF Made
<1>4. PICK r : r = ResultOf(items, i, d) OBVIOUS
<1>5. items[i].pos \in Position BY ItemFacts
<1>6. r = Analyze[items[i].form][items[i].pos][d] BY <1>4 DEF ResultOf
<1>7. ShowsAt(items[i].form, d, r) BY <1>5, <1>6 DEF Shows
<1>8. d.points = c.points BY <1>3 DEF InFrom
<1>9. Stands(r.nodes[1], d, b, p, tail) BY <1>3, <1>4, <1>8 DEF Stands
<1>10. Base(d, b, p) /\ Place(d, b, p, tail) = at BY <1>3
<1>11. r.ok BY <1>3, <1>4
<1>12. WellFormed[items[i].form][Place(d, b, p, tail)] BY <1>7, <1>9, <1>10, <1>11 DEF ShowsAt
<1>13. QED BY <1>10, <1>12

(* Accepted forms, none of which binds anything, are well formed each where *)
(* its node stands.                                                         *)
LEMMA PlainShows ==
  ASSUME NEW c \in Context, NEW items \in Seq(Item), Plain(items),
         NEW a, a = AnalyzeAll(Analyze, items, c), a.ok,
         NEW i \in 1..Len(items), Shows(items[i].form),
         NEW b \in Nat, NEW p \in Nat, Base(c, b, p), NEW tail \in Tails,
         Stands(a.nodes[i], c, b, p, tail)
  PROVE  WellFormed[items[i].form][Place(c, b, p, tail)]
<1>1. PICK at : at = Place(c, b, p, tail) OBVIOUS
<1>2. ASSUME NEW d, InFrom(c, items, i, d) PROVE Base(d, b, p) /\ Place(d, b, p, tail) = at
  <2>1. PICK k \in Nat : k = Len(items) BY LenProperties
  <2>2. i \in 1..(Len(items) + 1) BY <2>1
  <2>3. d \in Context /\ Undone(c, d) BY <1>2, <2>2, PlainUndone
  <2>4. Base(d, b, p) /\ \A t : Place(d, b, p, t) = Place(c, b, p, t) BY <2>3, PlaceSame
  <2>5. QED BY <1>1, <2>4
<1>3. \A d : InFrom(c, items, i, d) => Base(d, b, p) /\ Place(d, b, p, tail) = at BY <1>2
<1>4. WellFormed[items[i].form][at] BY <1>3, ItemShows
<1>5. QED BY <1>1, <1>4

(* Where recurs are not looked for, there are none.                         *)
LEMMA ArgsShow ==
  ASSUME NEW f \in Form, NEW c \in Context, \A i \in 1..Len(f.args) : Shows(f.args[i]),
         NEW a, a = ArgsOf(f, c), a.ok,
         NEW b \in Nat, NEW p \in Nat, Base(c, b, p), NEW tail \in Tails, tail # "last",
         NEW n, Clear(n, b, p), \A i \in DOMAIN a.nodes : Below(a.nodes[i], n),
         Len(c.points) > p /\ tail = "nowhere" => NoneRecurs(a.nodes)
  PROVE  All(WellFormed, f.args, Place(c, b, p, tail))
<1>1. PICK s : s = Expressions(f.args) OBVIOUS
<1>2. f.args \in Seq(Form) BY FormFacts
<1>3. s \in Seq(Item) /\ Len(s) = Len(f.args) /\ \A i \in 1..Len(f.args) : s[i].form = f.args[i]
  BY <1>1, <1>2, ExpressionsList
<1>4. Plain(s) BY <1>1, <1>2, ExpressionsPlain
<1>5. a = AnalyzeAll(Analyze, s, c) BY <1>1 DEF ArgsOf
<1>6. DOMAIN a.nodes = 1..Len(f.args) BY ArgsAre
<1>7. PICK at : at = Place(c, b, p, tail) OBVIOUS
<1>8. ASSUME NEW i \in 1..Len(s) PROVE WellFormed[s[i].form][at]
  <2>1. i \in DOMAIN a.nodes /\ i \in 1..Len(f.args) BY <1>3, <1>6
  <2>2. Clear(a.nodes[i], b, p)
    <3>1. PICK m : m = a.nodes[i] OBVIOUS
    <3>2. Below(m, n) BY <2>1, <3>1
    <3>3. Clear(m, b, p) BY <3>2, ClearBelow
    <3>4. QED BY <3>1, <3>3
  <2>3. Len(c.points) > p => Allows(a.nodes[i], tail) BY <2>1 DEF NoneRecurs, Allows
  <2>4. Stands(a.nodes[i], c, b, p, tail) BY <2>2, <2>3 DEF Stands
  <2>5. Shows(s[i].form) BY <1>3, <2>1
  <2>6. WellFormed[s[i].form][Place(c, b, p, tail)] BY <1>3, <1>4, <1>5, <2>4, <2>5, PlainShows
  <2>7. QED BY <1>7, <2>6
<1>9. DOMAIN f.args = 1..Len(s) BY <1>2, <1>3, LenProperties
<1>10. All(WellFormed, f.args, at) BY <1>3, <1>8, <1>9 DEF All
<1>11. QED BY <1>7, <1>10

(* An accepted body is well formed.                                         *)
LEMMA BodyShows ==
  ASSUME NEW fs \in Seq(Form), \A i \in 1..Len(fs) : Shows(fs[i]), NEW pos \in Position,
         NEW c \in Context, NEW r, r = AnalyzeBody(Analyze, fs, pos, c), r.ok,
         NEW b \in Nat, NEW p \in Nat, Base(c, b, p), NEW tail \in Tails,
         Stands(r.nodes[1], c, b, p, tail)
  PROVE  Body(WellFormed, fs, Place(c, b, p, tail))
<1>1. PICK at : at = Place(c, b, p, tail) OBVIOUS
<1>2. PICK k \in Nat : k = Len(fs) /\ DOMAIN fs = 1..k BY LenProperties
<1>3. CASE fs = <<>>
  <2>1. DOMAIN fs = {} BY <1>3
  <2>2. Body(WellFormed, fs, at) BY <2>1 DEF Body
  <2>3. QED BY <1>1, <2>2
<1>4. CASE fs # <<>>
  <2>1. PICK s : s = Statements(fs, pos) OBVIOUS
  <2>2. s \in Seq(Item) /\ Len(s) = k /\ \A i \in 1..k : s[i].form = fs[i]
    BY <1>2, <2>1, StatementsList
  <2>3. Plain(s) BY <2>1, StatementsPlain
  <2>4. PICK a : a = AnalyzeAll(Analyze, s, c) OBVIOUS
  <2>5. PICK ns : ns = a.nodes OBVIOUS
  <2>6. PICK n : n = Node("do", pos, ns, NoInfo) OBVIOUS
  <2>7. r = Makes(a, n) BY <1>4, <2>1, <2>4, <2>5, <2>6 DEF AnalyzeBody
  <2>8. a.ok BY <2>7 DEF Makes
  <2>9. r.nodes[1] = n
    <3>1. r.nodes = <<n>> BY <2>7, <2>8 DEF Makes, Returns
    <3>2. QED BY <3>1
  <2>10. AllUpto(c, s, Len(s), a) BY <2>2, <2>3, <2>4, AnalyzeAllIs
  <2>11. ns \in Seq(NodeSet) /\ Len(ns) = k BY <2>2, <2>5, <2>8, <2>10 DEF AllUpto
  <2>12. DOMAIN ns = 1..k /\ k > 0 BY <1>2, <1>4, <2>11, EmptySeq, LenProperties
  <2>13. (n.recurs <=> Recurs("do", ns)) /\ (n.tail <=> RecurIsTail("do", ns)) BY <2>6, NodeFacts
  <2>14. (n.recurs <=> ~NoneRecurs(ns)) /\ (n.tail <=> NoneRecurs(Front(ns)) /\ Last(ns).tail)
    BY <2>13 DEF Recurs, RecurIsTail
  <2>15. ns # <<>> BY <2>11, <2>12, EmptySeq
  <2>16. Front(ns) \in Seq(NodeSet) /\ Len(Front(ns)) = k - 1 /\ Last(ns) = ns[k]
           /\ \A i \in 1..(k - 1) : Front(ns)[i] = ns[i]
    BY <2>11, <2>15, FrontFacts
  <2>17. DOMAIN Front(ns) = 1..(k - 1) BY <2>16, LenProperties
  <2>18. Clear(n, b, p) /\ (Len(c.points) > p => Allows(n, tail)) BY <2>9 DEF Stands
  <2>19. InnerTail(tail) \in Tails /\ Inner(at) = Place(c, b, p, InnerTail(tail))
    BY <1>1, PlaceInner
  <2>20. PICK x : x = Inner(at) OBVIOUS
  <2>21. ASSUME NEW i \in 1..k PROVE WellFormed[fs[i]][IF i = k THEN at ELSE x]
    <3>1. PICK m : m = ns[i] OBVIOUS
    <3>2. Below(m, n)
      <4>1. \A j \in DOMAIN ns : Below(ns[j], n) BY <2>6, NodeBelow
      <4>2. QED BY <2>12, <3>1, <4>1
    <3>3. Clear(m, b, p) BY <2>18, <3>2, ClearBelow
    <3>4. PICK t \in Tails : t = IF i = k THEN tail ELSE InnerTail(tail) BY <2>19
    <3>5. ASSUME Len(c.points) > p PROVE Allows(m, t)
      <4>1. (tail = "last" => n.tail) /\ (tail = "nowhere" => ~n.recurs)
        BY <2>18, <3>5 DEF Allows
      <4>2. tail = "nowhere" => ~m.recurs BY <2>12, <2>14, <3>1, <4>1 DEF NoneRecurs
      <4>3. CASE i = k
        <5>1. tail = "last" => m.tail BY <2>14, <2>16, <3>1, <4>1, <4>3
        <5>2. QED BY <3>4, <4>2, <4>3, <5>1 DEF Allows
      <4>4. CASE i # k
        <5>1. i \in 1..(k - 1) BY <4>4
        <5>2. NoneRecurs(Front(ns)) => ~m.recurs BY <2>16, <2>17, <3>1, <5>1 DEF NoneRecurs
        <5>3. tail = "last" => ~m.recurs BY <2>14, <4>1, <5>2
        <5>4. t = "nowhere" => ~m.recurs BY <3>4, <4>2, <4>4, <5>3 DEF InnerTail
        <5>5. t # "last" BY <3>4, <4>4 DEF InnerTail
        <5>6. QED BY <5>4, <5>5 DEF Allows
      <4>5. QED BY <4>3, <4>4
    <3>6. Stands(a.nodes[i], c, b, p, t) BY <2>5, <3>1, <3>3, <3>5 DEF Stands
    <3>7. i \in 1..Len(s) /\ Shows(s[i].form) /\ s[i].form = fs[i] BY <1>2, <2>2
    <3>8. WellFormed[s[i].form][Place(c, b, p, t)]
      BY <2>2, <2>3, <2>4, <2>8, <3>6, <3>7, PlainShows
    <3>9. Place(c, b, p, t) = IF i = k THEN at ELSE x
      BY <1>1, <2>19, <2>20, <3>4
    <3>10. QED BY <3>7, <3>8, <3>9
  <2>22. Body(WellFormed, fs, at) BY <1>2, <2>20, <2>21 DEF Body
  <2>23. QED BY <1>1, <2>22
<1>5. QED BY <1>3, <1>4

(* A node of some parts and one more, the last.                             *)
EndsIn(n, t, s, x) ==
  /\ Front(t) = s /\ Last(t) = x
  /\ NoneRecurs(t) <=> NoneRecurs(s) /\ ~x.recurs
  /\ Below(x, n)
  /\ \A j \in DOMAIN s : Below(s[j], n)

(* A node made of the nodes of some items and then of one more.             *)
LEMMA JoinedEnds ==
  ASSUME NEW S, NEW s \in Seq(S), NEW x, NEW t, t = s \o <<x>>,
         NEW op, NEW pos, NEW info, NEW n, n = Node(op, pos, t, info)
  PROVE  EndsIn(n, t, s, x)
<1>1. PICK k \in Nat : k = Len(s) /\ DOMAIN s = 1..k BY LenProperties
<1>2. DOMAIN t = 1..(k + 1) /\ t[k + 1] = x BY <1>1, Joined
<1>3. Front(t) = s /\ Last(t) = x BY Joined
<1>4. \A j \in 1..k : t[j] = s[j] BY <1>1, Joined
<1>5. \A j \in DOMAIN t : Below(t[j], n) BY NodeBelow
<1>6. \A j \in 1..k : j \in 1..(k + 1) BY <1>1
<1>7. \A j \in 1..k : Below(s[j], n) BY <1>2, <1>4, <1>5, <1>6
<1>8. Below(x, n)
  <2>1. k + 1 \in 1..(k + 1) BY <1>1
  <2>2. Below(t[k + 1], n) BY <1>2, <1>5, <2>1
  <2>3. QED BY <1>2, <2>2
<1>9. NoneRecurs(t) <=> NoneRecurs(s) /\ ~x.recurs
  <2>1. ASSUME NoneRecurs(t) PROVE NoneRecurs(s) /\ ~x.recurs
    <3>1. \A j \in 1..(k + 1) : ~t[j].recurs BY <1>2, <2>1 DEF NoneRecurs
    <3>2. \A j \in 1..k : ~s[j].recurs BY <1>4, <1>6, <3>1
    <3>3. k + 1 \in 1..(k + 1) BY <1>1
    <3>4. ~x.recurs BY <1>2, <3>1, <3>3
    <3>5. QED BY <1>1, <3>2, <3>4 DEF NoneRecurs
  <2>2. ASSUME NoneRecurs(s), ~x.recurs PROVE NoneRecurs(t)
    <3>1. \A j \in 1..k : ~s[j].recurs BY <1>1, <2>2 DEF NoneRecurs
    <3>2. \A j \in 1..(k + 1) : j \in 1..k \/ j = k + 1 BY <1>1
    <3>3. \A j \in 1..(k + 1) : ~t[j].recurs BY <1>2, <1>4, <2>2, <3>1, <3>2
    <3>4. QED BY <1>2, <3>3 DEF NoneRecurs
  <2>3. QED BY <2>1, <2>2
<1>10. QED BY <1>1, <1>3, <1>7, <1>8, <1>9 DEF EndsIn

(* Init forms that are accepted, each in the scope of those before.         *)
LEMMA InitsShow ==
  ASSUME NEW f \in Form, f.is \in {"let*", "loop*"}, \A i \in 1..Len(f.args) : Shows(f.args[i]),
         NEW pos \in Position, NEW c \in Context,
         NEW a, a = AnalyzeAll(Analyze, InitForms(f, pos), NewSymbolTable(c, {})), a.ok,
         NEW b \in Nat, NEW p \in Nat, Base(c, b, p), NEW tail \in Tails, tail # "last",
         NEW n, Clear(n, b, p), \A i \in DOMAIN a.nodes : Below(a.nodes[i], n),
         Len(c.points) > p /\ tail = "nowhere" => NoneRecurs(a.nodes)
  PROVE  Inits(WellFormed, f, Place(c, b, p, tail))
<1>1. PICK s : s = InitForms(f, pos) OBVIOUS
<1>2. PICK k \in Nat : k = Len(f.names) /\ DOMAIN f.names = 1..k BY NamesAreSymbols
<1>3. s \in Seq(Item) /\ Len(s) = k /\ \A i \in 1..k : s[i].form = f.args[i]
  BY <1>1, <1>2, InitFormsList
<1>4. f.args \in Seq(Form) /\ k <= Len(f.args) BY <1>2, FormFacts DEF HasShape
<1>5. \A i \in 1..k : Shows(s[i].form) BY <1>2, <1>3, <1>4, LenProperties
<1>6. PICK none \in SUBSET Symbol : none = {} OBVIOUS
<1>7. PICK c1 : c1 = NewSymbolTable(c, none) OBVIOUS
<1>8. c1 \in Context /\ c1.frames = Append(c.frames, none) /\ c1.points = c.points
  BY <1>7, PushSymbols
<1>9. Len(c1.frames) > 1
  <2>1. Len(c.frames) \in Nat \ {0} /\ c.frames \in Seq(SUBSET Symbol) BY ContextFacts
  <2>2. Len(Append(c.frames, none)) = Len(c.frames) + 1 BY <2>1, AppendProperties
  <2>3. QED BY <1>8, <2>1, <2>2
<1>10. a = AnalyzeAll(Analyze, s, c1) BY <1>1, <1>6, <1>7
<1>11. \A i \in 1..Len(f.args) : Good(f.args[i]) BY <1>4, ElementOfSeq, EveryFormGood
<1>12. a.nodes \in Seq(NodeSet) /\ Len(a.nodes) = k BY <1>2, <1>11, InitsResult
<1>13. DOMAIN a.nodes = 1..k BY <1>12, LenProperties
<1>14. PICK at : at = Place(c, b, p, tail) OBVIOUS
<1>15. ASSUME NEW i \in 1..k PROVE WellFormed[f.args[i]][With(at, BoundUpTo(f, i))]
  <2>1. i \in 1..(Len(f.names) + 1) BY <1>2
  <2>2. BoundUpTo(f, i) \in SUBSET Symbol BY <2>1, InitsBind
  <2>3. PICK xs \in SUBSET Symbol : xs = BoundUpTo(f, i) BY <2>2
  <2>4. PICK y : y = With(at, xs) OBVIOUS
  <2>5. ASSUME NEW d, InFrom(c1, s, i, d) PROVE Base(d, b, p) /\ Place(d, b, p, tail) = y
    <3>1. InFrom(NewSymbolTable(c, {}), InitForms(f, pos), i, d) BY <1>1, <1>6, <1>7, <2>5
    <3>2. Entered(c, xs, d) BY <2>1, <2>3, <3>1, InFromEntered
    <3>3. Base(d, b, p) /\ Place(d, b, p, tail) = With(Place(c, b, p, tail), xs)
      BY <3>2, PlaceEntered
    <3>4. QED BY <1>14, <2>4, <3>3
  <2>6. \A d : InFrom(c1, s, i, d) => Base(d, b, p) /\ Place(d, b, p, tail) = y BY <2>5
  <2>7. Clear(a.nodes[i], b, p)
    <3>1. PICK m : m = a.nodes[i] OBVIOUS
    <3>2. Below(m, n) BY <1>13, <3>1
    <3>3. Clear(m, b, p) BY <3>2, ClearBelow
    <3>4. QED BY <3>1, <3>3
  <2>8. Len(c.points) > p => Allows(a.nodes[i], tail) BY <1>13 DEF NoneRecurs, Allows
  <2>9. Stands(a.nodes[i], c1, b, p, tail) BY <1>8, <2>7, <2>8 DEF Stands
  <2>10. i \in 1..Len(s) /\ Shows(s[i].form) BY <1>3, <1>5
  <2>11. WellFormed[s[i].form][y]
    BY <1>3, <1>8, <1>9, <1>10, <2>6, <2>9, <2>10, ItemShows
  <2>12. QED BY <1>3, <2>3, <2>4, <2>11
<1>16. Inits(WellFormed, f, at) BY <1>2, <1>15 DEF Inits, BoundUpTo
<1>17. QED BY <1>14, <1>16

(* An accepted let* is well formed.                                         *)
LEMMA LetShows ==
  ASSUME NEW f \in Form, f.is = "let*", \A i \in 1..Len(f.args) : Shows(f.args[i]),
         \A i \in 1..Len(BodyOf(f)) : Shows(BodyOf(f)[i]),
         NEW pos \in Position, NEW c \in Context
  PROVE  ShowsAt(f, c, LetAst(Analyze, f, pos, c))
<1>1. PICK i : i = AnalyzeAll(Analyze, InitForms(f, pos), NewSymbolTable(c, {})) OBVIOUS
<1>2. PICK y : y = AnalyzeBody(Analyze, BodyOf(f), pos, i.ctx) OBVIOUS
<1>3. PICK r : r = LetAst(Analyze, f, pos, c) OBVIOUS
<1>4. PICK n : n = Node("let*", pos, i.nodes \o y.nodes, [names |-> f.names]) OBVIOUS
<1>5. r = IF ~i.ok THEN i ELSE IF ~y.ok THEN y ELSE Returns(PopSymbolTable(y.ctx), <<n>>)
  BY <1>1, <1>2, <1>3, <1>4 DEF LetAst
<1>6. \A j \in 1..Len(f.args) : Good(f.args[j]) BY FormFacts, ElementOfSeq, EveryFormGood
<1>7. i.ok \in BOOLEAN /\ i.ctx \in Context
        /\ (i.ok => Entered(c, ToSet(f.names), i.ctx) /\ i.nodes \in Seq(NodeSet))
  BY <1>1, <1>6, InitsResult
<1>8. BodyOf(f) \in Seq(Form) BY BodyOfFacts
<1>9. IsResult(i.ctx, y) BY <1>2, <1>7, <1>8, BodyIs
<1>10. ASSUME r.ok, NEW b \in Nat, NEW p \in Nat, NEW tail \in Tails, Base(c, b, p),
              Stands(r.nodes[1], c, b, p, tail)
       PROVE  WellFormed[f][Place(c, b, p, tail)]
  <2>1. i.ok /\ y.ok BY <1>5, <1>10
  <2>2. r.nodes[1] = n
    <3>1. r.nodes = <<n>> BY <1>5, <2>1 DEF Returns
    <3>2. QED BY <3>1
  <2>3. Clear(n, b, p) /\ (Len(c.points) > p => Allows(n, tail)) BY <1>10, <2>2 DEF Stands
  <2>4. PICK x : x = y.nodes[1] OBVIOUS
  <2>5. y.nodes = <<x>> BY <1>9, <2>1, <2>4 DEF IsResult
  <2>6. PICK s : s = i.nodes OBVIOUS
  <2>7. s \in Seq(NodeSet) BY <1>7, <2>1, <2>6
  <2>8. PICK t : t = s \o <<x>> OBVIOUS
  <2>9. PICK info : info = [names |-> f.names] OBVIOUS
  <2>10. n = Node("let*", pos, t, info) BY <1>4, <2>5, <2>6, <2>8, <2>9
  <2>11. EndsIn(n, t, s, x) BY <2>7, <2>8, <2>10, JoinedEnds
  <2>12. (n.recurs <=> Recurs("let*", t)) /\ (n.tail <=> RecurIsTail("let*", t))
    BY <2>10, NodeFacts
  <2>13. (n.recurs <=> ~NoneRecurs(t)) /\ (n.tail <=> NoneRecurs(s) /\ x.tail)
    BY <2>11, <2>12 DEF Recurs, RecurIsTail, EndsIn
  <2>14. PICK at : at = Place(c, b, p, tail) OBVIOUS
  <2>15. InnerTail(tail) \in Tails /\ Inner(at) = Place(c, b, p, InnerTail(tail))
    BY <1>10, <2>14, PlaceInner
  <2>16. PICK u \in Tails : u = InnerTail(tail) BY <2>15
  <2>17. u # "last" /\ (u = "nowhere" => tail \in {"last", "nowhere"}) BY <2>16 DEF InnerTail
  <2>18. Len(c.points) > p /\ u = "nowhere" => NoneRecurs(i.nodes)
    BY <2>3, <2>6, <2>11, <2>13, <2>17 DEF Allows, EndsIn
  <2>19. \A j \in DOMAIN i.nodes : Below(i.nodes[j], n) BY <2>6, <2>11 DEF EndsIn
  <2>20. Inits(WellFormed, f, Place(c, b, p, u))
    BY <1>1, <1>10, <2>1, <2>3, <2>17, <2>18, <2>19, InitsShow
  <2>21. PICK xs \in SUBSET Symbol : xs = ToSet(f.names) BY NamesAreSymbols
  <2>22. PICK d : d = i.ctx OBVIOUS
  <2>23. Entered(c, xs, d) BY <1>7, <2>1, <2>21, <2>22
  <2>24. d \in Context /\ Base(d, b, p) /\ d.points = c.points
           /\ Place(d, b, p, tail) = With(Place(c, b, p, tail), xs)
    BY <1>10, <2>23, PlaceEntered
  <2>25. Stands(y.nodes[1], d, b, p, tail)
    <3>1. Below(x, n) BY <2>11 DEF EndsIn
    <3>2. Clear(x, b, p) BY <2>3, <3>1, ClearBelow
    <3>3. Len(c.points) > p => Allows(x, tail) BY <2>3, <2>11, <2>13 DEF Allows, EndsIn
    <3>4. Stands(x, d, b, p, tail) BY <2>24, <3>2, <3>3 DEF Stands
    <3>5. QED BY <2>4, <3>4
  <2>26. y = AnalyzeBody(Analyze, BodyOf(f), pos, d) BY <1>2, <2>22
  <2>27. Body(WellFormed, BodyOf(f), Place(d, b, p, tail))
    BY <1>8, <1>10, <2>1, <2>24, <2>25, <2>26, BodyShows
  <2>28. Body(WellFormed, BodyOf(f), With(at, ToSet(f.names))) BY <2>14, <2>21, <2>24, <2>27
  <2>29. Inits(WellFormed, f, Inner(at)) BY <2>15, <2>16, <2>20
  <2>30. at \in Where
    <3>1. IsPlace(at, c, b, p, tail) BY <1>10, <2>14, PlaceFacts
    <3>2. QED BY <3>1 DEF IsPlace
  <2>31. WellFormed[f][at] BY <2>28, <2>29, <2>30, WellFormedCases
  <2>32. QED BY <2>14, <2>31
<1>11. ShowsAt(f, c, r) BY <1>10 DEF ShowsAt
<1>12. QED BY <1>3, <1>11

(* An accepted loop* is well formed.                                        *)
LEMMA LoopShows ==
  ASSUME NEW f \in Form, f.is = "loop*", \A i \in 1..Len(f.args) : Shows(f.args[i]),
         \A i \in 1..Len(BodyOf(f)) : Shows(BodyOf(f)[i]),
         NEW pos \in Position, NEW c \in Context
  PROVE  ShowsAt(f, c, LoopAst(Analyze, f, pos, c))
<1>1. PICK i : i = AnalyzeAll(Analyze, InitForms(f, pos), NewSymbolTable(c, {})) OBVIOUS
<1>2. PICK q : q = NewRecurPoint(i.ctx, Len(f.names)) OBVIOUS
<1>3. PICK y : y = AnalyzeBody(Analyze, BodyOf(f), pos, q) OBVIOUS
<1>4. PICK r : r = LoopAst(Analyze, f, pos, c) OBVIOUS
<1>5. PICK n : n = Node("loop*", pos, i.nodes \o y.nodes, [names |-> f.names]) OBVIOUS
<1>6. r = IF ~i.ok THEN i ELSE IF ~y.ok THEN y
          ELSE IF ~y.nodes[1].tail THEN Raises(y.ctx)
          ELSE Returns(PopSymbolTable(PopRecurPoint(y.ctx)), <<n>>)
  BY <1>1, <1>2, <1>3, <1>4, <1>5 DEF LoopAst
<1>7. \A j \in 1..Len(f.args) : Good(f.args[j]) BY FormFacts, ElementOfSeq, EveryFormGood
<1>8. i.ok \in BOOLEAN /\ i.ctx \in Context
        /\ (i.ok => Entered(c, ToSet(f.names), i.ctx) /\ i.nodes \in Seq(NodeSet))
  BY <1>1, <1>7, InitsResult
<1>9. BodyOf(f) \in Seq(Form) BY BodyOfFacts
<1>10. Len(f.names) \in Nat /\ ToSet(f.names) \in SUBSET Symbol BY NamesAreSymbols
<1>11. q \in Context /\ q.points = Append(i.ctx.points, Len(f.names))
  BY <1>2, <1>8, <1>10, PushPoint
<1>12. IsResult(q, y) BY <1>3, <1>9, <1>11, BodyIs
<1>13. ASSUME r.ok, NEW b \in Nat, NEW p \in Nat, NEW tail \in Tails, Base(c, b, p),
              Stands(r.nodes[1], c, b, p, tail)
       PROVE  WellFormed[f][Place(c, b, p, tail)]
  <2>1. i.ok /\ y.ok /\ y.nodes[1].tail BY <1>6, <1>13, <1>12 DEF Raises, IsResult, IsNode
  <2>2. r.nodes[1] = n
    <3>1. r.nodes = <<n>> BY <1>6, <2>1 DEF Returns
    <3>2. QED BY <3>1
  <2>3. Clear(n, b, p) /\ (Len(c.points) > p => Allows(n, tail)) BY <1>13, <2>2 DEF Stands
  <2>4. PICK x : x = y.nodes[1] OBVIOUS
  <2>5. y.nodes = <<x>> BY <1>12, <2>1, <2>4 DEF IsResult
  <2>6. PICK s : s = i.nodes OBVIOUS
  <2>7. s \in Seq(NodeSet) BY <1>8, <2>1, <2>6
  <2>8. PICK t : t = s \o <<x>> OBVIOUS
  <2>9. PICK info : info = [names |-> f.names] OBVIOUS
  <2>10. n = Node("loop*", pos, t, info) BY <1>5, <2>5, <2>6, <2>8, <2>9
  <2>11. EndsIn(n, t, s, x) BY <2>7, <2>8, <2>10, JoinedEnds
  <2>12. n.tail <=> RecurIsTail("loop*", t) BY <2>10, NodeFacts
  <2>13. n.tail <=> NoneRecurs(s) BY <2>11, <2>12 DEF RecurIsTail, EndsIn
  <2>14. PICK at : at = Place(c, b, p, tail) OBVIOUS
  <2>15. PICK u \in Tails : u = IF tail = "last" THEN "nowhere" ELSE "anywhere" BY DEF Tails
  <2>16. LoopInits(at) = Place(c, b, p, u) BY <1>13, <2>14, <2>15, PlaceInner
  <2>17. u # "last" /\ (u = "nowhere" => tail = "last") BY <2>15
  <2>18. Len(c.points) > p /\ u = "nowhere" => NoneRecurs(i.nodes)
    BY <2>3, <2>6, <2>13, <2>17 DEF Allows
  <2>19. \A j \in DOMAIN i.nodes : Below(i.nodes[j], n) BY <2>6, <2>11 DEF EndsIn
  <2>20. Inits(WellFormed, f, Place(c, b, p, u))
    BY <1>1, <1>13, <2>1, <2>3, <2>17, <2>18, <2>19, InitsShow
  <2>21. PICK xs \in SUBSET Symbol : xs = ToSet(f.names) BY <1>10
  <2>22. PICK d : d = i.ctx OBVIOUS
  <2>23. Entered(c, xs, d) BY <1>8, <2>1, <2>21, <2>22
  <2>24. d \in Context /\ Base(d, b, p) /\ d.points = c.points
           /\ Place(d, b, p, tail) = With(Place(c, b, p, tail), xs)
    BY <1>13, <2>23, PlaceEntered
  <2>25. at \in Where
    <3>1. IsPlace(at, c, b, p, tail) BY <1>13, <2>14, PlaceFacts
    <3>2. QED BY <3>1 DEF IsPlace
  <2>26. With(at, ToSet(f.names)) = Place(d, b, p, tail) BY <2>14, <2>21, <2>24
  <2>27. q = NewRecurPoint(d, Len(f.names)) BY <1>2, <2>22
  <2>28. Base(q, b, p) /\ Place(q, b, p, "last") = Point(at, f.names)
    BY <1>10, <2>24, <2>25, <2>26, <2>27, PlacePoint
  <2>29. Stands(y.nodes[1], q, b, p, "last")
    <3>1. Below(x, n) BY <2>11 DEF EndsIn
    <3>2. Clear(x, b, p) BY <2>3, <3>1, ClearBelow
    <3>3. Allows(x, "last") BY <2>1, <2>4 DEF Allows
    <3>4. Stands(x, q, b, p, "last") BY <3>2, <3>3 DEF Stands
    <3>5. QED BY <2>4, <3>4
  <2>30. "last" \in Tails BY DEF Tails
  <2>31. Body(WellFormed, BodyOf(f), Place(q, b, p, "last"))
    BY <1>3, <1>9, <1>11, <2>1, <2>28, <2>29, <2>30, BodyShows
  <2>32. Body(WellFormed, BodyOf(f), Point(at, f.names)) BY <2>28, <2>31
  <2>33. Inits(WellFormed, f, LoopInits(at)) BY <2>16, <2>20
  <2>34. WellFormed[f][at] BY <2>25, <2>32, <2>33, WellFormedCases
  <2>35. QED BY <2>14, <2>34
<1>14. ShowsAt(f, c, r) BY <1>13 DEF ShowsAt
<1>15. QED BY <1>4, <1>14

(* An accepted function is well formed.                                     *)
LEMMA FnShows ==
  ASSUME NEW f \in Form, f.is = "fn*", \A i \in 1..Len(f.args) : Shows(f.args[i]),
         \A i \in 1..Len(f.body) : Shows(f.body[i]),
         NEW pos \in Position, NEW c \in Context
  PROVE  ShowsAt(f, c, FnAst(Analyze, f, pos, c))
<1>1. PICK q : q = FnCtx(f, c) OBVIOUS
<1>2. PICK y : y = FnBody(f, c) OBVIOUS
<1>3. q \in Context BY <1>1, FnContexts
<1>4. f.body \in Seq(Form) /\ "expression" \in Position BY FormFacts DEF Position
<1>5. y = AnalyzeBody(Analyze, f.body, "expression", q) BY <1>1, <1>2 DEF FnBody
<1>6. IsResult(q, y) BY <1>3, <1>4, <1>5, BodyIs
<1>7. IsResult(FnCtx(f, c), FnBody(f, c)) BY <1>1, <1>2, <1>6
<1>8. PICK r : r = FnAst(Analyze, f, pos, c) OBVIOUS
<1>9. PICK a : a = ArgsOf(f, c) OBVIOUS
<1>10. PICK n : n = FnNode(f, pos, c) OBVIOUS
<1>11. /\ ~y.ok => r = y
       /\ y.ok /\ ~y.nodes[1].tail => r = Raises(FnPoint(f, c))
       /\ y.ok /\ y.nodes[1].tail => r = Makes(a, n)
  BY <1>2, <1>7, <1>8, <1>9, <1>10, FnAstIs
<1>12. ASSUME r.ok, NEW b \in Nat, NEW p \in Nat, NEW tail \in Tails, Base(c, b, p),
              Stands(r.nodes[1], c, b, p, tail)
       PROVE  WellFormed[f][Place(c, b, p, tail)]
  <2>1. y.ok
    <3>1. CASE ~y.ok BY <1>11, <1>12, <3>1
    <3>2. QED BY <3>1
  <2>2. y.nodes[1].tail
    <3>1. CASE ~y.nodes[1].tail
      <4>1. r = Raises(FnPoint(f, c)) BY <1>11, <2>1, <3>1
      <4>2. QED BY <1>12, <4>1 DEF Raises
    <3>2. QED BY <3>1
  <2>3. r = Makes(a, n) BY <1>11, <2>1, <2>2
  <2>4. a.ok
    <3>1. CASE ~a.ok BY <1>12, <2>3, <3>1 DEF Makes
    <3>2. QED BY <3>1
  <2>5. r.nodes[1] = n
    <3>1. r.nodes = <<n>> BY <2>3, <2>4 DEF Makes, Returns
    <3>2. QED BY <3>1
  <2>6. Clear(n, b, p) /\ (Len(c.points) > p => Allows(n, tail)) BY <1>12, <2>5 DEF Stands
  <2>7. PICK x : x = y.nodes[1] OBVIOUS
  <2>8. y.nodes = <<x>> BY <1>6, <2>1, <2>7 DEF IsResult
  <2>9. PICK s : s = a.nodes OBVIOUS
  <2>10. s \in Seq(NodeSet) BY <1>9, <2>4, <2>9, ArgsAre
  <2>11. PICK t : t = s \o <<x>> OBVIOUS
  <2>12. PICK info : info = [names |-> f.names, generator |-> Last(y.ctx.functions)] OBVIOUS
  <2>13. n = Node("fn*", pos, t, info) BY <1>2, <1>9, <1>10, <2>8, <2>9, <2>11, <2>12 DEF FnNode
  <2>14. EndsIn(n, t, s, x) BY <2>10, <2>11, <2>13, JoinedEnds
  <2>15. (n.recurs <=> Recurs("fn*", t)) /\ (n.tail <=> RecurIsTail("fn*", t))
    BY <2>13, NodeFacts
  <2>16. (n.recurs <=> ~NoneRecurs(s)) /\ (n.tail <=> NoneRecurs(s))
    BY <2>14, <2>15 DEF Recurs, RecurIsTail, EndsIn
  <2>17. PICK at : at = Place(c, b, p, tail) OBVIOUS
  <2>18. InnerTail(tail) \in Tails /\ Inner(at) = Place(c, b, p, InnerTail(tail))
    BY <1>12, <2>17, PlaceInner
  <2>19. PICK u \in Tails : u = InnerTail(tail) BY <2>18
  <2>20. u # "last" /\ (u = "nowhere" => tail \in {"last", "nowhere"}) BY <2>19 DEF InnerTail
  <2>21. Len(c.points) > p /\ u = "nowhere" => NoneRecurs(a.nodes)
    BY <2>6, <2>9, <2>16, <2>20 DEF Allows
  <2>22. \A j \in DOMAIN a.nodes : Below(a.nodes[j], n) BY <2>9, <2>14 DEF EndsIn
  <2>23. All(WellFormed, f.args, Place(c, b, p, u))
    BY <1>9, <1>12, <2>4, <2>6, <2>20, <2>21, <2>22, ArgsShow
  <2>24. Base(q, b, p) /\ Place(q, b, p, "last") = FnAt(f, at) BY <1>1, <1>12, <2>17, PlaceFn
  <2>25. Stands(y.nodes[1], q, b, p, "last")
    <3>1. Below(x, n) BY <2>14 DEF EndsIn
    <3>2. Clear(x, b, p) BY <2>6, <3>1, ClearBelow
    <3>3. Allows(x, "last") BY <2>2, <2>7 DEF Allows
    <3>4. Stands(x, q, b, p, "last") BY <3>2, <3>3 DEF Stands
    <3>5. QED BY <2>7, <3>4
  <2>26. "last" \in Tails BY DEF Tails
  <2>27. Body(WellFormed, f.body, Place(q, b, p, "last"))
    BY <1>3, <1>4, <1>5, <1>12, <2>1, <2>24, <2>25, <2>26, BodyShows
  <2>28. Body(WellFormed, f.body, FnAt(f, at)) BY <2>24, <2>27
  <2>29. All(WellFormed, f.args, Inner(at)) BY <2>18, <2>19, <2>23
  <2>30. at \in Where
    <3>1. IsPlace(at, c, b, p, tail) BY <1>12, <2>17, PlaceFacts
    <3>2. QED BY <3>1 DEF IsPlace
  <2>31. WellFormed[f][at] BY <2>28, <2>29, <2>30, WellFormedCases DEF FnAt
  <2>32. QED BY <2>17, <2>31
<1>13. ShowsAt(f, c, r) BY <1>12 DEF ShowsAt
<1>14. QED BY <1>8, <1>13

(* An accepted catch is well formed, with e in scope.                       *)
LEMMA CatchShows ==
  ASSUME NEW f \in Form, f.is = "try", \A i \in 1..Len(f.catches) : Shows(f.catches[i]),
         NEW pos \in Position, NEW c \in Context, NEW k, k = CatchOf(f, pos, c), k.ok,
         NEW b \in Nat, NEW p \in Nat, Base(c, b, p), NEW tail \in Tails, tail # "last",
         NEW n, Clear(n, b, p), \A i \in DOMAIN k.nodes : Below(k.nodes[i], n),
         Len(c.points) > p /\ tail = "nowhere" => NoneRecurs(k.nodes)
  PROVE  All(WellFormed, f.catches, With(Place(c, b, p, tail), {"e"}))
<1>1. PICK at : at = Place(c, b, p, tail) OBVIOUS
<1>2. f.catches \in Seq(Form) /\ Len(f.catches) <= 1 BY FormFacts DEF HasShape
<1>3. CASE f.catches = <<>>
  <2>1. DOMAIN f.catches = {} BY <1>3
  <2>2. QED BY <2>1 DEF All
<1>4. CASE f.catches # <<>>
  <2>1. PICK r : r = Analyze[f.catches[1]][pos][CatchCtx(c)] OBVIOUS
  <2>2. f.catches[1] \in Form /\ 1 \in 1..Len(f.catches)
          /\ k = IF r.ok THEN Returns(PopSymbolTable(r.ctx), r.nodes) ELSE r
    BY <1>4, <2>1, CatchIs
  <2>3. r.ok
    <3>1. CASE ~r.ok BY <2>2, <3>1
    <3>2. QED BY <3>1
  <2>4. k.nodes = r.nodes BY <2>2, <2>3 DEF Returns
  <2>5. PICK d : d = CatchCtx(c) OBVIOUS
  <2>6. d \in Context /\ Entered(c, {"e"}, d) /\ {"e"} \in SUBSET Symbol BY <2>5, CatchCtxFacts
  <2>7. PICK xs \in SUBSET Symbol : xs = {"e"} BY <2>6
  <2>8. Entered(c, xs, d) BY <2>6, <2>7
  <2>9. Base(d, b, p) /\ d.points = c.points
          /\ Place(d, b, p, tail) = With(Place(c, b, p, tail), xs)
    BY <2>8, PlaceEntered
  <2>10. IsResult(d, r) BY <2>1, <2>2, <2>5, <2>6, OneIs
  <2>11. PICK x : x = r.nodes[1] OBVIOUS
  <2>12. r.nodes = <<x>> BY <2>3, <2>10, <2>11 DEF IsResult
  <2>13. k.nodes[1] = x /\ 1 \in DOMAIN k.nodes BY <2>4, <2>12
  <2>14. Below(x, n)
    <3>1. Below(k.nodes[1], n) BY <2>13
    <3>2. QED BY <2>13, <3>1
  <2>15. Clear(x, b, p) BY <2>14, ClearBelow
  <2>16. Len(d.points) > p => Allows(x, tail)
    <3>1. NoneRecurs(k.nodes) => ~k.nodes[1].recurs BY <2>13 DEF NoneRecurs
    <3>2. QED BY <2>9, <2>13, <3>1 DEF Allows
  <2>17. Stands(r.nodes[1], d, b, p, tail)
    <3>1. Stands(x, d, b, p, tail) BY <2>15, <2>16 DEF Stands
    <3>2. QED BY <2>11, <3>1
  <2>18. ShowsAt(f.catches[1], d, r) BY <2>1, <2>2, <2>5, <2>6 DEF Shows
  <2>19. WellFormed[f.catches[1]][Place(d, b, p, tail)] BY <2>3, <2>9, <2>17, <2>18 DEF ShowsAt
  <2>20. PICK y : y = With(at, {"e"}) OBVIOUS
  <2>21. WellFormed[f.catches[1]][y] BY <1>1, <2>7, <2>9, <2>19, <2>20
  <2>22. Len(f.catches) = 1
    <3>1. PICK m \in Nat : m = Len(f.catches) BY <1>2, LenProperties
    <3>2. m <= 1 /\ 1 \in 1..m BY <1>2, <2>2, <3>1
    <3>3. 1 <= m BY <3>2
    <3>4. m = 1 BY <3>2, <3>3
    <3>5. QED BY <3>1, <3>4
  <2>23. DOMAIN f.catches = {1} BY <1>2, <2>22, LenProperties
  <2>24. All(WellFormed, f.catches, y) BY <2>21, <2>23 DEF All
  <2>25. QED BY <1>1, <2>20, <2>24
<1>5. QED BY <1>3, <1>4

(* An accepted finally is well formed.                                      *)
LEMMA FinallyShows ==
  ASSUME NEW f \in Form, f.is = "try", \A i \in 1..Len(f.finally) : Shows(f.finally[i]),
         NEW c \in Context, NEW e, e = FinallyOf(f, c), e.ok,
         NEW b \in Nat, NEW p \in Nat, Base(c, b, p), NEW tail \in Tails, tail # "last",
         NEW n, Clear(n, b, p), \A i \in DOMAIN e.nodes : Below(e.nodes[i], n),
         Len(c.points) > p /\ tail = "nowhere" => NoneRecurs(e.nodes)
  PROVE  All(WellFormed, f.finally, Place(c, b, p, tail))
<1>1. PICK at : at = Place(c, b, p, tail) OBVIOUS
<1>2. f.finally \in Seq(Form) /\ "statement" \in Position BY FormFacts DEF Position
<1>3. CASE f.finally = <<>>
  <2>1. DOMAIN f.finally = {} BY <1>3
  <2>2. QED BY <2>1 DEF All
<1>4. CASE f.finally # <<>>
  <2>1. e = AnalyzeBody(Analyze, f.finally, "statement", c) BY <1>4 DEF FinallyOf
  <2>2. IsResult(c, e) BY <1>2, <2>1, BodyIs
  <2>3. PICK x : x = e.nodes[1] OBVIOUS
  <2>4. e.nodes = <<x>> BY <2>2, <2>3 DEF IsResult
  <2>5. 1 \in DOMAIN e.nodes BY <2>4
  <2>6. Below(x, n) BY <2>3, <2>5
  <2>7. Clear(x, b, p) BY <2>6, ClearBelow
  <2>8. Len(c.points) > p => Allows(x, tail)
    <3>1. NoneRecurs(e.nodes) => ~e.nodes[1].recurs BY <2>5 DEF NoneRecurs
    <3>2. QED BY <2>3, <3>1 DEF Allows
  <2>9. Stands(e.nodes[1], c, b, p, tail)
    <3>1. Stands(x, c, b, p, tail) BY <2>7, <2>8 DEF Stands
    <3>2. QED BY <2>3, <3>1
  <2>10. Body(WellFormed, f.finally, Place(c, b, p, tail)) BY <1>2, <2>1, <2>9, BodyShows
  <2>11. Inner(at) = at
    <3>1. Inner(at) = Place(c, b, p, InnerTail(tail)) BY <1>1, PlaceInner
    <3>2. InnerTail(tail) = tail BY DEF InnerTail
    <3>3. QED BY <1>1, <3>1, <3>2
  <2>12. Body(WellFormed, f.finally, at) BY <1>1, <2>10
  <2>13. All(WellFormed, f.finally, at) BY <2>11, <2>12 DEF Body, All
  <2>14. QED BY <1>1, <2>13
<1>5. QED BY <1>3, <1>4

(* An accepted try is well formed.                                          *)
LEMMA TryShows ==
  ASSUME NEW f \in Form, f.is = "try", \A i \in 1..Len(f.args) : Shows(f.args[i]),
         \A i \in 1..Len(f.catches) : Shows(f.catches[i]),
         \A i \in 1..Len(f.finally) : Shows(f.finally[i]),
         NEW pos \in Position, NEW c \in Context
  PROVE  ShowsAt(f, c, TryAst(Analyze, f, pos, c))
<1>1. PICK y : y = Analyze[f.args[1]][pos][c] OBVIOUS
<1>2. PICK d : d = y.ctx OBVIOUS
<1>3. PICK k : k = CatchOf(f, pos, d) OBVIOUS
<1>4. PICK g : g = k.ctx OBVIOUS
<1>5. PICK e : e = FinallyOf(f, g) OBVIOUS
<1>6. PICK n : n = TryNode(f, pos, y, k, e) OBVIOUS
<1>7. PICK r : r = TryAst(Analyze, f, pos, c) OBVIOUS
<1>8. r = IF ~y.ok THEN y ELSE IF ~k.ok THEN k ELSE Makes(e, n)
  BY <1>1, <1>2, <1>3, <1>4, <1>5, <1>6, <1>7, Zenon DEF TryAst, CatchOf, FinallyOf, TryNode
<1>9. Len(f.args) = 1 /\ f.args \in Seq(Form) BY FormFacts DEF HasShape
<1>10. f.args[1] \in Form /\ Shows(f.args[1]) BY <1>9, ElementOfSeq
<1>11. IsResult(c, y) BY <1>1, <1>10, OneIs
<1>12. \A i \in 1..Len(f.catches) : Good(f.catches[i])
  BY FormFacts, ElementOfSeq, EveryFormGood
<1>13. \A i \in 1..Len(f.finally) : Good(f.finally[i])
  BY FormFacts, ElementOfSeq, EveryFormGood
<1>14. ASSUME r.ok, NEW b \in Nat, NEW p \in Nat, NEW tail \in Tails, Base(c, b, p),
              Stands(r.nodes[1], c, b, p, tail)
       PROVE  WellFormed[f][Place(c, b, p, tail)]
  <2>1. y.ok
    <3>1. CASE ~y.ok BY <1>8, <1>14, <3>1
    <3>2. QED BY <3>1
  <2>2. k.ok
    <3>1. CASE ~k.ok BY <1>8, <1>14, <2>1, <3>1
    <3>2. QED BY <3>1
  <2>3. r = Makes(e, n) BY <1>8, <2>1, <2>2
  <2>4. e.ok
    <3>1. CASE ~e.ok BY <1>14, <2>3, <3>1 DEF Makes
    <3>2. QED BY <3>1
  <2>5. r.nodes[1] = n
    <3>1. r.nodes = <<n>> BY <2>3, <2>4 DEF Makes, Returns
    <3>2. QED BY <3>1
  <2>6. Clear(n, b, p) /\ (Len(c.points) > p => Allows(n, tail)) BY <1>14, <2>5 DEF Stands
  <2>7. PICK x : x = y.nodes[1] OBVIOUS
  <2>8. y.nodes = <<x>> /\ d \in Context /\ Undone(c, d) BY <1>2, <1>11, <2>1, <2>7 DEF IsResult
  <2>9. IsOptional(d, f.catches, k) BY <1>3, <1>12, <2>8, CatchResult
  <2>10. g \in Context /\ Undone(d, g) BY <1>4, <2>2, <2>9 DEF IsOptional
  <2>11. IsOptional(g, f.finally, e) BY <1>5, <1>13, <2>10, FinallyResult
  <2>12. IsTryOf(n, x, k.nodes, e.nodes)
    BY <1>6, <2>2, <2>4, <2>8, <2>9, <2>11, TryNodeFacts
  <2>13. PICK at : at = Place(c, b, p, tail) OBVIOUS
  <2>14. InnerTail(tail) \in Tails /\ Inner(at) = Place(c, b, p, InnerTail(tail))
    BY <1>14, <2>13, PlaceInner
  <2>15. PICK u \in Tails : u = InnerTail(tail) BY <2>14
  <2>16. u # "last" /\ (u = "nowhere" => tail \in {"last", "nowhere"}) BY <2>15 DEF InnerTail
  <2>17. Len(c.points) > p /\ u = "nowhere" => NoneRecurs(k.nodes) /\ NoneRecurs(e.nodes)
    BY <2>6, <2>12, <2>16 DEF Allows, IsTryOf
  <2>18. WellFormed[f.args[1]][at]
    <3>1. Below(x, n) BY <2>12 DEF IsTryOf, Below
    <3>2. Clear(x, b, p) BY <2>6, <3>1, ClearBelow
    <3>3. Len(c.points) > p => Allows(x, tail) BY <2>6, <2>12 DEF Allows, IsTryOf
    <3>4. Stands(y.nodes[1], c, b, p, tail)
      <4>1. Stands(x, c, b, p, tail) BY <3>2, <3>3 DEF Stands
      <4>2. QED BY <2>7, <4>1
    <3>5. ShowsAt(f.args[1], c, y) BY <1>1, <1>10 DEF Shows
    <3>6. WellFormed[f.args[1]][Place(c, b, p, tail)] BY <1>14, <2>1, <3>4, <3>5 DEF ShowsAt
    <3>7. QED BY <2>13, <3>6
  <2>19. Base(d, b, p) /\ Len(d.points) = Len(c.points)
           /\ \A t : Place(d, b, p, t) = Place(c, b, p, t)
    BY <1>14, <2>8, PlaceSame
  <2>20. Base(g, b, p) /\ Len(g.points) = Len(d.points)
           /\ \A t : Place(g, b, p, t) = Place(d, b, p, t)
    BY <2>8, <2>10, <2>19, PlaceSame
  <2>21. All(WellFormed, f.catches, With(Place(d, b, p, u), {"e"}))
    <3>1. Len(d.points) > p /\ u = "nowhere" => NoneRecurs(k.nodes) BY <2>17, <2>19
    <3>2. \A i \in DOMAIN k.nodes : Below(k.nodes[i], n) BY <2>12 DEF IsTryOf, Below
    <3>3. QED BY <1>3, <1>14, <2>2, <2>6, <2>8, <2>16, <2>19, <3>1, <3>2, CatchShows
  <2>22. All(WellFormed, f.finally, Place(g, b, p, u))
    <3>1. Len(g.points) > p /\ u = "nowhere" => NoneRecurs(e.nodes) BY <2>17, <2>19, <2>20
    <3>2. \A i \in DOMAIN e.nodes : Below(e.nodes[i], n) BY <2>12 DEF IsTryOf, Below
    <3>3. QED BY <1>5, <1>14, <2>4, <2>6, <2>10, <2>16, <2>20, <3>1, <3>2, FinallyShows
  <2>23. Place(d, b, p, u) = Inner(at) /\ Place(g, b, p, u) = Inner(at)
    BY <2>14, <2>15, <2>19, <2>20
  <2>24. at \in Where
    <3>1. IsPlace(at, c, b, p, tail) BY <1>14, <2>13, PlaceFacts
    <3>2. QED BY <3>1 DEF IsPlace
  <2>25. All(WellFormed, f.catches, With(Inner(at), {"e"})) BY <2>21, <2>23
  <2>26. All(WellFormed, f.finally, Inner(at)) BY <2>22, <2>23
  <2>27. WellFormed[f][at] BY <2>18, <2>24, <2>25, <2>26, WellFormedCases
  <2>28. QED BY <2>13, <2>27
<1>15. ShowsAt(f, c, r) BY <1>14 DEF ShowsAt
<1>16. QED BY <1>7, <1>15

(* What is made of arguments.                                               *)
LEMMA CallShows ==
  ASSUME NEW f \in Form, NEW c \in Context, \A i \in 1..Len(f.args) : Shows(f.args[i]),
         NEW op \in {"invoke", "throw", "yield"}, NEW pos, NEW info,
         NEW a, a = ArgsOf(f, c), NEW n, n = Node(op, pos, a.nodes, info), a.ok,
         NEW b \in Nat, NEW p \in Nat, Base(c, b, p), NEW tail \in Tails, Stands(n, c, b, p, tail)
  PROVE  All(WellFormed, f.args, Inner(Place(c, b, p, tail)))
<1>1. Clear(n, b, p) /\ (Len(c.points) > p => Allows(n, tail)) BY DEF Stands
<1>2. (n.recurs <=> Recurs(op, a.nodes)) /\ (n.tail <=> RecurIsTail(op, a.nodes)) BY NodeFacts
<1>3. (n.recurs <=> ~NoneRecurs(a.nodes)) /\ (n.tail <=> NoneRecurs(a.nodes))
  BY <1>2 DEF Recurs, RecurIsTail
<1>4. PICK at : at = Place(c, b, p, tail) OBVIOUS
<1>5. InnerTail(tail) \in Tails /\ Inner(at) = Place(c, b, p, InnerTail(tail))
  BY <1>4, PlaceInner
<1>6. PICK u \in Tails : u = InnerTail(tail) BY <1>5
<1>7. u # "last" /\ (u = "nowhere" => tail \in {"last", "nowhere"}) BY <1>6 DEF InnerTail
<1>8. Len(c.points) > p /\ u = "nowhere" => NoneRecurs(a.nodes) BY <1>1, <1>3, <1>7 DEF Allows
<1>9. \A j \in DOMAIN a.nodes : Below(a.nodes[j], n) BY NodeBelow
<1>10. All(WellFormed, f.args, Place(c, b, p, u)) BY <1>1, <1>7, <1>8, <1>9, ArgsShow
<1>11. QED BY <1>4, <1>5, <1>6, <1>10

(* The node that was made.                                                  *)
LEMMA MadeNode ==
  ASSUME NEW a, NEW n, NEW r, r = Makes(a, n), r.ok
  PROVE  a.ok /\ r.nodes[1] = n
<1>1. a.ok
  <2>1. CASE ~a.ok BY <2>1 DEF Makes
  <2>2. QED BY <2>1
<1>2. r.nodes = <<n>> BY <1>1 DEF Makes, Returns
<1>3. QED BY <1>1, <1>2

(* An accepted call, or throw, is well formed.                              *)
LEMMA InvokeShows ==
  ASSUME NEW f \in Form, f.is \in {"invoke", "throw"}, \A i \in 1..Len(f.args) : Shows(f.args[i]),
         NEW pos \in Position, NEW c \in Context, NEW op \in {"invoke", "throw"}, NEW info
  PROVE  ShowsAt(f, c, Makes(ArgsOf(f, c), Node(op, pos, ArgsOf(f, c).nodes, info)))
<1>1. PICK a : a = ArgsOf(f, c) OBVIOUS
<1>2. PICK n : n = Node(op, pos, a.nodes, info) OBVIOUS
<1>3. PICK r : r = Makes(a, n) OBVIOUS
<1>4. ASSUME r.ok, NEW b \in Nat, NEW p \in Nat, NEW tail \in Tails, Base(c, b, p),
             Stands(r.nodes[1], c, b, p, tail)
      PROVE  WellFormed[f][Place(c, b, p, tail)]
  <2>1. a.ok /\ r.nodes[1] = n BY <1>3, <1>4, MadeNode
  <2>2. Stands(n, c, b, p, tail) BY <1>4, <2>1
  <2>3. op \in {"invoke", "throw", "yield"} OBVIOUS
  <2>4. PICK at : at = Place(c, b, p, tail) OBVIOUS
  <2>5. All(WellFormed, f.args, Inner(Place(c, b, p, tail)))
    BY <1>1, <1>2, <1>4, <2>1, <2>2, <2>3, CallShows
  <2>6. at \in Where
    <3>1. IsPlace(at, c, b, p, tail) BY <1>4, <2>4, PlaceFacts
    <3>2. QED BY <3>1 DEF IsPlace
  <2>7. All(WellFormed, f.args, Inner(at)) BY <2>4, <2>5
  <2>8. WellFormed[f][at] BY <2>6, <2>7, WellFormedCases
  <2>9. QED BY <2>4, <2>8
<1>5. ShowsAt(f, c, r) BY <1>4 DEF ShowsAt
<1>6. QED BY <1>1, <1>2, <1>3, <1>5

(* An accepted recur is well formed.                                        *)
LEMMA RecurShows ==
  ASSUME NEW f \in Form, f.is = "recur", \A i \in 1..Len(f.args) : Shows(f.args[i]),
         NEW pos \in Position, NEW c \in Context
  PROVE  ShowsAt(f, c, RecurAst(Analyze, f, pos, c))
<1>1. PICK a : a = ArgsOf(f, c) OBVIOUS
<1>2. PICK info : info = [point |-> Len(c.points)] OBVIOUS
<1>3. PICK n : n = Node("recur", pos, a.nodes, info) OBVIOUS
<1>4. PICK r : r = RecurAst(Analyze, f, pos, c) OBVIOUS
<1>5. r = IF c.points = <<>> \/ Last(c.points) # Len(f.args) THEN Raises(c) ELSE Makes(a, n)
  BY <1>1, <1>2, <1>3, <1>4, RecurIs
<1>6. ASSUME r.ok, NEW b \in Nat, NEW p \in Nat, NEW tail \in Tails, Base(c, b, p),
             Stands(r.nodes[1], c, b, p, tail)
      PROVE  WellFormed[f][Place(c, b, p, tail)]
  <2>1. ~(c.points = <<>> \/ Last(c.points) # Len(f.args))
    <3>1. CASE c.points = <<>> \/ Last(c.points) # Len(f.args)
      <4>1. r = Raises(c) BY <1>5, <3>1
      <4>2. QED BY <1>6, <4>1 DEF Raises
    <3>2. QED BY <3>1
  <2>2. r = Makes(a, n) BY <1>5, <2>1
  <2>3. a.ok /\ r.nodes[1] = n BY <1>6, <2>2, MadeNode
  <2>4. Clear(n, b, p) /\ (Len(c.points) > p => Allows(n, tail)) BY <1>6, <2>3 DEF Stands
  <2>5. PICK k \in Nat : k = Len(c.points) BY ContextFacts, LenProperties
  <2>6. k > p
    <3>1. k # 0
      <4>1. c.points \in Seq(Nat) BY ContextFacts
      <4>2. QED BY <2>1, <2>5, <4>1, EmptySeq
    <3>2. k \in n.points
      <4>1. n.points = (IF "recur" = "recur" THEN {info.point} ELSE {})
                         \cup UNION {a.nodes[i].points : i \in DOMAIN a.nodes}
        BY <1>3, NodeFacts
      <4>2. info.point = k BY <1>2, <2>5
      <4>3. QED BY <4>1, <4>2
    <3>3. k \notin 1..p BY <2>4, <3>2 DEF Clear
    <3>4. QED BY <1>6, <2>5, <3>1, <3>3
  <2>7. n.recurs
    <3>1. n.recurs <=> Recurs("recur", a.nodes) BY <1>3, NodeFacts
    <3>2. QED BY <3>1 DEF Recurs
  <2>8. tail # "nowhere" BY <2>4, <2>5, <2>6, <2>7 DEF Allows
  <2>9. PICK at : at = Place(c, b, p, tail) OBVIOUS
  <2>10. at \in Where /\ at.tail = tail /\ at.arity = ArityIn(c, p)
    <3>1. IsPlace(at, c, b, p, tail) BY <1>6, <2>9, PlaceFacts
    <3>2. QED BY <3>1 DEF IsPlace
  <2>11. at.arity = Len(f.args) BY <2>1, <2>5, <2>6, <2>10 DEF ArityIn
  <2>12. Unchecked(at) = Place(c, b, p, "anywhere") BY <1>6, <2>9, PlaceInner
  <2>13. "anywhere" \in Tails BY DEF Tails
  <2>14. \A j \in DOMAIN a.nodes : Below(a.nodes[j], n) BY <1>3, NodeBelow
  <2>15. All(WellFormed, f.args, Place(c, b, p, "anywhere"))
    <3>1. PICK u \in Tails : u = "anywhere" BY <2>13
    <3>2. u # "last" BY <3>1
    <3>3. Len(c.points) > p /\ u = "nowhere" => NoneRecurs(a.nodes) BY <3>1
    <3>4. All(WellFormed, f.args, Place(c, b, p, u))
      BY <1>1, <1>6, <2>3, <2>4, <2>14, <3>2, <3>3, ArgsShow
    <3>5. QED BY <3>1, <3>4
  <2>16. All(WellFormed, f.args, Unchecked(at)) BY <2>12, <2>15
  <2>17. WellFormed[f][at] BY <2>8, <2>10, <2>11, <2>16, WellFormedCases
  <2>18. QED BY <2>9, <2>17
<1>7. ShowsAt(f, c, r) BY <1>6 DEF ShowsAt
<1>8. QED BY <1>4, <1>7

(* An accepted yield is in a function, and its argument is well formed.     *)
LEMMA YieldShows ==
  ASSUME NEW f \in Form, f.is = "yield", \A i \in 1..Len(f.args) : Shows(f.args[i]),
         NEW pos \in Position, NEW c \in Context
  PROVE  ShowsAt(f, c, YieldAst(Analyze, f, pos, c))
<1>1. PICK d : d = Marked(c) OBVIOUS
<1>2. PICK a : a = ArgsOf(f, d) OBVIOUS
<1>3. PICK n : n = Node("yield", pos, a.nodes, NoInfo) OBVIOUS
<1>4. PICK r : r = YieldAst(Analyze, f, pos, c) OBVIOUS
<1>5. r = IF c.functions = <<>> THEN Raises(c) ELSE Makes(a, n)
  BY <1>1, <1>2, <1>3, <1>4, YieldIs
<1>6. ASSUME r.ok, NEW b \in Nat, NEW p \in Nat, NEW tail \in Tails, Base(c, b, p),
             Stands(r.nodes[1], c, b, p, tail)
      PROVE  WellFormed[f][Place(c, b, p, tail)]
  <2>1. c.functions # <<>>
    <3>1. CASE c.functions = <<>>
      <4>1. r = Raises(c) BY <1>5, <3>1
      <4>2. QED BY <1>6, <4>1 DEF Raises
    <3>2. QED BY <3>1
  <2>2. r = Makes(a, n) BY <1>5, <2>1
  <2>3. a.ok /\ r.nodes[1] = n BY <1>6, <2>2, MadeNode
  <2>4. d \in Context /\ Undone(c, d) BY <1>1, <2>1, MarkedFacts
  <2>5. Base(d, b, p) /\ Len(d.points) = Len(c.points)
          /\ \A t : Place(d, b, p, t) = Place(c, b, p, t)
    BY <1>6, <2>4, PlaceSame
  <2>6. Stands(n, d, b, p, tail) BY <1>6, <2>3, <2>5 DEF Stands
  <2>7. All(WellFormed, f.args, Inner(Place(d, b, p, tail)))
    BY <1>2, <1>3, <1>6, <2>3, <2>4, <2>5, <2>6, CallShows
  <2>8. PICK at : at = Place(c, b, p, tail) OBVIOUS
  <2>9. at \in Where /\ at.fn
    <3>1. IsPlace(at, c, b, p, tail) BY <1>6, <2>8, PlaceFacts
    <3>2. QED BY <2>1, <3>1 DEF IsPlace
  <2>10. All(WellFormed, f.args, Inner(at)) BY <2>5, <2>7, <2>8
  <2>11. WellFormed[f][at] BY <2>9, <2>10, WellFormedCases
  <2>12. QED BY <2>8, <2>11
<1>7. ShowsAt(f, c, r) BY <1>6 DEF ShowsAt
<1>8. QED BY <1>4, <1>7

(* Where a macro is accepted, what it gives is well formed.                 *)
LEMMA MacroShows ==
  ASSUME NEW f \in Form, f.is = "macro", \A i \in 1..Len(f.args) : Shows(f.args[i]),
         NEW pos \in Position, NEW c \in Context
  PROVE  ShowsAt(f, c, MacroAst(Analyze, f, pos, c))
<1>1. PICK a : a = Analyze[f.args[1]]["expression"][c] OBVIOUS
<1>2. PICK r : r = MacroAst(Analyze, f, pos, c) OBVIOUS
<1>3. r = IF a.ok /\ a.ctx.points # <<>> /\ ~a.nodes[1].tail THEN Raises(a.ctx) ELSE a
  BY <1>1, <1>2, MacroIs
<1>4. Len(f.args) = 1 /\ f.args \in Seq(Form) BY FormFacts DEF HasShape
<1>5. f.args[1] \in Form /\ Shows(f.args[1]) BY <1>4, ElementOfSeq
<1>6. "expression" \in Position BY DEF Position
<1>7. IsResult(c, a) /\ ShowsAt(f.args[1], c, a) BY <1>1, <1>5, <1>6, OneIs DEF Shows
<1>8. ASSUME r.ok, NEW b \in Nat, NEW p \in Nat, NEW tail \in Tails, Base(c, b, p),
             Stands(r.nodes[1], c, b, p, tail)
      PROVE  WellFormed[f][Place(c, b, p, tail)]
  <2>1. r = a /\ ~(a.ok /\ a.ctx.points # <<>> /\ ~a.nodes[1].tail)
    <3>1. CASE a.ok /\ a.ctx.points # <<>> /\ ~a.nodes[1].tail
      <4>1. r = Raises(a.ctx) BY <1>3, <3>1
      <4>2. QED BY <1>8, <4>1 DEF Raises
    <3>2. QED BY <1>3, <3>1
  <2>2. a.ok BY <1>8, <2>1
  <2>3. PICK x : x = a.nodes[1] OBVIOUS
  <2>4. Stands(x, c, b, p, tail) BY <1>8, <2>1, <2>3
  <2>5. Stands(a.nodes[1], c, b, p, tail) BY <2>3, <2>4
  <2>6. WellFormed[f.args[1]][Place(c, b, p, tail)] BY <1>7, <1>8, <2>2, <2>5 DEF ShowsAt
  <2>7. "last" \in Tails BY DEF Tails
  <2>8. Stands(a.nodes[1], c, b, p, "last")
    <3>1. a.ctx.points = c.points BY <1>7, <2>2 DEF IsResult, Undone
    <3>2. Len(c.points) > p => c.points # <<>>
      <4>1. c.points \in Seq(Nat) /\ Len(c.points) \in Nat BY ContextFacts, LenProperties
      <4>2. QED BY <1>8, <4>1, EmptySeq
    <3>3. Len(c.points) > p => Allows(x, "last") BY <2>1, <2>2, <2>3, <3>1, <3>2 DEF Allows
    <3>4. Stands(x, c, b, p, "last") BY <2>4, <3>3 DEF Stands
    <3>5. QED BY <2>3, <3>4
  <2>9. WellFormed[f.args[1]][Place(c, b, p, "last")] BY <1>7, <1>8, <2>2, <2>7, <2>8 DEF ShowsAt
  <2>10. PICK at : at = Place(c, b, p, tail) OBVIOUS
  <2>11. AsLast(at) = Place(c, b, p, "last") BY <1>8, <2>10, PlaceInner
  <2>12. at \in Where
    <3>1. IsPlace(at, c, b, p, tail) BY <1>8, <2>10, PlaceFacts
    <3>2. QED BY <3>1 DEF IsPlace
  <2>13. WellFormed[f.args[1]][at] /\ WellFormed[f.args[1]][AsLast(at)]
    BY <2>6, <2>9, <2>10, <2>11
  <2>14. WellFormed[f][at] BY <2>12, <2>13, WellFormedCases
  <2>15. QED BY <2>10, <2>14
<1>9. ShowsAt(f, c, r) BY <1>8 DEF ShowsAt
<1>10. QED BY <1>2, <1>9

(* An accepted if is well formed.                                           *)
LEMMA IfShows ==
  ASSUME NEW f \in Form, f.is = "if", \A i \in 1..Len(f.args) : Shows(f.args[i]),
         NEW pos \in Position, NEW c \in Context
  PROVE  ShowsAt(f, c, IfAst(Analyze, f, pos, c))
<1>1. PICK s : s = Branches(f, pos) OBVIOUS
<1>2. s \in Seq(Item) /\ Len(s) = 3 /\ \A i \in 1..3 : s[i].form = f.args[i] /\ s[i].binds = {}
  BY <1>1, BranchesList
<1>3. Len(f.args) = 3 BY FormFacts DEF HasShape
<1>4. \A i \in 1..Len(s) : Shows(s[i].form) BY <1>2, <1>3
<1>5. Plain(s) BY <1>2 DEF Plain
<1>6. PICK a : a = AnalyzeAll(Analyze, s, c) OBVIOUS
<1>7. PICK n : n = Node("if", pos, a.nodes, NoInfo) OBVIOUS
<1>8. PICK r : r = IfAst(Analyze, f, pos, c) OBVIOUS
<1>9. r = Makes(a, n) BY <1>1, <1>6, <1>7, <1>8 DEF IfAst
<1>10. ASSUME r.ok, NEW b \in Nat, NEW p \in Nat, NEW tail \in Tails, Base(c, b, p),
              Stands(r.nodes[1], c, b, p, tail)
       PROVE  WellFormed[f][Place(c, b, p, tail)]
  <2>1. a.ok /\ r.nodes[1] = n BY <1>9, <1>10, MadeNode
  <2>2. Clear(n, b, p) /\ (Len(c.points) > p => Allows(n, tail)) BY <1>10, <2>1 DEF Stands
  <2>3. AllUpto(c, s, Len(s), a) BY <1>2, <1>5, <1>6, AnalyzeAllIs
  <2>4. DOMAIN a.nodes = 1..3 BY <1>2, <2>1, <2>3, LenProperties DEF AllUpto
  <2>5. (n.recurs <=> Recurs("if", a.nodes)) /\ (n.tail <=> RecurIsTail("if", a.nodes))
    BY <1>7, NodeFacts
  <2>6. n.recurs <=> ~NoneRecurs(a.nodes) BY <2>5 DEF Recurs
  <2>7. n.tail <=> ~a.nodes[1].recurs /\ a.nodes[2].tail /\ a.nodes[3].tail
    BY <2>5, Zenon DEF RecurIsTail
  <2>8. \A i \in DOMAIN a.nodes : Below(a.nodes[i], n) BY <1>7, NodeBelow
  <2>9. PICK at : at = Place(c, b, p, tail) OBVIOUS
  <2>10. InnerTail(tail) \in Tails /\ Inner(at) = Place(c, b, p, InnerTail(tail))
    BY <1>10, <2>9, PlaceInner
  <2>11. PICK u \in Tails : u = InnerTail(tail) BY <2>10
  <2>12. u # "last" /\ (u = "nowhere" => tail \in {"last", "nowhere"})
    BY <2>11 DEF InnerTail
  <2>13. ASSUME NEW i \in 1..3, NEW t \in Tails, Len(c.points) > p => Allows(a.nodes[i], t)
         PROVE  WellFormed[f.args[i]][Place(c, b, p, t)]
    <3>1. PICK m : m = a.nodes[i] OBVIOUS
    <3>2. Below(m, n) BY <2>4, <2>8, <3>1
    <3>3. Clear(m, b, p) BY <2>2, <3>2, ClearBelow
    <3>4. Stands(m, c, b, p, t) BY <2>13, <3>1, <3>3 DEF Stands
    <3>5. Stands(a.nodes[i], c, b, p, t) BY <3>1, <3>4
    <3>6. i \in 1..Len(s) /\ s[i].form = f.args[i] BY <1>2
    <3>7. Shows(s[i].form) BY <1>4, <3>6
    <3>8. WellFormed[s[i].form][Place(c, b, p, t)]
      BY <1>2, <1>5, <1>6, <1>10, <2>1, <3>5, <3>6, <3>7, PlainShows
    <3>9. QED BY <3>6, <3>8
  <2>14. ~n.recurs => ~a.nodes[1].recurs /\ ~a.nodes[2].recurs /\ ~a.nodes[3].recurs
    BY <2>4, <2>6 DEF NoneRecurs
  <2>15. Len(c.points) > p => Allows(a.nodes[1], u)
    BY <2>2, <2>7, <2>12, <2>14 DEF Allows
  <2>16. Len(c.points) > p => Allows(a.nodes[2], tail) BY <2>2, <2>7, <2>14 DEF Allows
  <2>17. Len(c.points) > p => Allows(a.nodes[3], tail) BY <2>2, <2>7, <2>14 DEF Allows
  <2>18. WellFormed[f.args[1]][Place(c, b, p, u)] BY <2>13, <2>15
  <2>19. WellFormed[f.args[2]][at] /\ WellFormed[f.args[3]][at]
    BY <2>9, <2>13, <2>16, <2>17
  <2>20. at \in Where
    <3>1. IsPlace(at, c, b, p, tail) BY <1>10, <2>9, PlaceFacts
    <3>2. QED BY <3>1 DEF IsPlace
  <2>21. WellFormed[f.args[1]][Inner(at)] BY <2>10, <2>11, <2>18
  <2>22. WellFormed[f][at] BY <2>19, <2>20, <2>21, WellFormedCases
  <2>23. QED BY <2>9, <2>22
<1>11. ShowsAt(f, c, r) BY <1>10 DEF ShowsAt
<1>12. QED BY <1>8, <1>11

(* A symbol that is found in a frame that is not left behind is in scope.   *)
LEMMA SymbolShows ==
  ASSUME NEW f \in Form, f.is = "symbol", NEW pos \in Position, NEW c \in Context
  PROVE  ShowsAt(f, c, SymbolNode(f, pos, c))
<1>1. PICK r : r = SymbolNode(f, pos, c) OBVIOUS
<1>2. PICK m : m = Max(FindSymbol(c, f.name)) OBVIOUS
<1>3. PICK info : info = [name |-> f.name, frame |-> m] OBVIOUS
<1>4. PICK n : n = Node("local", pos, <<>>, info) OBVIOUS
<1>5. r = IF FindSymbol(c, f.name) = {} THEN Raises(c) ELSE Returns(c, <<n>>)
  BY <1>1, <1>2, <1>3, <1>4 DEF SymbolNode
<1>6. ASSUME r.ok, NEW b \in Nat, NEW p \in Nat, NEW tail \in Tails, Base(c, b, p),
             Stands(r.nodes[1], c, b, p, tail)
      PROVE  WellFormed[f][Place(c, b, p, tail)]
  <2>1. FindSymbol(c, f.name) # {}
    <3>1. CASE FindSymbol(c, f.name) = {}
      <4>1. r = Raises(c) BY <1>5, <3>1
      <4>2. QED BY <1>6, <4>1 DEF Raises
    <3>2. QED BY <3>1
  <2>2. r.nodes[1] = n
    <3>1. r.nodes = <<n>> BY <1>5, <2>1 DEF Returns
    <3>2. QED BY <3>1
  <2>3. Clear(n, b, p) BY <1>6, <2>2 DEF Stands
  <2>4. m \in FindSymbol(c, f.name) /\ m \in 2..Len(c.frames) BY <1>2, <2>1, FoundSymbol
  <2>5. n.frames = (IF "local" = "local" THEN {info.frame} ELSE {})
                     \cup UNION {<<>>[i].frames : i \in DOMAIN <<>>}
    BY <1>4, NodeFacts
  <2>6. m \in n.frames BY <1>3, <2>5
  <2>7. m \notin 1..b BY <2>3, <2>6 DEF Clear
  <2>8. m > b
    <3>1. m \in Int /\ 1 <= m BY <2>4, ContextFacts
    <3>2. QED BY <1>6, <2>7, <3>1
  <2>9. b \in 0..Len(c.frames) BY <1>6 DEF Base
  <2>10. f.name \in Bound(c, b) BY <2>4, <2>8, <2>9, BoundFacts
  <2>11. PICK at : at = Place(c, b, p, tail) OBVIOUS
  <2>12. at \in Where /\ at.scope = Bound(c, b)
    <3>1. IsPlace(at, c, b, p, tail) BY <1>6, <2>11, PlaceFacts
    <3>2. QED BY <3>1 DEF IsPlace
  <2>13. f.name \in at.scope BY <2>10, <2>12
  <2>14. WellFormed[f][at] BY <2>12, <2>13, WellFormedCases
  <2>15. QED BY <2>11, <2>14
<1>7. ShowsAt(f, c, r) BY <1>6 DEF ShowsAt
<1>8. QED BY <1>1, <1>7

(* An accepted do is well formed.                                           *)
LEMMA DoShows ==
  ASSUME NEW f \in Form, f.is = "do", \A i \in 1..Len(f.args) : Shows(f.args[i]),
         NEW pos \in Position, NEW c \in Context
  PROVE  ShowsAt(f, c, AnalyzeBody(Analyze, f.args, pos, c))
<1>1. PICK r : r = AnalyzeBody(Analyze, f.args, pos, c) OBVIOUS
<1>2. f.args \in Seq(Form) BY FormFacts
<1>3. ASSUME r.ok, NEW b \in Nat, NEW p \in Nat, NEW tail \in Tails, Base(c, b, p),
             Stands(r.nodes[1], c, b, p, tail)
      PROVE  WellFormed[f][Place(c, b, p, tail)]
  <2>1. Body(WellFormed, f.args, Place(c, b, p, tail)) BY <1>1, <1>2, <1>3, BodyShows
  <2>2. PICK at : at = Place(c, b, p, tail) OBVIOUS
  <2>3. at \in Where
    <3>1. IsPlace(at, c, b, p, tail) BY <1>3, <2>2, PlaceFacts
    <3>2. QED BY <3>1 DEF IsPlace
  <2>4. Body(WellFormed, f.args, at) BY <2>1, <2>2
  <2>5. WellFormed[f][at] BY <2>3, <2>4, WellFormedCases
  <2>6. QED BY <2>2, <2>5
<1>4. ShowsAt(f, c, r) BY <1>3 DEF ShowsAt
<1>5. QED BY <1>1, <1>4

(* A constant is always well formed.                                        *)
LEMMA ConstShows ==
  ASSUME NEW f \in Form, f.is = "const", NEW c \in Context, NEW r
  PROVE  ShowsAt(f, c, r)
<1>1. ASSUME NEW b \in Nat, NEW p \in Nat, NEW tail \in Tails, Base(c, b, p)
      PROVE  WellFormed[f][Place(c, b, p, tail)]
  <2>1. PICK at : at = Place(c, b, p, tail) OBVIOUS
  <2>2. at \in Where
    <3>1. IsPlace(at, c, b, p, tail) BY <1>1, <2>1, PlaceFacts
    <3>2. QED BY <3>1 DEF IsPlace
  <2>3. WellFormed[f][at] BY <2>2, WellFormedCases
  <2>4. QED BY <2>1, <2>3
<1>2. QED BY <1>1 DEF ShowsAt

(* A form that is accepted, and that refers to nothing that errors have left *)
(* behind, is well formed.                                                  *)
THEOREM EveryFormShows == \A f \in Form : Shows(f)
<1> DEFINE S == {f \in Form : Shows(f)}
<1>1. ASSUME NEW f \in Form, Parts(f) \subseteq S PROVE f \in S
  <2> SUFFICES ASSUME NEW pos \in Position, NEW c \in Context
               PROVE  ShowsAt(f, c, AnalyzeOne(Analyze, f, pos, c))
    BY AnalyzeIs DEF Shows
  <2>1. /\ \A i \in 1..Len(f.args) : f.args[i] \in S
        /\ f.is \in {"let*", "loop*"} => \A i \in 1..Len(BodyOf(f)) : BodyOf(f)[i] \in S
        /\ f.is = "fn*" => \A i \in 1..Len(f.body) : f.body[i] \in S
        /\ f.is = "try" => /\ \A i \in 1..Len(f.catches) : f.catches[i] \in S
                           /\ \A i \in 1..Len(f.finally) : f.finally[i] \in S
    <3> HIDE DEF S
    <3>1. QED BY <1>1, PartsAre
  <2>2. /\ \A i \in 1..Len(f.args) : Shows(f.args[i])
        /\ f.is \in {"let*", "loop*"} => \A i \in 1..Len(BodyOf(f)) : Shows(BodyOf(f)[i])
        /\ f.is = "fn*" => \A i \in 1..Len(f.body) : Shows(f.body[i])
        /\ f.is = "try" => /\ \A i \in 1..Len(f.catches) : Shows(f.catches[i])
                           /\ \A i \in 1..Len(f.finally) : Shows(f.finally[i])
    BY <2>1
  <2> HIDE DEF S
  <2>3. CASE f.is = "const" BY <2>3, ConstShows
  <2>4. CASE f.is = "malformed"
    <3>1. ShowsAt(f, c, Raises(c)) BY DEF ShowsAt, Raises
    <3>2. QED BY <2>4, <3>1 DEF AnalyzeOne
  <2>5. CASE f.is = "symbol"
    <3>1. ShowsAt(f, c, SymbolNode(f, pos, c)) BY <2>5, SymbolShows
    <3>2. QED BY <2>5, <3>1 DEF AnalyzeOne
  <2>6. CASE f.is = "invoke"
    <3>1. PICK info : info = [name |-> f.name] OBVIOUS
    <3>2. ShowsAt(f, c, Makes(ArgsOf(f, c), Node("invoke", pos, ArgsOf(f, c).nodes, info)))
      BY <2>2, <2>6, InvokeShows
    <3>3. ShowsAt(f, c, InvokeAst(Analyze, f, pos, c)) BY <3>1, <3>2, CallsAre
    <3>4. QED BY <2>6, <3>3 DEF AnalyzeOne
  <2>7. CASE f.is = "do"
    <3>1. ShowsAt(f, c, AnalyzeBody(Analyze, f.args, pos, c)) BY <2>2, <2>7, DoShows
    <3>2. QED BY <2>7, <3>1 DEF AnalyzeOne
  <2>8. CASE f.is = "if"
    <3>1. ShowsAt(f, c, IfAst(Analyze, f, pos, c)) BY <2>2, <2>8, IfShows
    <3>2. QED BY <2>8, <3>1 DEF AnalyzeOne
  <2>9. CASE f.is = "let*"
    <3>1. ShowsAt(f, c, LetAst(Analyze, f, pos, c)) BY <2>2, <2>9, LetShows
    <3>2. QED BY <2>9, <3>1 DEF AnalyzeOne
  <2>10. CASE f.is = "loop*"
    <3>1. ShowsAt(f, c, LoopAst(Analyze, f, pos, c)) BY <2>2, <2>10, LoopShows
    <3>2. QED BY <2>10, <3>1 DEF AnalyzeOne
  <2>11. CASE f.is = "fn*"
    <3>1. ShowsAt(f, c, FnAst(Analyze, f, pos, c)) BY <2>2, <2>11, FnShows
    <3>2. QED BY <2>11, <3>1 DEF AnalyzeOne
  <2>12. CASE f.is = "try"
    <3>1. ShowsAt(f, c, TryAst(Analyze, f, pos, c)) BY <2>2, <2>12, TryShows
    <3>2. QED BY <2>12, <3>1 DEF AnalyzeOne
  <2>13. CASE f.is = "throw"
    <3>1. PICK info : info = NoInfo OBVIOUS
    <3>2. ShowsAt(f, c, Makes(ArgsOf(f, c), Node("throw", pos, ArgsOf(f, c).nodes, info)))
      BY <2>2, <2>13, InvokeShows
    <3>3. ShowsAt(f, c, ThrowAst(Analyze, f, pos, c)) BY <3>1, <3>2, CallsAre
    <3>4. QED BY <2>13, <3>3 DEF AnalyzeOne
  <2>14. CASE f.is = "recur"
    <3>1. ShowsAt(f, c, RecurAst(Analyze, f, pos, c)) BY <2>2, <2>14, RecurShows
    <3>2. QED BY <2>14, <3>1 DEF AnalyzeOne
  <2>15. CASE f.is = "yield"
    <3>1. ShowsAt(f, c, YieldAst(Analyze, f, pos, c)) BY <2>2, <2>15, YieldShows
    <3>2. QED BY <2>15, <3>1 DEF AnalyzeOne
  <2>16. CASE f.is = "macro"
    <3>1. ShowsAt(f, c, MacroAst(Analyze, f, pos, c)) BY <2>2, <2>16, MacroShows
    <3>2. QED BY <2>16, <3>1 DEF AnalyzeOne
  <2>17. QED
    BY <2>3, <2>4, <2>5, <2>6, <2>7, <2>8, <2>9, <2>10, <2>11, <2>12, <2>13, <2>14, <2>15, <2>16,
       FormFacts
<1>2. Form \subseteq S
  <2> HIDE DEF S
  <2>1. QED BY <1>1, FormInduction
<1>3. QED BY <1>2
=============================================================================
