-------------------------- MODULE ExprVisitorsProofs --------------------------
(***************************************************************************)
(* Proofs about ExprVisitors, for every set of expressions and ranges, any *)
(* width of int, and whatever HasVar and HasLog answer: the results that a *)
(* visit takes from the visitor's stack are those the visits below it put  *)
(* there.                                                                  *)
(***************************************************************************)
EXTENDS ExprVisitors, TLAPS

\* A sequence, of whatever.
IsSequence(s) == \E S : s \in Seq(S)

\* What is left of a plan.
PlansLeft == Plans \cup {<<"eval", "invert">>, << >>}

\* What there is between a visit and the visits it called: those wait for the result
\* of one of their operands, and only the innermost may just have started.  ExprInvert
\* calls nothing it returns to, and after an error no visit of ExprApply starts.
Waiting ==
  /\ IsSequence(frames) /\ IsSequence(stack_)
  /\ plan \in PlansLeft /\ status \in {"running", "returned", "undefined"}
  /\ \A i \in DOMAIN frames :
       /\ frames[i].pc \in {"enter", "left", "right"}
       /\ i < Len(frames) => frames[i].pc # "enter"
  /\ Running("invert") => \A i \in DOMAIN frames : frames[i].pc = "enter"
  /\ status = "running" => plan # << >>
  /\ status = "running" /\ error_ /\ frames # << >> => Cur.pc # "enter"

IInv == Waiting /\ StackBalanced

-----------------------------------------------------------------------------
LEMMA LastAndRest ==
  ASSUME NEW s, IsSequence(s), s # << >>
  PROVE  LET rest == SubSeq(s, 1, Len(s) - 1) IN
         /\ Len(s) \in Nat \ {0} /\ DOMAIN s = 1..Len(s) /\ Len(s) \in DOMAIN s
         /\ IsSequence(rest) /\ Len(rest) = Len(s) - 1 /\ DOMAIN rest = 1..(Len(s) - 1)
         /\ \A i \in DOMAIN rest : rest[i] = s[i]
<1> DEFINE rest == SubSeq(s, 1, Len(s) - 1)
<1>1. PICK S : s \in Seq(S)
  BY DEF IsSequence
<1>2. Len(s) \in Nat \ {0} /\ DOMAIN s = 1..Len(s) /\ Len(s) \in DOMAIN s
  BY <1>1
<1>3. rest \in Seq(S) /\ Len(rest) = Len(s) - 1 /\ \A i \in 1..(Len(s) - 1) : rest[i] = s[i]
  BY <1>1, <1>2
<1> QED
  BY <1>2, <1>3 DEF IsSequence

LEMMA Appended ==
  ASSUME NEW s, IsSequence(s), NEW e
  PROVE  /\ Len(s) \in Nat /\ DOMAIN s = 1..Len(s)
         /\ IsSequence(Append(s, e)) /\ Len(Append(s, e)) = Len(s) + 1
         /\ DOMAIN Append(s, e) = 1..(Len(s) + 1)
         /\ Append(s, e)[Len(s) + 1] = e
         /\ \A i \in 1..Len(s) : Append(s, e)[i] = s[i]
<1>1. PICK S : s \in Seq(S)
  BY DEF IsSequence
<1> DEFINE T == S \cup {e}
<1>2. s \in Seq(T) /\ e \in T
  BY <1>1
<1>3. Append(s, e) \in Seq(T)
  BY <1>2
<1> QED
  BY <1>2, <1>3 DEF IsSequence

LEMMA EmptyIsSequence == IsSequence(<< >>) /\ \A e : IsSequence(<<e>>)
<1>1. << >> \in Seq({})
  OBVIOUS
<1>2. \A e : <<e>> \in Seq({e})
  OBVIOUS
<1> QED
  BY <1>1, <1>2 DEF IsSequence

LEMMA PlanFacts ==
  ASSUME plan \in PlansLeft
  PROVE  /\ plan # << >> => Tail(plan) \in PlansLeft
         /\ plan = << >> \/ Running("apply") \/ Running("eval") \/ Running("invert")
         /\ ~(Running("apply") /\ Running("eval")) /\ ~(Running("apply") /\ Running("invert"))
         /\ ~(Running("eval") /\ Running("invert"))
<1>1. \/ plan = <<"apply">> \/ plan = <<"eval">> \/ plan = <<"invert">> \/ plan = << >>
      \/ plan = <<"apply", "eval", "invert">> \/ plan = <<"eval", "invert">>
  BY DEF PlansLeft, Plans
<1>2. /\ \A v : Tail(<<v>>) = << >>
      /\ Tail(<<"eval", "invert">>) = <<"invert">>
      /\ Tail(<<"apply", "eval", "invert">>) = <<"eval", "invert">>
  OBVIOUS
<1>3. plan # << >> => Tail(plan) \in PlansLeft
  BY <1>1, <1>2 DEF PlansLeft, Plans
<1>4. plan = << >> \/ plan[1] \in {"apply", "eval", "invert"}
  BY <1>1
<1> QED
  BY <1>3, <1>4 DEF Running

\* A visit that returns leaves its callers as they were, and one of them, if there is
\* any, waits for what was put on the stack.
LEMMA ReturnWaits ==
  ASSUME Waiting, frames # << >>
  PROVE  /\ IsSequence(Callers)
         /\ \A i \in DOMAIN Callers : Callers[i].pc \in {"left", "right"}
         /\ Callers # << >> => Len(Callers) \in DOMAIN Callers
<1>1. IsSequence(frames)
  BY DEF Waiting
<1>2. /\ IsSequence(Callers) /\ Len(Callers) = Len(frames) - 1
      /\ DOMAIN Callers = 1..(Len(frames) - 1)
      /\ \A i \in DOMAIN Callers : Callers[i] = frames[i] /\ i \in DOMAIN frames /\ i < Len(frames)
  BY <1>1, LastAndRest DEF Callers
<1>3. Callers # << >> => Len(Callers) \in DOMAIN Callers
  BY <1>2, LastAndRest
<1> QED
  BY <1>2, <1>3 DEF Waiting

-----------------------------------------------------------------------------
\* What StackBalanced asks for while a visitor is running.
Balanced ==
  IF Running("invert") \/ error_ \/ (frames # << >> /\ Cur.pc = "enter") THEN stack_ = << >>
  ELSE Len(stack_) = 1 /\ Len(stack_[1]) = IF Running("apply") THEN 2 ELSE 1

LEMMA AtFacts ==
  ASSUME Waiting, NEW pc, NEW ops, At(pc, ops)
  PROVE  /\ status = "running" /\ frames # << >> /\ Cur.pc = pc
         /\ Len(frames) \in DOMAIN frames /\ Cur = frames[Len(frames)]
<1>1. IsSequence(frames)
  BY DEF Waiting
<1> QED
  BY <1>1, LastAndRest DEF At, Cur

LEMMA InitBalanced == Init => IInv
<1> SUFFICES ASSUME Init PROVE IInv
  OBVIOUS
<1> USE DEF Init
<1>1. frames = <<Frame(expr, "enter", << >>)>> /\ stack_ = << >> /\ error_ = FALSE
  OBVIOUS
<1>2. /\ IsSequence(frames) /\ IsSequence(stack_) /\ Len(frames) = 1 /\ DOMAIN frames = {1}
      /\ frames[1].pc = "enter" /\ Cur.pc = "enter" /\ frames # << >>
  BY <1>1, EmptyIsSequence DEF Frame, Cur
<1>21. plan # << >>
  BY DEF Plans
<1>3. Waiting
  BY <1>1, <1>2, <1>21 DEF Waiting, PlansLeft
<1>4. StackBalanced
  BY <1>1, <1>2 DEF StackBalanced
<1> QED
  BY <1>3, <1>4 DEF IInv

\* A step that ends in undefined behaviour changes nothing else.
LEMMA UndefinedKeeps ==
  ASSUME IInv, Undefined
  PROVE  IInv'
BY DEF IInv, Waiting, StackBalanced, Undefined, Running, Cur

\* A visit of a leaf, by ExprEval or by ExprApply.
LEMMA AnswerKeeps ==
  ASSUME IInv, NEW result, NEW ops, At("enter", ops),
         \/ Running("eval") /\ Len(result) = 1
         \/ Running("apply") /\ Len(result) = 2,
         Answered(result),
         UNCHANGED <<plan, bind, expr, error_, reversed_, answer, status>>
  PROVE  IInv'
<1>1. Waiting /\ StackBalanced /\ plan \in PlansLeft
  BY DEF IInv, Waiting
<1>2. frames # << >> /\ Cur.pc = "enter" /\ status = "running" /\ ~Running("invert")
  BY <1>1, AtFacts, PlanFacts
<1>3. stack_ = << >> /\ ~error_
  BY <1>1, <1>2 DEF StackBalanced, Waiting
<1>4. stack_' = <<result>> /\ frames' = Callers
  BY <1>3 DEF Answered
<1>5. Waiting'
  BY <1>1, <1>2, <1>3, <1>4, ReturnWaits, EmptyIsSequence DEF Waiting, Running, Cur
<1>6. ~(frames' # << >> /\ Cur'.pc = "enter")
  BY <1>1, <1>2, <1>4, ReturnWaits DEF Cur
<1>7. Len(stack_') = 1 /\ stack_'[1] = result
  BY <1>4
<1>8. StackBalanced'
  BY <1>2, <1>3, <1>6, <1>7, <1>1, PlanFacts DEF StackBalanced, Running
<1> QED
  BY <1>5, <1>8 DEF IInv

\* accept of an operand, by a visit that may have taken a result.
LEMMA CallKeeps ==
  ASSUME IInv, frames # << >>, status = "running", Running("eval") \/ Running("apply"), ~error_,
         NEW caller, NEW e, caller.pc \in {"left", "right"},
         frames' = Append(Append(Callers, caller), Frame(e, "enter", << >>)),
         stack_' = << >>,
         UNCHANGED <<plan, bind, expr, error_, reversed_, answer, status>>
  PROVE  IInv'
<1>1. Waiting /\ plan \in PlansLeft
  BY DEF IInv, Waiting
<1>2. /\ IsSequence(Callers)
      /\ \A i \in DOMAIN Callers : Callers[i].pc \in {"left", "right"}
  BY <1>1, ReturnWaits
<1> DEFINE mid == Append(Callers, caller)
           new == Frame(e, "enter", << >>)
<1>3. /\ IsSequence(mid) /\ Len(mid) = Len(Callers) + 1 /\ Len(Callers) \in Nat
      /\ \A i \in 1..Len(mid) : mid[i].pc \in {"left", "right"}
  BY <1>2, Appended
<1>4. /\ IsSequence(frames') /\ Len(frames') = Len(mid) + 1 /\ DOMAIN frames' = 1..Len(frames')
      /\ \A i \in 1..Len(mid) : frames'[i] = mid[i]
      /\ frames'[Len(frames')] = new
  BY <1>3, Appended
<1>5. new.pc = "enter" /\ frames' # << >> /\ Cur'.pc = "enter"
  BY <1>3, <1>4 DEF Frame, Cur
<1>6. Waiting'
  BY <1>1, <1>3, <1>4, <1>5, PlanFacts, EmptyIsSequence DEF Waiting, Running
<1>7. StackBalanced'
  BY <1>5 DEF StackBalanced
<1> QED
  BY <1>6, <1>7 DEF IInv

\* The next visitor of the plan, or the end of it.
LEMMA ContinueKeeps ==
  ASSUME IInv, plan # << >>, NEW e, Continue(e)
  PROVE  IInv'
<1>1. plan' \in PlansLeft
  BY PlanFacts DEF Continue, IInv, Waiting
<1>2. stack_' = << >> /\ error_' = FALSE
  BY DEF Continue
<1>3. CASE plan' = << >>
  BY <1>1, <1>2, <1>3, EmptyIsSequence DEF Continue, IInv, Waiting, StackBalanced, Running
<1>4. CASE plan' # << >>
  <2>1. frames' = <<Frame(e, "enter", << >>)>> /\ status' = "running"
    BY <1>4 DEF Continue
  <2>2. /\ IsSequence(frames') /\ Len(frames') = 1 /\ DOMAIN frames' = {1}
        /\ frames'[1].pc = "enter" /\ Cur'.pc = "enter" /\ frames' # << >>
    BY <2>1, EmptyIsSequence DEF Frame, Cur
  <2>3. Waiting'
    BY <1>1, <1>2, <1>4, <2>1, <2>2, EmptyIsSequence DEF Waiting
  <2>4. StackBalanced'
    BY <1>2, <2>2 DEF StackBalanced
  <2> QED
    BY <2>3, <2>4 DEF IInv
<1> QED
  BY <1>3, <1>4

LEMMA NextBalanced ==
  ASSUME IInv, [Next]_vars
  PROVE  IInv'
<1>0. Waiting /\ StackBalanced /\ plan \in PlansLeft
  BY DEF IInv, Waiting
<1>1. CASE EvalLeaf
  <2>1. Answered(<<Cur.node>>) /\ Running("eval") /\ At("enter", {"val", "var", "seq"})
    BY <1>1 DEF EvalLeaf
  <2> QED
    BY <1>1, <2>1, AnswerKeeps DEF EvalLeaf
<1>2. CASE ApplyLeaf
  <2>1. \E result : Answered(result) /\ Len(result) = 2
    BY <1>2 DEF ApplyLeaf
  <2> QED
    BY <1>2, <2>1, AnswerKeeps DEF ApplyLeaf
<1>3. CASE ApplyError
  <2>1. /\ frames # << >> /\ Cur.pc = "enter" /\ status = "running" /\ ~Running("invert")
    BY <1>0, <1>3, AtFacts, PlanFacts DEF ApplyError
  <2>2. stack_ = << >> /\ stack_' = << >>
    BY <1>3, <2>1, <1>0 DEF ApplyError, StackBalanced
  <2>3. frames' = Callers /\ error_' = TRUE
    BY <1>3 DEF ApplyError
  <2>4. Waiting'
    BY <1>0, <1>3, <2>1, <2>2, <2>3, ReturnWaits DEF Waiting, ApplyError, Running, Cur
  <2>5. StackBalanced'
    BY <2>2, <2>3 DEF StackBalanced
  <2> QED
    BY <2>4, <2>5 DEF IInv
<1>4. CASE VisitLog
  BY <1>4, UndefinedKeeps DEF VisitLog
<1>5. CASE EnterLeft
  <2> DEFINE caller == Frame(Cur.node, "left", << >>)
  <2>1. /\ At("enter", Inner) /\ (Running("eval") \/ Running("apply"))
        /\ frames' = Append(Append(Callers, caller), Frame(Cur.node.l, "enter", << >>))
        /\ UNCHANGED <<plan, bind, expr, stack_, error_, reversed_, answer, status>>
    BY <1>5 DEF EnterLeft
  <2>2. frames # << >> /\ status = "running" /\ Cur.pc = "enter"
    BY <1>0, <1>5, AtFacts DEF EnterLeft
  <2>3. stack_' = << >> /\ ~error_
    BY <1>0, <2>1, <2>2 DEF StackBalanced, Waiting
  <2>4. caller.pc = "left"
    BY DEF Frame
  <2> QED
    BY <2>1, <2>2, <2>3, <2>4, CallKeeps
<1>6. CASE TakeLeft
  <2>1. /\ frames # << >> /\ Cur.pc = "left" /\ status = "running"
        /\ Len(frames) \in DOMAIN frames /\ Cur = frames[Len(frames)]
    BY <1>0, <1>6, AtFacts DEF TakeLeft
  <2>2. ~Running("invert") /\ (Running("eval") \/ Running("apply"))
    <3>1. plan # << >> /\ ~Running("invert")
      BY <1>0, <2>1 DEF Waiting, StackBalanced
    <3> QED
      BY <1>0, <3>1, PlanFacts
  <2>3. CASE Undefined
    BY <2>3, UndefinedKeeps
  <2>4. CASE stack_ # << >>
    <3> DEFINE caller == Frame(Cur.node, "right", stack_[Len(stack_)])
    <3>1. /\ frames' = Append(Append(Callers, caller), Frame(Cur.node.r, "enter", << >>))
          /\ stack_' = SubSeq(stack_, 1, Len(stack_) - 1)
          /\ UNCHANGED <<plan, bind, expr, error_, reversed_, answer, status>>
      BY <1>6, <2>4 DEF TakeLeft, Undefined
    <3>2. ~error_ /\ Len(stack_) = 1
      BY <1>0, <2>1, <2>4 DEF StackBalanced
    <3>3. stack_' = << >>
      <4>1. IsSequence(stack_') /\ Len(stack_') = 0
        BY <1>0, <2>4, <3>1, <3>2, LastAndRest DEF Waiting
      <4> QED
        BY <4>1, LastAndRest
    <3>4. caller.pc = "right"
      BY DEF Frame
    <3> QED
      BY <2>1, <2>2, <3>1, <3>2, <3>3, <3>4, CallKeeps
  <2> QED
    BY <1>6, <2>3, <2>4 DEF TakeLeft
<1>7. CASE TakeRight
  <2>1. /\ frames # << >> /\ Cur.pc = "right" /\ status = "running"
        /\ Len(frames) \in DOMAIN frames /\ Cur = frames[Len(frames)]
    BY <1>0, <1>7, AtFacts DEF TakeRight
  <2>2. plan # << >> /\ ~Running("invert")
    BY <1>0, <2>1 DEF Waiting, StackBalanced
  <2>3. CASE Undefined
    BY <2>3, UndefinedKeeps
  <2>4. CASE stack_ # << >> /\ ~Undefined
    <3> DEFINE rest == SubSeq(stack_, 1, Len(stack_) - 1)
    <3>1. /\ frames' = Callers
          /\ UNCHANGED <<plan, bind, expr, error_, reversed_, answer, status>>
          /\ \/ Running("eval") /\ \E x : stack_' = Append(rest, <<x>>)
             \/ Running("apply") /\ \E x, y : stack_' = Append(rest, <<x, y>>)
      BY <1>7, <2>4 DEF TakeRight
    <3>2. ~error_ /\ Len(stack_) = 1
      BY <1>0, <2>1, <2>4 DEF StackBalanced
    <3>3. rest = << >>
      <4>1. IsSequence(rest) /\ Len(rest) = 0
        BY <1>0, <2>4, <3>2, LastAndRest DEF Waiting
      <4> QED
        BY <4>1, LastAndRest
    <3>4. \E r : /\ stack_' = <<r>>
                 /\ \/ Running("eval") /\ Len(r) = 1
                    \/ Running("apply") /\ Len(r) = 2
      <4>1. \A x : Append(<< >>, <<x>>) = <<<<x>>>> /\ Len(<<x>>) = 1
        OBVIOUS
      <4>2. \A x, y : Append(<< >>, <<x, y>>) = <<<<x, y>>>> /\ Len(<<x, y>>) = 2
        OBVIOUS
      <4> HIDE DEF rest
      <4> QED
        BY <3>1, <3>3, <4>1, <4>2
    <3>5. Waiting'
      BY <1>0, <2>1, <2>2, <3>1, <3>2, <3>4, ReturnWaits, EmptyIsSequence DEF Waiting, Running, Cur
    <3>6. ~(frames' # << >> /\ Cur'.pc = "enter")
      BY <1>0, <2>1, <3>1, ReturnWaits DEF Cur
    <3>7. StackBalanced'
      BY <1>0, <3>1, <3>2, <3>4, <3>6, PlanFacts DEF StackBalanced, Running
    <3> QED
      BY <3>5, <3>7 DEF IInv
  <2> QED
    BY <1>7, <2>3, <2>4 DEF TakeRight
<1>8. CASE InvertPeel
  <2>1. CASE Undefined
    BY <2>1, UndefinedKeeps
  <2>2. CASE ~Undefined
    <3>1. /\ \E e : frames' = <<Frame(e, "enter", << >>)>>
          /\ UNCHANGED <<plan, bind, expr, stack_, error_, answer, status>>
          /\ Running("invert")
      BY <1>8, <2>2 DEF InvertPeel
    <3>2. /\ IsSequence(frames') /\ Len(frames') = 1 /\ DOMAIN frames' = {1}
          /\ frames'[1].pc = "enter"
      BY <3>1, EmptyIsSequence DEF Frame
    <3>3. status = "running" /\ frames # << >> /\ Cur.pc = "enter"
      BY <1>0, <1>8, AtFacts DEF InvertPeel
    <3>4. stack_ = << >> /\ ~error_
      BY <1>0, <3>3 DEF StackBalanced, Waiting
    <3>5. Waiting' /\ StackBalanced'
      BY <1>0, <3>1, <3>2, <3>4 DEF Waiting, StackBalanced, Running
    <3> QED
      BY <3>5 DEF IInv
  <2> QED
    BY <2>1, <2>2
<1>9. CASE InvertError \/ InvertLeaf
  <2>1. /\ frames' = << >> /\ Running("invert") /\ status = "running"
        /\ UNCHANGED <<plan, bind, expr, stack_, reversed_, answer, status>>
    BY <1>9 DEF InvertError, InvertLeaf, At
  <2>2. stack_ = << >>
    BY <1>0, <2>1 DEF StackBalanced
  <2> QED
    BY <1>0, <2>1, <2>2, EmptyIsSequence DEF IInv, Waiting, StackBalanced, Running
<1>10. CASE FinishApply
  <2>1. Undefined \/ (plan # << >> /\ \E e : Continue(e))
    BY <1>10 DEF FinishApply, Finished, Running
  <2> QED
    BY <2>1, UndefinedKeeps, ContinueKeeps
<1>11. CASE FinishEval
  <2>1. Undefined \/ (plan # << >> /\ Continue(expr))
    BY <1>11 DEF FinishEval, Finished, Running
  <2> QED
    BY <2>1, UndefinedKeeps, ContinueKeeps
<1>12. CASE FinishInvert
  <2>1. Undefined \/ (plan # << >> /\ Continue(expr))
    BY <1>12 DEF FinishInvert, Finished, Running
  <2> QED
    BY <2>1, UndefinedKeeps, ContinueKeeps
<1>13. CASE UNCHANGED vars
  BY <1>0, <1>13 DEF IInv, Waiting, StackBalanced, Running, Cur, vars
<1> QED
  BY <1>1, <1>2, <1>3, <1>4, <1>5, <1>6, <1>7, <1>8, <1>9, <1>10, <1>11, <1>12, <1>13 DEF Next, Done

\* What ExprEval and ExprApply take from their stack with top() and pop() is there: one
\* result of the operand that was visited, for ExprApply one of from_ and one of to_,
\* for expressions of any size and any depth of calls.
THEOREM ResultsTaken == Spec => []StackBalanced
<1>1. IInv => StackBalanced
  BY DEF IInv
<1> QED
  BY <1>1, InitBalanced, NextBalanced, PTL DEF Spec
=============================================================================
