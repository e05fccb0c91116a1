------------------------- MODULE ModelGatewayProofs -------------------------
(***************************************************************************)
(* Proofs about ModelGateway for any aliases and prompts, any number of    *)
(* retries and of requests.                                                *)
(*                                                                         *)
(* The invariant IInv says what the two frames a stack can have look like: *)
(* the application's request, and on top of it, while that one waits for   *)
(* its verdict, the judge's.  CInv adds where each of them stands in the   *)
(* chain of fallbacks of its alias, which is the longest walk along them.  *)
(***************************************************************************)
EXTENDS ModelGateway, GuardrailsProofs

-----------------------------------------------------------------------------
(* Frames and stacks.                                                      *)

Fields == {"alias", "seen", "rest", "path", "text", "judging", "stage", "tries", "failure", "start",
           "asked", "attempts", "waved", "refused"}

\* A record with the fields of a request, whatever their values.
IsFrame(f) == DOMAIN f = Fields

\* A block is final for a request of gateway.model: it stays failed.
BlockIsFinal(f) == f.refused /\ f.path = "invoke" => f.stage = "failed" /\ f.failure = "guard"

\* The text of a frame that is asking its provider was let through for a reason.
LetThrough(f) ==
  \/ f.text \in Short
  \/ f.waved /\ onError = "warn" /\ verdicts[f.text] = "none"
  \/ ~f.waved /\ verdicts[f.text] = "safe"

\* A request of the application, and one of the judge.
Outer(f) ==
  /\ IsFrame(f) /\ ~f.judging /\ f.text \in Texts
  /\ f.waved \in BOOLEAN /\ f.refused \in BOOLEAN
  /\ f.stage = "before" => ~f.waved
  /\ f.stage = "provider" => LetThrough(f)
  /\ BlockIsFinal(f)

Inner(g) == IsFrame(g) /\ g.judging /\ g.refused \in BOOLEAN /\ BlockIsFinal(g)

\* The application's request waits for a verdict on its text.
Waits(f) == Outer(f) /\ f.stage = "before" /\ verdicts[f.text] = "none"

Stacked ==
  \/ stack = <<>>
  \/ \E f : stack = <<f>> /\ Outer(f)
  \/ \E f, g : stack = <<f, g>> /\ Waits(f) /\ Inner(g)

IInv == Stacked /\ verdicts \in [Texts -> Verdicts \cup {"none"}]

\* The stacks of the model as sequences.
LEMMA StackFacts ==
  ASSUME NEW f, NEW g
  PROVE  /\ Len(<<>>) = 0 /\ Len(<<f>>) = 1 /\ Len(<<f, g>>) = 2
         /\ <<f>> # <<>> /\ <<f, g>> # <<>>
         /\ DOMAIN <<>> = {} /\ DOMAIN <<f>> = {1} /\ DOMAIN <<f, g>> = {1, 2}
         /\ Last(<<f>>) = f /\ Last(<<f, g>>) = g
         /\ Front(<<f>>) = <<>> /\ Front(<<f, g>>) = <<f>>
         /\ Append(<<>>, f) = <<f>> /\ Append(<<f>>, g) = <<f, g>>
<1> DEFINE S == {f, g}
<1>1. <<>> \in Seq(S) /\ <<f>> \in Seq(S) /\ <<f, g>> \in Seq(S)
  OBVIOUS
<1>2. Len(<<>>) = 0 /\ Len(<<f>>) = 1 /\ Len(<<f, g>>) = 2
  OBVIOUS
<1>3. Last(<<f>>) = f /\ Last(<<f, g>>) = g
  BY <1>2 DEF Last
<1>4. Front(<<f>>) = <<>> /\ Front(<<f, g>>) = <<f>>
  <2>1. Front(<<f>>) = SubSeq(<<f>>, 1, 0) /\ Front(<<f, g>>) = SubSeq(<<f, g>>, 1, 1)
    BY <1>2 DEF Front
  <2>2. SubSeq(<<f>>, 1, 0) = <<>>
    BY <1>1, SubSeqProperties, EmptySeq
  <2>3. /\ SubSeq(<<f, g>>, 1, 1) \in Seq(S) /\ Len(SubSeq(<<f, g>>, 1, 1)) = 1
        /\ SubSeq(<<f, g>>, 1, 1)[1] = f
    BY <1>1, SubSeqProperties
  <2>4. SubSeq(<<f, g>>, 1, 1) = <<f>>
    <3>1. \A i \in 1..1 : SubSeq(<<f, g>>, 1, 1)[i] = <<f>>[i]
      BY <2>3
    <3> QED
      BY <1>1, <1>2, <2>3, <3>1, SeqEqual
  <2> QED
    BY <2>1, <2>2, <2>4
<1>5. DOMAIN <<>> = {} /\ DOMAIN <<f>> = {1} /\ DOMAIN <<f, g>> = {1, 2}
  OBVIOUS
<1>6. Append(<<>>, f) = <<f>> /\ Append(<<f>>, g) = <<f, g>>
  <2>1. /\ Append(<<>>, f) \in Seq(S) /\ Len(Append(<<>>, f)) = 1 /\ Append(<<>>, f)[1] = f
    BY <1>1, <1>2, AppendProperties
  <2>2. /\ Append(<<f>>, g) \in Seq(S) /\ Len(Append(<<f>>, g)) = 2
        /\ Append(<<f>>, g)[1] = f /\ Append(<<f>>, g)[2] = g
    BY <1>1, <1>2, AppendProperties
  <2>3. Append(<<>>, f) = <<f>>
    BY <1>1, <1>2, <2>1, SeqEqual
  <2>4. \A i \in 1..2 : Append(<<f>>, g)[i] = <<f, g>>[i]
    BY <2>2
  <2> QED
    BY <1>1, <1>2, <2>2, <2>3, <2>4, SeqEqual
<1> QED
  BY <1>2, <1>3, <1>4, <1>5, <1>6

\* How the operators on the stack read it in each of the three cases.
LEMMA StackCases ==
  ASSUME Stacked
  PROVE  \/ stack = <<>> /\ Len(stack) = 0
         \/ \E f : /\ stack = <<f>> /\ Len(stack) = 1 /\ Outer(f) /\ Current = f /\ ~Judging
                   /\ \A x : Becomes(x) => stack' = <<x>>
         \/ \E f, g : /\ stack = <<f, g>> /\ Len(stack) = 2 /\ Waits(f) /\ Inner(g)
                      /\ Current = g /\ Judging
                      /\ \A x : Becomes(x) => stack' = <<f, x>>
                      /\ Front(stack) = <<f>> /\ Last(Front(stack)) = f
                      /\ Front(Front(stack)) = <<>>
<1>1. CASE stack = <<>>
  BY <1>1, StackFacts
<1>2. ASSUME NEW f, stack = <<f>>, Outer(f)
      PROVE  /\ Len(stack) = 1 /\ Current = f /\ ~Judging
             /\ \A x : Becomes(x) => stack' = <<x>>
  <2>1. Len(stack) = 1 /\ Current = f /\ Front(stack) = <<>> /\ DOMAIN stack = {1}
    BY <1>2, StackFacts DEF Current
  <2>2. ~Judging
    BY <1>2, <2>1 DEF Judging, Outer
  <2>3. ASSUME NEW x, Becomes(x) PROVE stack' = <<x>>
    BY <2>1, <2>3, StackFacts DEF Becomes
  <2> QED
    BY <2>1, <2>2, <2>3
<1>3. ASSUME NEW f, NEW g, stack = <<f, g>>, Waits(f), Inner(g)
      PROVE  /\ Len(stack) = 2 /\ Current = g /\ Judging
             /\ \A x : Becomes(x) => stack' = <<f, x>>
             /\ Front(stack) = <<f>> /\ Last(Front(stack)) = f /\ Front(Front(stack)) = <<>>
  <2>1. /\ Len(stack) = 2 /\ Current = g /\ Front(stack) = <<f>> /\ DOMAIN stack = {1, 2}
        /\ Last(Front(stack)) = f /\ Front(Front(stack)) = <<>>
    BY <1>3, StackFacts DEF Current
  <2>2. Judging
    BY <1>3, <2>1 DEF Judging, Inner
  <2>3. ASSUME NEW x, Becomes(x) PROVE stack' = <<f, x>>
    BY <2>1, <2>3, StackFacts DEF Becomes
  <2> QED
    BY <2>1, <2>2, <2>3
<1> QED
  BY <1>1, <1>2, <1>3 DEF Stacked

\* Only the judge's request has another one under it.
LEMMA JudgeOnTop ==
  ASSUME Stacked, Len(stack) > 1
  PROVE  \E f, g : /\ stack = <<f, g>> /\ Waits(f) /\ Inner(g) /\ Current = g
                   /\ Front(stack) = <<f>> /\ Last(Front(stack)) = f
                   /\ Front(Front(stack)) = <<>>
<1>1. ~(0 > 1) /\ ~(1 > 1)
  OBVIOUS
<1>2. Len(stack) # 0 /\ Len(stack) # 1
  BY <1>1, Zenon
<1> QED
  BY <1>2, StackCases, Zenon

-----------------------------------------------------------------------------
(* What happens to the request on top of the stack.                        *)

\* The steps of the request c itself, which becomes x.
Moves(c, x) ==
  \/ c.stage = "before" /\ x = Failing(c, "unknown")
  \/ c.stage = "before" /\ Passes(c) /\ c.alias \in entries /\ x = [c EXCEPT !.stage = "provider"]
  \/ c.stage = "before" /\ x = Failing(c, "guard")
  \/ c.stage = "provider" /\ x = [Asking(c) EXCEPT !.stage = "after"]
  \/ c.stage = "provider" /\ c.tries < Retries /\ x = [Asking(c) EXCEPT !.tries = @ + 1]
  \/ c.stage = "provider" /\ \E failure \in {"error", "guard"} : x = Failing(Asking(c), failure)
  \/ c.stage = "after" /\ x = Failing(c, "guard")
  \/ /\ c.stage = "failed" /\ NextOf(c) # NoAlias
     /\ x = [c EXCEPT !.alias = NextOf(c), !.seen = @ \cup {c.alias},
                      !.rest = IF @ = <<>> THEN @ ELSE Tail(@),
                      !.stage = "before", !.tries = 0, !.failure = "none", !.waved = FALSE]

\* It stays a request about the same text on the same path; it is let through by
\* Passes only, and a block that is final stays one.
LEMMA FrameMoves ==
  ASSUME NEW c, IsFrame(c), c.refused \in BOOLEAN, BlockIsFinal(c), NEW x, Moves(c, x)
  PROVE  /\ IsFrame(x) /\ x.refused \in BOOLEAN /\ BlockIsFinal(x)
         /\ x.text = c.text /\ x.judging = c.judging /\ x.path = c.path
         /\ x.waved \in {c.waved, FALSE}
         /\ c.refused /\ c.path = "invoke" => x.attempts = c.attempts
         /\ x.stage = "before" => x.waved = FALSE
         /\ x.stage = "provider" => /\ x.waved = c.waved
                                    /\ (c.stage = "before" /\ Passes(c)) \/ c.stage = "provider"
<1>1. ASSUME NEW failure, NEW d, IsFrame(d), d.refused \in BOOLEAN, BlockIsFinal(d), d.stage # "failed"
      PROVE  LET y == Failing(d, failure) IN
             /\ IsFrame(y) /\ y.refused \in BOOLEAN /\ BlockIsFinal(y)
             /\ ~(d.refused /\ d.path = "invoke")
             /\ y.stage = "failed" /\ y.text = d.text /\ y.judging = d.judging
             /\ y.path = d.path /\ y.waved = d.waved
  <2> DEFINE y == Failing(d, failure)
  <2>1. IsFrame(y) /\ y.stage = "failed" /\ y.failure = failure
    BY <1>1 DEF Failing, IsFrame, Fields
  <2>2. y.text = d.text /\ y.judging = d.judging /\ y.path = d.path /\ y.waved = d.waved
    BY <1>1 DEF Failing, IsFrame, Fields
  <2>3. y.refused \in BOOLEAN /\ (y.refused <=> d.refused \/ failure = "guard")
    BY <1>1 DEF Failing, IsFrame, Fields
  <2>4. ~(d.refused /\ d.path = "invoke")
    BY <1>1 DEF BlockIsFinal
  <2> HIDE DEF y
  <2>5. BlockIsFinal(y)
    BY <2>1, <2>2, <2>3, <2>4 DEF BlockIsFinal
  <2> QED
    BY <2>1, <2>2, <2>3, <2>4, <2>5, Zenon DEF y
<1>2. /\ IsFrame(Asking(c)) /\ Asking(c).refused = c.refused /\ Asking(c).text = c.text
      /\ Asking(c).judging = c.judging /\ Asking(c).path = c.path /\ Asking(c).waved = c.waved
      /\ Asking(c).stage = c.stage /\ Asking(c).failure = c.failure
  BY DEF Asking, IsFrame, Fields
<1>3. CASE c.stage = "before" /\ (x = Failing(c, "unknown") \/ x = Failing(c, "guard"))
  <2>1. c.stage # "failed" /\ "failed" # "before" /\ "failed" # "provider"
    BY <1>3
  <2>2. PICK failure : x = Failing(c, failure)
    BY <1>3
  <2> QED
    BY <1>1, <2>1, <2>2, ZenonT(60)
<1>4. CASE c.stage = "before" /\ Passes(c) /\ x = [c EXCEPT !.stage = "provider"]
  BY <1>4 DEF BlockIsFinal, IsFrame, Fields
<1>5. CASE c.stage = "provider" /\ x = [Asking(c) EXCEPT !.stage = "after"]
  BY <1>2, <1>5 DEF BlockIsFinal, IsFrame, Fields
<1>6. CASE c.stage = "provider" /\ x = [Asking(c) EXCEPT !.tries = @ + 1]
  BY <1>2, <1>6 DEF BlockIsFinal, IsFrame, Fields
<1>7. ASSUME c.stage = "provider", NEW failure \in {"error", "guard"}, x = Failing(Asking(c), failure)
      PROVE  /\ IsFrame(x) /\ x.refused \in BOOLEAN /\ BlockIsFinal(x)
             /\ x.text = c.text /\ x.judging = c.judging /\ x.path = c.path /\ x.waved = c.waved
             /\ x.stage = "failed" /\ ~(c.refused /\ c.path = "invoke")
  <2>1. Asking(c).stage # "failed" /\ BlockIsFinal(Asking(c)) /\ Asking(c).refused \in BOOLEAN
    BY <1>2, <1>7 DEF BlockIsFinal
  <2> QED
    BY <1>1, <1>2, <1>7, <2>1, ZenonT(60)
<1>8. CASE c.stage = "after" /\ x = Failing(c, "guard")
  <2>1. c.stage # "failed" /\ "failed" # "before" /\ "failed" # "provider"
    BY <1>8
  <2> QED
    BY <1>1, <1>8, <2>1, ZenonT(60)
<1>9. CASE /\ c.stage = "failed" /\ NextOf(c) # NoAlias
           /\ x = [c EXCEPT !.alias = NextOf(c), !.seen = @ \cup {c.alias},
                            !.rest = IF @ = <<>> THEN @ ELSE Tail(@),
                            !.stage = "before", !.tries = 0, !.failure = "none", !.waved = FALSE]
  <2>1. c.path = "invoke" => c.failure = "error"
    BY <1>9 DEF NextOf
  <2>2. ~(c.refused /\ c.path = "invoke")
    BY <2>1 DEF BlockIsFinal
  <2> QED
    BY <1>9, <2>2 DEF BlockIsFinal, IsFrame, Fields
<1> QED
  BY <1>3, <1>4, <1>5, <1>6, <1>7, <1>8, <1>9 DEF Moves

\* A blocked request asks nobody.
LEMMA BlockedAsksNobody ==
  ASSUME NEW c, IsFrame(c), c.refused \in BOOLEAN, BlockIsFinal(c), NEW x, Moves(c, x),
         c.refused, c.path = "invoke"
  PROVE  x.attempts = c.attempts
  BY FrameMoves, Zenon

\* Every step is a request of the application, a move of the request on top, a
\* question to the judge, an end of the application's request, or one of the judge's.
LEMMA StepCases ==
  ASSUME Next
  PROVE  /\ UNCHANGED config
         /\ \/ UNCHANGED verdicts /\ stack # <<>> /\ \E x : Becomes(x) /\ Moves(Current, x)
            \/ Ask
            \/ AskJudge
            \/ UNCHANGED verdicts /\ stack' = <<>>
            \/ Judged
            \/ JudgeFailed
<1>1. ASSUME Unknown \/ Pass \/ Block
      PROVE  stack # <<>> /\ \E x : Becomes(x) /\ Moves(Current, x)
  BY <1>1 DEF Unknown, Pass, Block, Moves
<1>2. ASSUME Answers \/ Retry \/ Fails \/ AnswerBlocked
      PROVE  stack # <<>> /\ \E x : Becomes(x) /\ Moves(Current, x)
  BY <1>2 DEF Answers, Retry, Fails, AnswerBlocked, Moves
<1>3. ASSUME Fallback
      PROVE  stack # <<>> /\ \E x : Becomes(x) /\ Moves(Current, x)
  BY <1>3 DEF Fallback, Moves
<1>4. UNCHANGED config
  BY DEF Next, Step, Ask, Unknown, Pass, Block, AskJudge, Answers, Retry, Fails, AnswerBlocked, Fallback,
         Return, Judged, JudgeFailed
<1>5. UNCHANGED verdicts \/ Judged
  BY DEF Next, Step, Ask, Unknown, Pass, Block, AskJudge, Answers, Retry, Fails, AnswerBlocked, Fallback,
         Return, JudgeFailed
<1> QED
  BY <1>1, <1>2, <1>3, <1>4, <1>5, Zenon DEF Next, Step, Return, Judged

-----------------------------------------------------------------------------
(* The invariant.                                                          *)

LEMMA InitIInv == Init => IInv
BY DEF Init, IInv, Stacked

\* A move of the application's request, and one of the judge's.
LEMMA OuterMoves ==
  ASSUME NEW f, Outer(f), ~Judging, NEW x, Moves(f, x), UNCHANGED <<config, verdicts>>
  PROVE  Outer(x)'
<1>1. /\ IsFrame(x) /\ x.refused \in BOOLEAN /\ BlockIsFinal(x)
      /\ x.text = f.text /\ x.judging = f.judging
      /\ x.waved \in {f.waved, FALSE}
      /\ x.stage = "before" => x.waved = FALSE
      /\ x.stage = "provider" => /\ x.waved = f.waved
                                 /\ (f.stage = "before" /\ Passes(f)) \/ f.stage = "provider"
  BY FrameMoves DEF Outer
<1>2. x.stage = "provider" => LetThrough(x)
  <2> SUFFICES ASSUME x.stage = "provider" PROVE LetThrough(x)
    OBVIOUS
  <2>1. CASE f.stage = "provider"
    BY <1>1, <2>1 DEF Outer, LetThrough
  <2>2. CASE f.stage = "before" /\ Passes(f)
    BY <1>1, <2>2 DEF Outer, LetThrough, Passes
  <2> QED
    BY <1>1, <2>1, <2>2
<1>3. LetThrough(x)' <=> LetThrough(x)
  BY DEF LetThrough, config
<1>4. x.waved \in BOOLEAN
  BY <1>1 DEF Outer
<1> QED
  BY <1>1, <1>2, <1>3, <1>4 DEF Outer

\* The invariant is inductive.
LEMMA NextIInv == IInv /\ [Next]_vars => IInv'
<1> SUFFICES ASSUME IInv, Next PROVE IInv'
  BY DEF vars, IInv, Stacked, Outer, Waits, LetThrough, config
<1> USE DEF IInv
<1>1. UNCHANGED onError
  BY StepCases DEF config
<1>2. CASE UNCHANGED verdicts /\ stack # <<>> /\ \E x : Becomes(x) /\ Moves(Current, x)
  <2>1. PICK x : Becomes(x) /\ Moves(Current, x)
    BY <1>2
  <2>2. ASSUME NEW f, Outer(f), Current = f, ~Judging, stack' = <<x>>
        PROVE  Stacked'
    <3>1. Outer(x)'
      BY <1>2, <2>1, <2>2, StepCases, OuterMoves
    <3> QED
      BY <2>2, <3>1 DEF Stacked
  <2>3. ASSUME NEW f, NEW g, Waits(f), Inner(g), Current = g, stack' = <<f, x>>
        PROVE  Stacked'
    <3>1. Inner(x)
      BY <2>1, <2>3, FrameMoves DEF Inner
    <3>2. Waits(f)'
      BY <1>1, <1>2, <2>3 DEF Waits, Outer, LetThrough
    <3> QED
      BY <2>3, <3>1, <3>2 DEF Stacked, Inner
  <2> QED
    BY <1>2, <2>1, <2>2, <2>3, StackCases
<1>3. CASE Ask
  <2>1. PICK a \in Aliases, text \in Texts, path \in {"invoke", "chat"} :
          stack' = <<Request(a, text, path, FALSE)>> /\ UNCHANGED <<config, verdicts>>
    BY <1>3 DEF Ask
  <2>2. PICK f : f = Request(a, text, path, FALSE)
    OBVIOUS
  <2>3. /\ IsFrame(f) /\ f.text = text /\ f.judging = FALSE /\ f.stage = "before" /\ f.waved = FALSE
        /\ f.refused = FALSE /\ BlockIsFinal(f)
    BY <2>2 DEF Request, IsFrame, Fields, BlockIsFinal
  <2>4. Outer(f)'
    BY <2>3 DEF Outer
  <2> QED
    BY <2>1, <2>2, <2>4 DEF Stacked
<1>4. CASE AskJudge
  <2>1. /\ stack # <<>> /\ Current.stage = "before" /\ ~Passes(Current)
        /\ Current.text \in Texts => verdicts[Current.text] = "none"
        /\ stack' = Append(stack, Request(Judge, JudgePrompt, "invoke", TRUE))
        /\ UNCHANGED <<config, verdicts>>
    BY <1>4 DEF AskJudge
  <2>2. ~Judging
    BY <2>1 DEF Passes
  <2>3. PICK f : stack = <<f>> /\ Outer(f) /\ Current = f
    BY <2>1, <2>2, StackCases
  <2>4. stack' = <<f, Request(Judge, JudgePrompt, "invoke", TRUE)>>
    BY <2>1, <2>3, StackFacts
  <2>5. Waits(f)'
    BY <1>1, <2>1, <2>3 DEF Waits, Outer, LetThrough
  <2>6. PICK g : g = Request(Judge, JudgePrompt, "invoke", TRUE)
    OBVIOUS
  <2>7. IsFrame(g) /\ g.judging = TRUE /\ g.refused = FALSE /\ BlockIsFinal(g)
    BY <2>6 DEF Request, IsFrame, Fields, BlockIsFinal
  <2>8. Inner(g)
    BY <2>7 DEF Inner
  <2> QED
    BY <2>1, <2>4, <2>5, <2>6, <2>8 DEF Stacked, Inner
<1>5. CASE UNCHANGED verdicts /\ stack' = <<>>
  BY <1>5 DEF Stacked
<1>6. CASE Judged
  <2>1. PICK verdict \in Verdicts :
          /\ Len(stack) > 1 /\ stack' = Front(stack)
          /\ verdicts' = [verdicts EXCEPT ![Last(Front(stack)).text] = verdict]
    BY <1>6 DEF Judged
  <2>2. PICK f, g : stack = <<f, g>> /\ Waits(f) /\ Front(stack) = <<f>> /\ Last(Front(stack)) = f
    BY <2>1, JudgeOnTop
  <2>3. verdicts' \in [Texts -> Verdicts \cup {"none"}]
    BY <2>1, <2>2 DEF Waits, Outer
  <2>4. Outer(f)'
    BY <2>2 DEF Waits, Outer
  <2> QED
    BY <2>1, <2>2, <2>3, <2>4 DEF Stacked
<1>7. CASE JudgeFailed
  <2>1. PICK f, g : /\ stack = <<f, g>> /\ Waits(f) /\ Front(stack) = <<f>> /\ Last(Front(stack)) = f
                    /\ Front(Front(stack)) = <<>>
    BY <1>7, JudgeOnTop DEF JudgeFailed
  <2>2. PICK x : /\ x = IF onError = "warn" THEN [f EXCEPT !.stage = "provider", !.waved = TRUE]
                        ELSE Failing(f, "guard")
                 /\ stack' = Append(<<>>, x) /\ UNCHANGED verdicts
    BY <1>7, <2>1, Zenon DEF JudgeFailed
  <2>3. stack' = <<x>>
    BY <2>2, StackFacts
  <2>4. CASE onError = "warn"
    <3>1. /\ IsFrame(x) /\ x.text = f.text /\ x.judging = f.judging /\ x.path = f.path
          /\ x.refused = f.refused /\ x.waved = TRUE /\ x.stage = "provider"
      BY <2>1, <2>2, <2>4 DEF Waits, Outer, IsFrame, Fields
    <3>2. Outer(x)'
      BY <1>1, <2>1, <2>2, <2>4, <3>1 DEF Waits, Outer, LetThrough, BlockIsFinal
    <3> QED
      BY <2>2, <2>3, <3>2 DEF Stacked
  <2>5. CASE onError # "warn"
    <3>1. Moves(f, x) /\ f.refused \in BOOLEAN /\ IsFrame(f) /\ BlockIsFinal(f)
      BY <2>1, <2>2, <2>5 DEF Moves, Waits, Outer
    <3>2. /\ IsFrame(x) /\ x.text = f.text /\ x.judging = f.judging /\ x.refused \in BOOLEAN
          /\ BlockIsFinal(x) /\ x.waved \in {f.waved, FALSE}
      BY <3>1, FrameMoves
    <3>3. x.stage = "failed"
      BY <2>1, <2>2, <2>5 DEF Failing, Waits, Outer, IsFrame, Fields
    <3>4. Outer(x)'
      BY <2>1, <3>2, <3>3 DEF Waits, Outer
    <3> QED
      BY <2>2, <2>3, <3>4 DEF Stacked
  <2> QED
    BY <2>4, <2>5
<1> QED
  BY <1>2, <1>3, <1>4, <1>5, <1>6, <1>7, StepCases

LEMMA Inductive == Spec => []IInv
BY InitIInv, NextIInv, PTL DEF Spec

-----------------------------------------------------------------------------
(* Chains of fallbacks.                                                    *)

\* The configuration is one of aliases.
ConfigTyped == entries \subseteq Aliases /\ fallback \in [Aliases -> Aliases \cup {NoAlias}]

\* C leads from a along the fallbacks, to no alias twice, as far as they go.
IsChain(C, a) ==
  /\ C \in Seq(Aliases) /\ Len(C) \in Nat \ {0} /\ C[1] = a
  /\ \A k, l \in 1..Len(C) : C[k] = C[l] => k = l
  /\ \A k \in 1..Len(C) - 1 : C[k + 1] = fallback[C[k]]
  /\ C[Len(C)] \in entries => fallback[C[Len(C)]] \in {NoAlias} \cup Range(C)

\* A walk as a sequence.
LEMMA WalkIs ==
  ASSUME NEW a, NEW w \in Walks(a)
  PROVE  /\ w \in Seq(Aliases) /\ DOMAIN w = 1..Len(w) /\ Len(w) \in 1..Cardinality(Aliases)
         /\ w[1] = a
         /\ \A k \in 1..Len(w) - 1 : w[k] \in entries /\ w[k + 1] = fallback[w[k]]
         /\ \A k, l \in 1..Len(w) : w[k] = w[l] => k = l
<1>1. PICK n \in 1..Cardinality(Aliases) : w \in [1..n -> Aliases]
  BY DEF Walks
<1>2. n \in Nat /\ Cardinality(Aliases) \in Nat
  BY FS_CardinalityType, GatewayAssumption
<1>3. w \in Seq(Aliases) /\ DOMAIN w = 1..n /\ Len(w) = n
  <2>1. w \in Seq(Aliases)
    BY <1>1, <1>2, SeqDef
  <2>2. DOMAIN w = 1..n
    BY <1>1
  <2>3. DOMAIN w = 1..Len(w) /\ Len(w) \in Nat
    BY <2>1, LenProperties
  <2> QED BY <1>2, <2>1, <2>2, <2>3
<1>4. /\ w[1] = a
      /\ \A k \in 1..Len(w) - 1: w[k] \in entries /\ w[k + 1] = fallback[w[k]]
      /\ \A k, l \in DOMAIN w: w[k] = w[l] => k = l
  BY DEF Walks
<1> QED BY <1>3, <1>4

\* Conversely.
LEMMA IsWalk ==
  ASSUME NEW a, NEW n \in Nat \ {0}, NEW w \in [1..n -> Aliases],
         w[1] = a,
         \A k \in 1..n - 1 : w[k] \in entries /\ w[k + 1] = fallback[w[k]],
         \A k, l \in 1..n : w[k] = w[l] => k = l
  PROVE  w \in Walks(a) /\ Len(w) = n
<1>1. Cardinality(Aliases) \in Nat /\ IsFiniteSet(Aliases)
  BY FS_CardinalityType, GatewayAssumption
<1>2. n <= Cardinality(Aliases)
  <2>1. w \in Injection(1..n, Aliases)
    BY DEF Injection, IsInjective
  <2>2. Cardinality(1..n) <= Cardinality(Aliases)
    BY <1>1, <2>1, FS_Injection
  <2>3. Cardinality(1..n) = n
    BY FS_Interval
  <2> QED BY <2>2, <2>3
<1>3. w \in Seq(Aliases)
  BY SeqDef
<1>4. Len(w) = n /\ DOMAIN w = 1..n
  <2>1. DOMAIN w = 1..Len(w) /\ Len(w) \in Nat
    BY <1>3, LenProperties
  <2>2. DOMAIN w = 1..n
    OBVIOUS
  <2> QED BY <2>1, <2>2
<1>5. w \in UNION {[1..m -> Aliases]: m \in 1..Cardinality(Aliases)}
  <2>1. n \in 1..Cardinality(Aliases)
    BY <1>1, <1>2
  <2> QED BY <2>1
<1> QED BY <1>4, <1>5 DEF Walks

\* A longest walk exists, and the fallbacks lead no further.
LEMMA ChainIs ==
  ASSUME ConfigTyped, NEW a \in Aliases
  PROVE  IsChain(Chain(a), a)
<1> DEFINE N == Cardinality(Aliases)
           Left == {N - Len(w): w \in Walks(a)}
           C == Chain(a)
<1>1. N \in Nat /\ IsFiniteSet(Aliases)
  BY FS_CardinalityType, GatewayAssumption
<1>2. Walks(a) # {}
  <2> DEFINE w == [k \in 1..1 |-> a]
  <2>1. w \in [1..1 -> Aliases] /\ w[1] = a
    OBVIOUS
  <2> HIDE DEF w
  <2>2. 1 \in Nat \ {0} /\ \A k \in 1..1 - 1 : FALSE
    OBVIOUS
  <2>3. \A k, l \in 1..1 : w[k] = w[l] => k = l
    OBVIOUS
  <2>4. w \in Walks(a)
    BY <2>1, <2>2, <2>3, IsWalk, Zenon
  <2> QED BY <2>4
<1>3. Left \in SUBSET Nat /\ Left # {}
  <2>1. ASSUME NEW w \in Walks(a) PROVE N - Len(w) \in Nat
    <3>1. Len(w) \in 1..N
      BY WalkIs
    <3> QED BY <1>1, <3>1
  <2> QED BY <1>2, <2>1
<1>4. PICK m \in Left : \A u \in Left : m <= u
  <2> HIDE DEF Left
  <2> QED BY <1>3, LeastIs
<1>5. PICK w \in Walks(a) : m = N - Len(w)
  BY <1>4
<1>6. \A v \in Walks(a) : Len(v) <= Len(w)
  <2> SUFFICES ASSUME NEW v \in Walks(a) PROVE Len(v) <= Len(w)
    OBVIOUS
  <2>1. N - Len(w) <= N - Len(v)
    BY <1>4, <1>5
  <2>2. Len(w) \in 1..N /\ Len(v) \in 1..N
    BY WalkIs
  <2> QED BY <1>1, <2>1, <2>2
<1>7. C \in Walks(a) /\ \A v \in Walks(a) : Len(v) <= Len(C)
  BY <1>6, Zenon DEF Chain
<1> HIDE DEF C
<1>8. /\ C \in Seq(Aliases) /\ DOMAIN C = 1..Len(C) /\ Len(C) \in 1..N
      /\ C[1] = a
      /\ \A k \in 1..Len(C) - 1 : C[k] \in entries /\ C[k + 1] = fallback[C[k]]
      /\ \A k, l \in 1..Len(C) : C[k] = C[l] => k = l
  BY <1>7, WalkIs
<1> DEFINE n == Len(C)
           b == fallback[C[n]]
<1>9. n \in Nat \ {0} /\ n + 1 \in Nat \ {0}
  BY <1>1, <1>8
<1>10. ASSUME C[n] \in entries, b \notin {NoAlias} \cup Range(C) PROVE FALSE
  <2>1. b \in Aliases
    BY <1>10 DEF ConfigTyped
  <2> DEFINE v == [k \in 1..n + 1 |-> IF k = n + 1 THEN b ELSE C[k]]
  <2>2. \A k \in 1..n : C[k] \in Aliases /\ C[k] \in Range(C)
    BY <1>8, ElementOfSeq DEF Range
  <2>3. \A k \in 1..n : k \in 1..n + 1 /\ k # n + 1 /\ v[k] = C[k]
    BY <1>9
  <2>4. v[n + 1] = b /\ n + 1 \in 1..n + 1
    BY <1>9
  <2>5. \A k \in 1..n + 1 : k = n + 1 \/ k \in 1..n
    BY <1>9
  <2>6. v \in [1..n + 1 -> Aliases]
    BY <2>1, <2>2, <2>5
  <2> HIDE DEF v, b
  <2>7. v[1] = a
    BY <1>8, <1>9, <2>3
  <2>8. \A k \in 1..(n + 1) - 1 : v[k] \in entries /\ v[k + 1] = fallback[v[k]]
    <3> SUFFICES ASSUME NEW k \in 1..n PROVE v[k] \in entries /\ v[k + 1] = fallback[v[k]]
      BY <1>9
    <3>1. CASE k = n
      BY <1>10, <2>3, <2>4, <3>1 DEF b
    <3>2. CASE k # n
      <4>1. k \in 1..n - 1 /\ k + 1 \in 1..n
        BY <1>9, <3>2
      <4> QED BY <1>8, <2>3, <4>1
    <3> QED BY <3>1, <3>2
  <2>9. \A k, l \in 1..n + 1 : v[k] = v[l] => k = l
    <3>1. b \notin Range(C)
      BY <1>10
    <3> HIDE DEF n
    <3> QED BY <1>8, <2>2, <2>3, <2>4, <2>5, <3>1 DEF n
  <2>10. v \in Walks(a) /\ Len(v) = n + 1
    <3> HIDE DEF n
    <3>1. PICK z : z = n + 1
      OBVIOUS
    <3>2. z \in Nat \ {0} /\ v \in [1..z -> Aliases]
      BY <1>9, <2>6, <3>1
    <3>3. \A k \in 1..z - 1 : v[k] \in entries /\ v[k + 1] = fallback[v[k]]
      BY <2>8, <3>1
    <3>4. \A k, l \in 1..z : v[k] = v[l] => k = l
      BY <2>9, <3>1
    <3> QED BY <2>7, <3>1, <3>2, <3>3, <3>4, IsWalk, SMTT(40)
  <2>11. n + 1 <= n
    BY <1>7, <2>10
  <2> QED BY <1>9, <2>11
<1> QED BY <1>8, <1>9, <1>10, Zenon DEF IsChain, C

-----------------------------------------------------------------------------
(* Places in a chain.                                                     *)

\* Where an alias stands in a chain.
Place(C, x) == CHOOSE k \in DOMAIN C : C[k] = x

\* It is its only place.
LEMMA PlaceIs ==
  ASSUME NEW C, NEW a, IsChain(C, a)
  PROVE  /\ \A k \in 1..Len(C) : Place(C, C[k]) = k /\ C[k] \in Range(C)
         /\ \A x \in Range(C) : Place(C, x) \in 1..Len(C) /\ C[Place(C, x)] = x
         /\ Range(C) \subseteq Aliases /\ DOMAIN C = 1..Len(C)
<1>1. DOMAIN C = 1..Len(C) /\ \A k \in 1..Len(C) : C[k] \in Aliases
  BY LenProperties, ElementOfSeq DEF IsChain
<1>2. \A k \in 1..Len(C) : C[k] \in Range(C)
  BY <1>1 DEF Range
<1>3. \A x \in Range(C) : Place(C, x) \in 1..Len(C) /\ C[Place(C, x)] = x
  BY <1>1, Zenon DEF Range, Place
<1>4. Range(C) \subseteq Aliases
  BY <1>1 DEF Range
<1> QED BY <1>1, <1>2, <1>3, <1>4 DEF IsChain

\* Elements of C in the order of C.
Rises(s, C) ==
  /\ s \in Seq(Range(C))
  /\ \A i, j \in 1..Len(s) : i < j => Place(C, s[i]) < Place(C, s[j])

\* One more at the end, and one less at the beginning.
LEMMA RisesMore ==
  ASSUME NEW C, NEW s, Rises(s, C), NEW x \in Range(C),
         \A i \in 1..Len(s) : Place(C, s[i]) < Place(C, x)
  PROVE  /\ Rises(Append(s, x), C) /\ Len(Append(s, x)) = Len(s) + 1
         /\ \A i \in 1..Len(s) : Append(s, x)[i] = s[i]
         /\ Append(s, x)[Len(s) + 1] = x
<1>1. s \in Seq(Range(C)) /\ Len(s) \in Nat
  BY LenProperties DEF Rises
<1> DEFINE t == Append(s, x)
<1>2. t \in Seq(Range(C)) /\ Len(t) = Len(s) + 1 /\ t[Len(s) + 1] = x
      /\ \A i \in 1..Len(s) : t[i] = s[i]
  BY <1>1, AppendProperties
<1> HIDE DEF t
<1>3. ASSUME NEW i \in 1..Len(t), NEW j \in 1..Len(t), i < j PROVE Place(C, t[i]) < Place(C, t[j])
  <2>1. i \in 1..Len(s) /\ (j \in 1..Len(s) \/ j = Len(s) + 1)
    BY <1>1, <1>2, <1>3
  <2>2. CASE j \in 1..Len(s)
    BY <1>2, <1>3, <2>1, <2>2 DEF Rises
  <2>3. CASE j = Len(s) + 1
    BY <1>2, <2>1, <2>3
  <2> QED BY <2>1, <2>2, <2>3
<1> QED BY <1>2, <1>3, Zenon DEF Rises, t

LEMMA RisesLess ==
  ASSUME NEW C, NEW s, Rises(s, C), s # <<>>
  PROVE  /\ Head(s) = s[1] /\ 1 \in 1..Len(s) /\ Head(s) \in Range(C)
         /\ Rises(Tail(s), C)
         /\ \A i \in 1..Len(Tail(s)) :
              /\ i + 1 \in 1..Len(s) /\ Tail(s)[i] = s[i + 1]
              /\ Place(C, Head(s)) < Place(C, Tail(s)[i])
<1>1. s \in Seq(Range(C)) /\ Len(s) \in Nat /\ Len(s) # 0
  BY LenProperties, EmptySeq DEF Rises
<1>2. Head(s) = s[1] /\ Head(s) \in Range(C) /\ 1 \in 1..Len(s)
  BY <1>1, HeadTailProperties
<1> DEFINE t == Tail(s)
<1>3. t \in Seq(Range(C)) /\ Len(t) = Len(s) - 1 /\ \A i \in 1..Len(t) : t[i] = s[i + 1]
  BY <1>1, HeadTailProperties
<1> HIDE DEF t
<1>4. \A i \in 1..Len(t) : i + 1 \in 1..Len(s) /\ 1 < i + 1
  BY <1>1, <1>3
<1>5. \A i, j \in 1..Len(t) : i < j => i + 1 < j + 1
  BY <1>1, <1>3
<1>6. \A i \in 1..Len(t) : Place(C, Head(s)) < Place(C, t[i])
  BY <1>2, <1>3, <1>4 DEF Rises
<1>7. Rises(t, C)
  <2>1. ASSUME NEW i \in 1..Len(t), NEW j \in 1..Len(t), i < j PROVE Place(C, t[i]) < Place(C, t[j])
    BY <1>3, <1>4, <1>5, <2>1 DEF Rises
  <2> QED BY <1>3, <2>1, Zenon DEF Rises
<1> QED BY <1>2, <1>3, <1>4, <1>6, <1>7, Zenon DEF t

-----------------------------------------------------------------------------
(* Requests on a chain.                                                    *)

\* The alias under way is one of the chain, and registered from its first attempt on.
Stands(f, C) ==
  /\ f.path \in {"invoke", "chat"} /\ f.alias \in Range(C)
  /\ f.stage \in {"provider", "after"} \/ (f.stage = "failed" /\ f.failure = "error") =>
       f.alias \in entries

\* Its attempts are counted, and those to come after it have none.
Counts(f, C) ==
  /\ f.tries \in 0..Retries /\ f.attempts \in [Aliases -> 0..Retries + 1]
  /\ f.stage = "before" => f.tries = 0 /\ f.attempts[f.alias] = 0
  /\ f.stage = "provider" => f.attempts[f.alias] = f.tries
  /\ \A k \in 1..Len(C) : k > Place(C, f.alias) => f.attempts[C[k]] = 0

\* What was asked stands up to it in the chain, what is left to ask after it.
Ordered(f, C) ==
  /\ Rises(f.asked, C) /\ Rises(f.rest, C)
  /\ \A i \in 1..Len(f.asked) :
       /\ Place(C, f.asked[i]) <= Place(C, f.alias)
       /\ f.stage = "before" => f.asked[i] # f.alias
       /\ f.path = "chat" => f.asked[i] \notin Chatless
  /\ \A i \in 1..Len(f.rest) :
       /\ Place(C, f.alias) < Place(C, f.rest[i])
       /\ f.path = "chat" => f.rest[i] \notin Chatless
  /\ f.path = "chat" => f.alias \notin Chatless

\* On the path of gateway.model no alias is left out.
Invoked(f, C) ==
  f.path = "invoke" =>
    /\ f.rest = <<>>
    /\ f.seen = {C[k] : k \in 1..Place(C, f.alias) - 1}
    /\ \A i \in 1..Len(f.asked) : f.asked[i] = C[i]
    /\ Len(f.asked) \in {Place(C, f.alias) - 1, Place(C, f.alias)}
    /\ f.stage = "after" \/ (f.stage = "failed" /\ f.failure = "error") =>
         Len(f.asked) = Place(C, f.alias)

Follows(f, C) == Stands(f, C) /\ Counts(f, C) /\ Ordered(f, C) /\ Invoked(f, C)

\* The request is in another stage of the same alias.
SameAlias(c, x) ==
  /\ x.alias = c.alias /\ x.seen = c.seen /\ x.rest = c.rest /\ x.path = c.path /\ x.start = c.start

\* A block, or a prompt that is let through, leaves it where it is.
LEMMA OtherStage ==
  ASSUME NEW C, NEW c, Follows(c, C), NEW x, SameAlias(c, x),
         x.asked = c.asked, x.attempts = c.attempts, x.tries = c.tries,
         \/ x.stage = "provider" /\ c.stage = "before" /\ c.alias \in entries
         \/ x.stage = "failed" /\ x.failure # "error"
  PROVE  Follows(x, C)
<1>1. Stands(x, C)
  BY DEF Follows, Stands, SameAlias
<1>2. Counts(x, C)
  BY DEF Follows, Counts, SameAlias
<1>3. Ordered(x, C)
  BY DEF Follows, Ordered, SameAlias
<1>4. Invoked(x, C)
  BY DEF Follows, Invoked, SameAlias
<1> QED BY <1>1, <1>2, <1>3, <1>4 DEF Follows

\* The provider was asked once more.
LEMMA AskedOnce ==
  ASSUME NEW a, NEW C, IsChain(C, a), NEW c, IsFrame(c), Follows(c, C), c.stage = "provider",
         NEW x, SameAlias(c, x), x.asked = Asking(c).asked, x.attempts = Asking(c).attempts,
         \/ x.stage = "provider" /\ c.tries < Retries /\ x.tries = c.tries + 1
         \/ x.stage \in {"after", "failed"} /\ x.tries = c.tries
  PROVE  Follows(x, C)
<1> DEFINE p == Place(C, c.alias)
<1>1. /\ c.alias \in Range(C) /\ c.alias \in Aliases /\ c.alias \in entries
      /\ p \in 1..Len(C) /\ C[p] = c.alias /\ Len(C) \in Nat
  BY PlaceIs DEF Follows, Stands, IsChain
<1>2. Retries \in Nat
  BY GatewayAssumption
<1>3. Stands(x, C)
  BY <1>1 DEF Follows, Stands, SameAlias
<1>4. /\ x.attempts \in [Aliases -> 0..Retries + 1] /\ x.attempts[c.alias] = c.tries + 1
      /\ \A b \in Aliases \ {c.alias} : x.attempts[b] = c.attempts[b]
  <2>1. /\ c.attempts \in [Aliases -> 0..Retries + 1] /\ c.attempts[c.alias] = c.tries
        /\ c.tries \in 0..Retries
    BY DEF Follows, Counts
  <2>2. Asking(c).attempts = [c.attempts EXCEPT ![c.alias] = IF @ > Retries + 1 THEN @ ELSE @ + 1]
    BY DEF Asking, IsFrame, Fields
  <2>3. ~(c.tries > Retries + 1) /\ c.tries + 1 \in 0..Retries + 1
    BY <1>2, <2>1
  <2>4. x.attempts = [c.attempts EXCEPT ![c.alias] = c.tries + 1]
    BY <2>1, <2>2, <2>3
  <2> QED BY <1>1, <2>1, <2>3, <2>4
<1>5. Counts(x, C)
  <2>1. x.tries \in 0..Retries
    BY <1>2 DEF Follows, Counts
  <2>2. ASSUME NEW k \in 1..Len(C), k > p PROVE x.attempts[C[k]] = 0
    <3>1. C[k] # c.alias /\ C[k] \in Aliases
      BY <1>1, <2>2, PlaceIs
    <3> QED BY <1>4, <2>2, <3>1 DEF Follows, Counts
  <2> QED BY <1>4, <2>1, <2>2 DEF Counts, SameAlias
<1>6. c.asked \in Seq(Range(C)) /\ Len(c.asked) \in Nat /\ DOMAIN c.asked = 1..Len(c.asked)
      /\ \A i \in 1..Len(c.asked) : c.asked[i] \in Range(C)
  BY LenProperties, ElementOfSeq DEF Follows, Ordered, Rises
<1>7. Asking(c).asked = IF c.alias \in Range(c.asked) THEN c.asked ELSE Append(c.asked, c.alias)
  BY DEF Asking, IsFrame, Fields
<1>8. CASE c.alias \in Range(c.asked)
  <2>1. x.asked = c.asked
    BY <1>7, <1>8
  <2>2. Ordered(x, C)
    BY <2>1 DEF Follows, Ordered, SameAlias
  <2>3. ASSUME c.path = "invoke" PROVE Len(c.asked) = p
    <3>1. PICK i \in 1..Len(c.asked) : c.asked[i] = c.alias
      BY <1>6, <1>8 DEF Range
    <3>2. c.asked[i] = C[i] /\ Len(c.asked) \in {p - 1, p}
      BY <2>3 DEF Follows, Invoked
    <3>3. i \in 1..Len(C)
      BY <1>1, <1>6, <3>2
    <3>4. i = p
      BY <3>1, <3>2, <3>3, PlaceIs
    <3> QED BY <1>1, <1>6, <3>2, <3>4
  <2>4. Invoked(x, C)
    BY <2>1, <2>3 DEF Follows, Invoked, SameAlias
  <2> QED BY <1>3, <1>5, <2>2, <2>4 DEF Follows
<1>9. CASE c.alias \notin Range(c.asked)
  <2>1. x.asked = Append(c.asked, c.alias)
    BY <1>7, <1>9
  <2>2. ASSUME NEW i \in 1..Len(c.asked) PROVE Place(C, c.asked[i]) < p
    <3>1. c.asked[i] # c.alias
      BY <1>6, <1>9 DEF Range
    <3>2. Place(C, c.asked[i]) <= p
      BY DEF Follows, Ordered
    <3>3. Place(C, c.asked[i]) \in 1..Len(C) /\ C[Place(C, c.asked[i])] = c.asked[i]
      BY <1>6, PlaceIs
    <3> QED BY <1>1, <3>1, <3>2, <3>3
  <2>3. /\ Rises(x.asked, C) /\ Len(x.asked) = Len(c.asked) + 1
        /\ \A i \in 1..Len(c.asked) : x.asked[i] = c.asked[i]
        /\ x.asked[Len(c.asked) + 1] = c.alias
    BY <1>1, <2>1, <2>2, RisesMore DEF Follows, Ordered
  <2>4. \A i \in 1..Len(x.asked) : i \in 1..Len(c.asked) \/ i = Len(c.asked) + 1
    BY <1>6, <2>3
  <2>5. ASSUME NEW i \in 1..Len(x.asked)
        PROVE  Place(C, x.asked[i]) <= p /\ (c.path = "chat" => x.asked[i] \notin Chatless)
    <3>1. CASE i \in 1..Len(c.asked)
      BY <2>3, <3>1 DEF Follows, Ordered
    <3>2. CASE i = Len(c.asked) + 1
      BY <1>1, <2>3, <3>2 DEF Follows, Ordered
    <3> QED BY <2>4, <3>1, <3>2
  <2>6. Ordered(x, C)
    BY <2>3, <2>5 DEF Follows, Ordered, SameAlias
  <2>7. ASSUME c.path = "invoke"
        PROVE  Len(x.asked) = p /\ \A i \in 1..Len(x.asked) : x.asked[i] = C[i]
    <3>1. Len(c.asked) \in {p - 1, p} /\ \A i \in 1..Len(c.asked) : c.asked[i] = C[i]
      BY <2>7 DEF Follows, Invoked
    <3>2. Len(c.asked) # p
      <4> SUFFICES ASSUME Len(c.asked) = p PROVE FALSE
        OBVIOUS
      <4>1. p \in 1..Len(c.asked) /\ c.asked[p] = c.alias
        BY <1>1, <3>1
      <4> QED BY <1>6, <1>9, <4>1 DEF Range
    <3>3. Len(x.asked) = p /\ Len(c.asked) + 1 = p
      BY <1>1, <1>6, <2>3, <3>1, <3>2
    <3> QED BY <1>1, <2>3, <2>4, <3>1, <3>3
  <2>8. Invoked(x, C)
    BY <2>7 DEF Follows, Invoked, SameAlias
  <2> QED BY <1>3, <1>5, <2>6, <2>8 DEF Follows
<1> QED BY <1>8, <1>9

\* The request goes on to the next alias of the chain.
LEMMA FallsBack ==
  ASSUME ConfigTyped, NEW C, NEW c, IsFrame(c), IsChain(C, c.start), Follows(c, C), c.stage = "failed",
         NEW b, b = NextOf(c), b # NoAlias,
         NEW x, x.alias = b, x.seen = c.seen \cup {c.alias},
         x.rest = IF c.rest = <<>> THEN c.rest ELSE Tail(c.rest),
         x.path = c.path, x.start = c.start, x.asked = c.asked, x.attempts = c.attempts,
         x.stage = "before", x.tries = 0
  PROVE  Follows(x, C)
<1> DEFINE p == Place(C, c.alias)
           q == Place(C, b)
<1>1. /\ c.alias \in Range(C) /\ p \in 1..Len(C) /\ C[p] = c.alias /\ Len(C) \in Nat
      /\ Range(C) \subseteq Aliases
  BY PlaceIs DEF Follows, Stands, IsChain
<1>2. Retries \in Nat
  BY GatewayAssumption
<1>3. /\ c.asked \in Seq(Range(C)) /\ Len(c.asked) \in Nat
      /\ \A i \in 1..Len(c.asked) : c.asked[i] \in Range(C)
  BY LenProperties, ElementOfSeq DEF Follows, Ordered, Rises
<1>4. ASSUME b \in Range(C), p < q PROVE Stands(x, C) /\ Counts(x, C)
  <2>1. q \in 1..Len(C) /\ C[q] = b /\ b \in Aliases
    BY <1>1, <1>4, PlaceIs
  <2>2. Stands(x, C)
    BY <1>4 DEF Follows, Stands
  <2>3. c.attempts \in [Aliases -> 0..Retries + 1]
        /\ \A k \in 1..Len(C) : k > p => c.attempts[C[k]] = 0
    BY DEF Follows, Counts
  <2>4. c.attempts[b] = 0
    BY <1>1, <1>4, <2>1, <2>3
  <2>5. \A k \in 1..Len(C) : k > q => c.attempts[C[k]] = 0
    BY <1>1, <1>4, <2>1, <2>3
  <2>6. Counts(x, C)
    BY <1>2, <2>3, <2>4, <2>5 DEF Counts
  <2> QED BY <2>2, <2>6
<1>5. ASSUME b \in Range(C), p < q, NEW i \in 1..Len(c.asked)
      PROVE  Place(C, c.asked[i]) <= q /\ c.asked[i] # b
  <2>1. Place(C, c.asked[i]) <= p /\ Place(C, c.asked[i]) \in 1..Len(C) /\ q \in 1..Len(C)
    BY <1>3, <1>5, PlaceIs DEF Follows, Ordered
  <2>2. Place(C, c.asked[i]) < q
    BY <1>1, <1>5, <2>1
  <2> QED BY <2>1, <2>2
<1>6. CASE c.path = "chat"
  <2>1. c.rest # <<>> /\ b = Head(c.rest)
    BY <1>6 DEF NextOf
  <2>2. x.rest = Tail(c.rest) /\ Rises(c.rest, C)
    BY <2>1 DEF Follows, Ordered
  <2>3. /\ b = c.rest[1] /\ 1 \in 1..Len(c.rest) /\ b \in Range(C)
        /\ Rises(x.rest, C)
        /\ \A i \in 1..Len(x.rest) :
              /\ i + 1 \in 1..Len(c.rest) /\ x.rest[i] = c.rest[i + 1]
              /\ q < Place(C, x.rest[i])
    BY <2>1, <2>2, RisesLess
  <2>4. p < q /\ b \notin Chatless
    BY <1>6, <2>3 DEF Follows, Ordered
  <2>5. \A i \in 1..Len(x.rest) : x.rest[i] \notin Chatless
    BY <1>6, <2>3 DEF Follows, Ordered
  <2>6. Ordered(x, C)
    BY <1>5, <1>6, <2>3, <2>4, <2>5 DEF Follows, Ordered
  <2>7. Invoked(x, C)
    BY <1>6 DEF Invoked
  <2> QED BY <1>4, <2>3, <2>4, <2>6, <2>7 DEF Follows
<1>7. CASE c.path = "invoke"
  <2>1. /\ c.failure = "error" /\ b = fallback[c.alias] /\ b \notin c.seen \cup {c.alias}
    BY <1>7 DEF NextOf
  <2>2. /\ c.alias \in entries /\ c.rest = <<>>
        /\ c.seen = {C[k] : k \in 1..p - 1}
        /\ Len(c.asked) = p
        /\ \A i \in 1..Len(c.asked) : c.asked[i] = C[i]
    BY <1>7, <2>1 DEF Follows, Stands, Invoked
  <2>3. \A k \in 1..p : C[k] # b
    BY <1>1, <2>1, <2>2
  <2>4. p < Len(C)
    <3> SUFFICES ASSUME p = Len(C) PROVE FALSE
      BY <1>1
    <3>1. b \in Range(C)
      BY <1>1, <2>1, <2>2 DEF IsChain
    <3>2. q \in 1..Len(C) /\ C[q] = b
      BY <3>1, PlaceIs
    <3> QED BY <2>3, <3>2
  <2>5. p + 1 \in 1..Len(C) /\ C[p + 1] = b
    BY <1>1, <2>1, <2>4 DEF IsChain
  <2>6. b \in Range(C) /\ q = p + 1
    BY <2>5, PlaceIs
  <2>7. p < q
    BY <1>1, <2>6
  <2>8. x.rest = <<>> /\ Rises(x.rest, C) /\ Len(x.rest) = 0
    BY <2>2 DEF Follows, Ordered
  <2>9. Ordered(x, C)
    BY <1>5, <1>7, <2>6, <2>7, <2>8 DEF Follows, Ordered
  <2>10. x.seen = {C[k] : k \in 1..q - 1}
    <3>1. x.seen = {C[k] : k \in 1..p - 1} \cup {C[p]}
      BY <1>1, <2>2
    <3>2. \A k : k \in 1..q - 1 <=> k \in 1..p - 1 \/ k = p
      BY <1>1, <2>6
    <3> QED BY <3>1, <3>2, ZenonT(60)
  <2>11. Len(x.asked) = q - 1
    BY <1>1, <2>2, <2>6
  <2>12. Invoked(x, C)
    BY <2>2, <2>8, <2>10, <2>11 DEF Invoked
  <2> QED BY <1>4, <2>6, <2>7, <2>9, <2>12 DEF Follows
<1> QED BY <1>6, <1>7 DEF Follows, Stands

\* Whatever the request does next.
LEMMA FollowsOn ==
  ASSUME ConfigTyped, NEW c, IsFrame(c), NEW C, IsChain(C, c.start), Follows(c, C), NEW x, Moves(c, x)
  PROVE  Follows(x, C) /\ x.start = c.start
<1>1. ASSUME NEW d, IsFrame(d), NEW failure, x = Failing(d, failure)
      PROVE  /\ SameAlias(d, x) /\ x.asked = d.asked /\ x.attempts = d.attempts /\ x.tries = d.tries
             /\ x.stage = "failed" /\ x.failure = failure /\ x.start = d.start
  BY <1>1 DEF Failing, IsFrame, Fields, SameAlias
<1>2. ASSUME NEW failure, failure # "error", x = Failing(c, failure)
      PROVE  Follows(x, C) /\ x.start = c.start
  BY <1>1, <1>2, OtherStage
<1>3. CASE c.stage = "before" /\ Passes(c) /\ c.alias \in entries /\ x = [c EXCEPT !.stage = "provider"]
  <2>1. /\ SameAlias(c, x) /\ x.asked = c.asked /\ x.attempts = c.attempts /\ x.tries = c.tries
        /\ x.stage = "provider" /\ x.start = c.start
    BY <1>3 DEF IsFrame, Fields, SameAlias
  <2> QED BY <1>3, <2>1, OtherStage
<1>4. IsFrame(Asking(c)) /\ SameAlias(c, Asking(c)) /\ Asking(c).tries = c.tries
      /\ Asking(c).start = c.start /\ Asking(c).stage = c.stage
  BY DEF Asking, IsFrame, Fields, SameAlias
<1>5. CASE c.stage = "provider" /\ x = [Asking(c) EXCEPT !.stage = "after"]
  <2>1. /\ SameAlias(c, x) /\ x.asked = Asking(c).asked /\ x.attempts = Asking(c).attempts
        /\ x.tries = c.tries /\ x.stage = "after" /\ x.start = c.start
    BY <1>4, <1>5 DEF IsFrame, Fields, SameAlias
  <2> QED BY <1>5, <2>1, AskedOnce
<1>6. CASE c.stage = "provider" /\ c.tries < Retries /\ x = [Asking(c) EXCEPT !.tries = @ + 1]
  <2>1. /\ SameAlias(c, x) /\ x.asked = Asking(c).asked /\ x.attempts = Asking(c).attempts
        /\ x.tries = c.tries + 1 /\ x.stage = "provider" /\ x.start = c.start
    BY <1>4, <1>6 DEF IsFrame, Fields, SameAlias
  <2> QED BY <1>6, <2>1, AskedOnce
<1>7. CASE c.stage = "provider" /\ \E failure \in {"error", "guard"} : x = Failing(Asking(c), failure)
  <2>1. /\ SameAlias(c, x) /\ x.asked = Asking(c).asked /\ x.attempts = Asking(c).attempts
        /\ x.tries = c.tries /\ x.stage = "failed" /\ x.start = c.start
    BY <1>1, <1>4, <1>7 DEF SameAlias
  <2> QED BY <1>7, <2>1, AskedOnce
<1>8. CASE /\ c.stage = "failed" /\ NextOf(c) # NoAlias
           /\ x = [c EXCEPT !.alias = NextOf(c), !.seen = @ \cup {c.alias},
                            !.rest = IF @ = <<>> THEN @ ELSE Tail(@),
                            !.stage = "before", !.tries = 0, !.failure = "none", !.waved = FALSE]
  <2>1. PICK b : b = NextOf(c)
    OBVIOUS
  <2>2. /\ x.alias = b /\ x.seen = c.seen \cup {c.alias}
        /\ x.rest = IF c.rest = <<>> THEN c.rest ELSE Tail(c.rest)
        /\ x.path = c.path /\ x.start = c.start /\ x.asked = c.asked /\ x.attempts = c.attempts
        /\ x.stage = "before" /\ x.tries = 0
    BY <1>8, <2>1 DEF IsFrame, Fields
  <2>3. c.stage = "failed" /\ b # NoAlias
    BY <1>8, <2>1
  <2>4. Follows(x, C)
    BY <2>1, <2>2, <2>3, FallsBack, ZenonT(60)
  <2> QED BY <2>2, <2>4
<1> QED BY <1>2, <1>3, <1>5, <1>6, <1>7, <1>8 DEF Moves

\* The chat models that are left stand after the first alias, in the order of the chain.
LEMMA ChattyIs ==
  ASSUME NEW a, NEW C, IsChain(C, a)
  PROVE  LET rest == Chatty(Tail(C)) IN
         /\ Rises(rest, C)
         /\ \A i \in 1..Len(rest) : 1 < Place(C, rest[i]) /\ rest[i] \notin Chatless
<1> DEFINE T == Tail(C)
           S == {k \in DOMAIN T : T[k] \notin Chatless}
           rest == At(T, S)
<1>1. C \in Seq(Aliases) /\ Len(C) \in Nat \ {0} /\ C # <<>>
  BY EmptySeq DEF IsChain
<1>2. T \in Seq(Aliases) /\ Len(T) = Len(C) - 1 /\ \A k \in 1..Len(T) : T[k] = C[k + 1]
  BY <1>1, HeadTailProperties
<1>3. DOMAIN T = 1..Len(T)
  BY <1>2, LenProperties
<1> HIDE DEF T
<1>4. S \in SUBSET DOMAIN T
  OBVIOUS
<1>5. \A k \in S : k \in 1..Len(T) /\ T[k] \notin Chatless
  BY <1>3
<1>6. Chatty(T) = rest
  BY DEF Chatty
<1> HIDE DEF S
<1>7. /\ Cardinality(S) \in Nat /\ rest \in Seq(Aliases) /\ Len(rest) = Cardinality(S)
      /\ \A k \in 1..Cardinality(S) : Nth(S, k) \in S /\ rest[k] = T[Nth(S, k)]
      /\ \A k, l \in 1..Cardinality(S): k < l => Nth(S, k) < Nth(S, l)
  BY <1>2, <1>4, AtProperties
<1> HIDE DEF rest
<1>8. ASSUME NEW i \in 1..Len(rest)
      PROVE  /\ rest[i] \in Range(C) /\ rest[i] \notin Chatless
             /\ Nth(S, i) \in 1..Len(T) /\ Place(C, rest[i]) = Nth(S, i) + 1
  <2>1. Nth(S, i) \in 1..Len(T) /\ rest[i] = T[Nth(S, i)] /\ rest[i] \notin Chatless
    BY <1>5, <1>7
  <2>2. Nth(S, i) + 1 \in 1..Len(C) /\ rest[i] = C[Nth(S, i) + 1]
    BY <1>1, <1>2, <2>1
  <2> QED BY <2>1, <2>2, PlaceIs
<1>9. rest \in Seq(Range(C))
  BY <1>7, <1>8, ElementOfSeq, SeqDef
<1>10. Rises(rest, C)
  <2>1. ASSUME NEW i \in 1..Len(rest), NEW j \in 1..Len(rest), i < j
        PROVE  Place(C, rest[i]) < Place(C, rest[j])
    <3>1. Nth(S, i) < Nth(S, j) /\ Nth(S, i) \in 1..Len(T) /\ Nth(S, j) \in 1..Len(T)
      BY <1>7, <1>8, <2>1
    <3> QED BY <1>1, <1>2, <1>8, <3>1
  <2> QED BY <1>9, <2>1, Zenon DEF Rises
<1>11. \A i \in 1..Len(rest) : 1 < Place(C, rest[i]) /\ rest[i] \notin Chatless
  BY <1>1, <1>2, <1>8
<1> QED BY <1>6, <1>10, <1>11, Zenon DEF T

\* A request is on the chain of the alias that was asked for.
OnItsWay(f) == f.start \in Aliases /\ Follows(f, Chain(f.start))

\* A request begins at the beginning of its chain.
LEMMA Begins ==
  ASSUME ConfigTyped, NEW a \in Aliases, NEW text, NEW path \in {"invoke", "chat"}, NEW judging,
         path = "chat" => ChatModelExists(a),
         NEW f, f = Request(a, text, path, judging)
  PROVE  OnItsWay(f)
<1> DEFINE rest == IF path = "chat" THEN Chatty(ChatFallbacks(a)) ELSE <<>>
<1>1. PICK C : C = Chain(a)
  OBVIOUS
<1>2. IsChain(C, a)
  BY <1>1, ChainIs
<1>3. /\ f.alias = a /\ f.seen = {} /\ f.rest = rest /\ f.path = path /\ f.stage = "before"
      /\ f.tries = 0 /\ f.start = a /\ f.asked = <<>> /\ f.attempts = [x \in Aliases |-> 0]
  BY DEF Request
<1>4. 1 \in 1..Len(C) /\ C[1] = a /\ Place(C, a) = 1 /\ a \in Range(C)
      /\ \A k \in 1..Len(C) : C[k] \in Aliases
  <2>1. 1 \in 1..Len(C) /\ C[1] = a
    BY <1>2 DEF IsChain
  <2>2. \A k \in 1..Len(C) : C[k] \in Aliases
    BY <1>2, PlaceIs
  <2> QED BY <1>2, <2>1, <2>2, PlaceIs
<1>5. Rises(<<>>, C) /\ Len(<<>>) = 0
  BY DEF Rises
<1>6. /\ Rises(rest, C)
      /\ \A i \in 1..Len(rest) : 1 < Place(C, rest[i]) /\ rest[i] \notin Chatless
  <2>1. CASE path = "chat"
    <3>1. rest = Chatty(Tail(C))
      BY <1>1, <2>1 DEF ChatFallbacks
    <3> HIDE DEF rest
    <3> QED BY <1>2, <3>1, ChattyIs
  <2>2. CASE path # "chat"
    BY <1>5, <2>2
  <2> QED BY <2>1, <2>2
<1>7. path = "invoke" => rest = <<>>
  OBVIOUS
<1> HIDE DEF rest
<1>8. Stands(f, C)
  BY <1>3, <1>4 DEF Stands
<1>9. Counts(f, C)
  BY <1>3, <1>4, GatewayAssumption DEF Counts
<1>10. Ordered(f, C)
  BY <1>3, <1>4, <1>5, <1>6 DEF Ordered, ChatModelExists
<1>11. Invoked(f, C)
  BY <1>3, <1>4, <1>5, <1>7 DEF Invoked
<1> QED BY <1>1, <1>3, <1>8, <1>9, <1>10, <1>11, Zenon DEF Follows, OnItsWay

-----------------------------------------------------------------------------
(* The invariant of the chains.                                            *)

\* The requests of a stack are; the one that waits for the judge has a registered alias.
Chained ==
  /\ \A i \in DOMAIN stack : OnItsWay(stack[i])
  /\ \A i \in DOMAIN stack : i < Len(stack) => stack[i].alias \in entries

CInv == IInv /\ ConfigTyped /\ Chained

\* What the chain says of a request.
LEMMA ChainKept ==
  ASSUME ConfigTyped, NEW f, OnItsWay(f)
  PROVE  LET chain == Chain(f.start) IN
         /\ IF f.path = "invoke" THEN IsPrefix(f.asked, chain)
            ELSE InOrder(f.asked, chain) /\ Range(f.asked) \cap Chatless = {}
         /\ \A a \in Aliases: f.attempts[a] <= Retries + 1
<1>1. PICK C : C = Chain(f.start)
  OBVIOUS
<1>2. IsChain(C, f.start) /\ Follows(f, C)
  BY <1>1, ChainIs DEF OnItsWay
<1> DEFINE s == f.asked
           n == Len(s)
           p == Place(C, f.alias)
<1>3. /\ s \in Seq(Range(C)) /\ n \in Nat /\ DOMAIN s = 1..n
      /\ \A i \in 1..n : s[i] \in Range(C)
      /\ \A i, j \in 1..n : i < j => Place(C, s[i]) < Place(C, s[j])
  BY <1>2, LenProperties, ElementOfSeq DEF Follows, Ordered, Rises
<1>4. p \in 1..Len(C) /\ Len(C) \in Nat /\ C \in Seq(Aliases) /\ DOMAIN C = 1..Len(C)
      /\ Range(C) \subseteq Aliases
  BY <1>2, PlaceIs DEF Follows, Stands, IsChain
<1>5. \A a \in Aliases: f.attempts[a] <= Retries + 1
  <2>1. f.attempts \in [Aliases -> 0..Retries + 1] /\ Retries \in Nat
    BY <1>2, GatewayAssumption DEF Follows, Counts
  <2> QED BY <2>1
<1>6. CASE f.path = "invoke"
  <2>1. n \in {p - 1, p} /\ \A i \in 1..n : s[i] = C[i]
    BY <1>2, <1>6 DEF Follows, Invoked
  <2>2. n <= Len(C)
    BY <1>3, <1>4, <2>1
  <2>3. s \in Seq(Aliases)
    BY <1>3, <1>4, SeqDef, ElementOfSeq
  <2>4. SubSeq(s, 1, n) = s
    BY <2>3, SubSeqFull
  <2>5. /\ SubSeq(C, 1, n) \in Seq(Aliases) /\ Len(SubSeq(C, 1, n)) = n
        /\ \A i \in 1..n : SubSeq(C, 1, n)[i] = C[i]
    BY <1>3, <1>4, <2>2, SubSeqProperties
  <2>6. SubSeq(C, 1, n) = s
    BY <2>1, <2>3, <2>5, SeqEqual
  <2> QED BY <1>1, <1>5, <1>6, <2>2, <2>4, <2>6 DEF IsPrefix
<1>7. CASE f.path = "chat"
  <2> DEFINE place == [k \in DOMAIN s |-> Place(C, s[k])]
  <2>1. \A k \in DOMAIN s : Place(C, s[k]) \in DOMAIN C /\ C[Place(C, s[k])] = s[k]
    BY <1>2, <1>3, <1>4, PlaceIs
  <2>2. place \in [DOMAIN s -> DOMAIN C]
    BY <2>1
  <2>3. \A k \in DOMAIN s : s[k] = C[place[k]]
    BY <2>1
  <2>4. \A k, l \in DOMAIN s : k < l => place[k] < place[l]
    BY <1>3
  <2> HIDE DEF place
  <2>5. InOrder(s, C)
    BY <2>2, <2>3, <2>4, Zenon DEF InOrder
  <2>6. Range(s) \cap Chatless = {}
    BY <1>2, <1>3, <1>7 DEF Follows, Ordered, Range
  <2> QED BY <1>1, <1>5, <1>7, <2>5, <2>6
<1> QED BY <1>2, <1>6, <1>7 DEF Follows, Stands

\* The configuration stays, and with it the chains.
LEMMA ConfigStays ==
  ASSUME UNCHANGED config, NEW f
  PROVE  (ConfigTyped <=> ConfigTyped') /\ (OnItsWay(f) <=> OnItsWay(f)')
<1>1. entries' = entries /\ fallback' = fallback
  BY DEF config
<1>2. \A a : Walks(a)' = Walks(a)
  BY <1>1 DEF Walks
<1>3. Chain(f.start)' = Chain(f.start)
  BY <1>2 DEF Chain
<1>4. \A C : Follows(f, C)' <=> Follows(f, C)
  BY <1>1 DEF Follows, Stands, Counts, Ordered, Invoked
<1> QED BY <1>1, <1>3, <1>4 DEF ConfigTyped, OnItsWay

\* No request is under way at first.
LEMMA InitCInv == Init => CInv
<1> SUFFICES ASSUME Init PROVE CInv
  OBVIOUS
<1>1. ConfigTyped
  BY DEF Init, ConfigTyped
<1>2. Chained
  BY StackFacts DEF Init, Chained
<1> QED BY <1>1, <1>2, InitIInv DEF CInv

\* The stacks on which all are on their way.
LEMMA StackChained ==
  ASSUME NEW f, NEW g
  PROVE  /\ stack = <<>> => Chained
         /\ stack = <<f>> => (Chained <=> OnItsWay(f))
         /\ stack = <<f, g>> => (Chained <=> OnItsWay(f) /\ OnItsWay(g) /\ f.alias \in entries)
<1>1. CASE stack = <<>>
  BY <1>1, StackFacts DEF Chained
<1>2. CASE stack = <<f>>
  <2>1. DOMAIN stack = {1} /\ stack[1] = f /\ Len(stack) = 1 /\ ~(1 < 1)
    BY <1>2, StackFacts
  <2> QED BY <1>2, <2>1, StackFacts DEF Chained
<1>3. CASE stack = <<f, g>>
  <2>1. DOMAIN stack = {1, 2} /\ stack[1] = f /\ stack[2] = g /\ Len(stack) = 2 /\ 1 < 2 /\ ~(2 < 2)
    BY <1>3, StackFacts
  <2> QED BY <1>3, <2>1, StackFacts DEF Chained
<1> QED BY <1>1, <1>2, <1>3, StackFacts

\* The same after a step.
LEMMA NextChained ==
  ASSUME UNCHANGED config, NEW f, NEW g
  PROVE  /\ stack' = <<>> => Chained'
         /\ stack' = <<f>> /\ OnItsWay(f) => Chained'
         /\ stack' = <<f, g>> /\ OnItsWay(f) /\ OnItsWay(g) /\ f.alias \in entries => Chained'
<1>1. entries' = entries
  BY DEF config
<1>2. CASE stack' = <<>>
  BY <1>2, StackFacts DEF Chained
<1>3. CASE stack' = <<f>> /\ OnItsWay(f)
  <2>1. DOMAIN stack' = {1} /\ stack'[1] = f /\ Len(stack') = 1 /\ ~(1 < 1)
    BY <1>3, StackFacts
  <2>2. OnItsWay(f)'
    BY <1>3, ConfigStays
  <2> QED BY <1>3, <2>1, <2>2, StackFacts DEF Chained
<1>4. CASE stack' = <<f, g>> /\ OnItsWay(f) /\ OnItsWay(g) /\ f.alias \in entries
  <2>1. DOMAIN stack' = {1, 2} /\ stack'[1] = f /\ stack'[2] = g /\ Len(stack') = 2 /\ 1 < 2 /\ ~(2 < 2)
    BY <1>4, StackFacts
  <2>2. OnItsWay(f)' /\ OnItsWay(g)'
    BY <1>4, ConfigStays
  <2> QED BY <1>1, <1>4, <2>1, <2>2, StackFacts DEF Chained
<1> QED BY <1>2, <1>3, <1>4

\* A request on its way stays so.
LEMMA OnItsWayMoves ==
  ASSUME ConfigTyped, NEW c, IsFrame(c), OnItsWay(c), NEW x, Moves(c, x)
  PROVE  OnItsWay(x)
<1>1. IsChain(Chain(c.start), c.start) /\ Follows(c, Chain(c.start))
  BY ChainIs DEF OnItsWay
<1>2. PICK C : C = Chain(c.start)
  OBVIOUS
<1>3. Follows(x, C) /\ x.start = c.start
  BY <1>1, <1>2, FollowsOn
<1> QED BY <1>2, <1>3 DEF OnItsWay

\* The invariant is inductive.
LEMMA NextCInv == CInv /\ [Next]_vars => CInv'
<1> SUFFICES ASSUME CInv, [Next]_vars PROVE ConfigTyped' /\ Chained'
  BY NextIInv DEF CInv
<1>1. IInv /\ Stacked /\ ConfigTyped /\ Chained
  BY DEF CInv, IInv
<1>2. CASE UNCHANGED vars
  BY <1>1, <1>2, ConfigStays DEF vars, config, Chained
<1> SUFFICES ASSUME Next PROVE ConfigTyped' /\ Chained'
  BY <1>2
<1>3. UNCHANGED config
  BY StepCases
<1>4. ConfigTyped'
  BY <1>1, <1>3, ConfigStays
<1>5. CASE stack # <<>> /\ \E x : Becomes(x) /\ Moves(Current, x)
  <2>1. PICK x : Becomes(x) /\ Moves(Current, x)
    BY <1>5
  <2>2. ASSUME NEW f, stack = <<f>>, Outer(f), Current = f, stack' = <<x>>
        PROVE  Chained'
    <3>1. OnItsWay(f) /\ IsFrame(f)
      BY <1>1, <2>2, StackChained DEF Outer
    <3>2. OnItsWay(x)
      BY <1>1, <2>1, <2>2, <3>1, OnItsWayMoves
    <3> QED BY <1>3, <2>2, <3>2, NextChained
  <2>3. ASSUME NEW f, NEW g, stack = <<f, g>>, Inner(g), Current = g, stack' = <<f, x>>
        PROVE  Chained'
    <3>1. OnItsWay(f) /\ OnItsWay(g) /\ f.alias \in entries /\ IsFrame(g)
      BY <1>1, <2>3, StackChained DEF Inner
    <3>2. OnItsWay(x)
      BY <1>1, <2>1, <2>3, <3>1, OnItsWayMoves
    <3> QED BY <1>3, <2>3, <3>1, <3>2, NextChained
  <2> QED BY <1>1, <1>4, <1>5, <2>1, <2>2, <2>3, StackCases
<1>6. CASE Ask
  <2>1. PICK a \in Aliases, text \in Texts, path \in {"invoke", "chat"} :
          /\ path = "chat" => ChatModelExists(a)
          /\ stack' = <<Request(a, text, path, FALSE)>>
    BY <1>6 DEF Ask
  <2>2. PICK f : f = Request(a, text, path, FALSE)
    OBVIOUS
  <2>3. OnItsWay(f)
    BY <1>1, <2>1, <2>2, Begins
  <2> QED BY <1>3, <1>4, <2>1, <2>2, <2>3, NextChained
<1>7. CASE AskJudge
  <2>1. /\ stack # <<>> /\ ~Passes(Current) /\ Current.alias \in entries
        /\ stack' = Append(stack, Request(Judge, JudgePrompt, "invoke", TRUE))
    BY <1>7 DEF AskJudge
  <2>2. ~Judging
    BY <2>1 DEF Passes
  <2>3. PICK f : stack = <<f>> /\ Current = f
    BY <1>1, <2>1, <2>2, StackCases
  <2>4. PICK g : g = Request(Judge, JudgePrompt, "invoke", TRUE)
    BY Zenon
  <2>5. stack' = <<f, g>>
    BY <2>1, <2>3, <2>4, StackFacts
  <2>6. OnItsWay(g)
    <3>1. Judge \in Aliases
      BY GatewayAssumption
    <3> QED BY <1>1, <2>4, <3>1, Begins
  <2>7. OnItsWay(f) /\ f.alias \in entries
    BY <1>1, <2>1, <2>3, StackChained
  <2> QED BY <1>3, <1>4, <2>5, <2>6, <2>7, NextChained
<1>8. CASE stack' = <<>>
  BY <1>3, <1>4, <1>8, NextChained
<1>9. CASE Judged
  <2>1. PICK f, g : stack = <<f, g>> /\ Front(stack) = <<f>>
    BY <1>1, <1>9, JudgeOnTop DEF Judged
  <2>2. stack' = <<f>>
    BY <1>9, <2>1 DEF Judged
  <2>3. OnItsWay(f)
    BY <1>1, <2>1, StackChained
  <2> QED BY <1>3, <1>4, <2>2, <2>3, NextChained
<1>10. CASE JudgeFailed
  <2>1. PICK f, g : /\ stack = <<f, g>> /\ Waits(f) /\ Last(Front(stack)) = f
                    /\ Front(Front(stack)) = <<>>
    BY <1>1, <1>10, JudgeOnTop DEF JudgeFailed
  <2>2. PICK x : /\ x = IF onError = "warn" THEN [f EXCEPT !.stage = "provider", !.waved = TRUE]
                        ELSE Failing(f, "guard")
                 /\ stack' = Append(<<>>, x)
    BY <1>10, <2>1, Zenon DEF JudgeFailed
  <2>3. stack' = <<x>>
    BY <2>2, StackFacts
  <2>4. OnItsWay(f) /\ f.alias \in entries /\ IsFrame(f) /\ f.stage = "before"
    BY <1>1, <2>1, StackChained DEF Waits, Outer
  <2>5. CASE onError = "warn"
    <3>1. /\ SameAlias(f, x) /\ x.asked = f.asked /\ x.attempts = f.attempts /\ x.tries = f.tries
          /\ x.stage = "provider" /\ x.start = f.start
      BY <2>2, <2>4, <2>5 DEF IsFrame, Fields, SameAlias
    <3>2. OnItsWay(x)
      BY <2>4, <3>1, OtherStage DEF OnItsWay
    <3> QED BY <1>3, <1>4, <2>3, <3>2, NextChained
  <2>6. CASE onError # "warn"
    <3>1. Moves(f, x)
      BY <2>2, <2>4, <2>6 DEF Moves
    <3>2. OnItsWay(x)
      BY <1>1, <2>4, <3>1, OnItsWayMoves
    <3> QED BY <1>3, <1>4, <2>3, <3>2, NextChained
  <2> QED BY <2>5, <2>6
<1> QED BY <1>4, <1>5, <1>6, <1>7, <1>8, <1>9, <1>10, StepCases

-----------------------------------------------------------------------------
(* Theorems.                                                               *)

\* No provider is asked about a prompt that was not found safe, whichever path and
\* alias the request came to it by; and the judge's own request is the innermost.
THEOREM UnsafeTextsStay == Spec => []OnlySafeTextsAreAsked
<1>1. IInv => OnlySafeTextsAreAsked
  <2> SUFFICES ASSUME IInv PROVE OnlySafeTextsAreAsked
    OBVIOUS
  <2>1. CASE stack = <<>>
    BY <2>1, StackFacts DEF OnlySafeTextsAreAsked
  <2>2. ASSUME NEW f, stack = <<f>>, Outer(f) PROVE OnlySafeTextsAreAsked
    <3>1. DOMAIN stack = {1} /\ stack[1] = f /\ Len(stack) = 1
      BY <2>2, StackFacts
    <3> QED
      BY <2>2, <3>1 DEF OnlySafeTextsAreAsked, Outer, LetThrough
  <2>3. ASSUME NEW f, NEW g, stack = <<f, g>>, Waits(f), Inner(g) PROVE OnlySafeTextsAreAsked
    <3>1. DOMAIN stack = {1, 2} /\ stack[1] = f /\ stack[2] = g /\ Len(stack) = 2
      BY <2>3, StackFacts
    <3> QED
      BY <2>3, <3>1 DEF OnlySafeTextsAreAsked, Outer, Inner, Waits, LetThrough
  <2> QED
    BY <2>1, <2>2, <2>3 DEF IInv, Stacked
<1> QED
  BY <1>1, Inductive, PTL

\* A block is final on the path of gateway.model: the request asks no provider any
\* more, whatever fallbacks its alias has.
THEOREM BlocksFinal == Spec => BlocksAreFinal
<1> DEFINE Kept == \A i \in DOMAIN stack \cap DOMAIN stack' :
                     (stack[i].refused /\ stack[i].path = "invoke") =>
                       stack'[i].attempts = stack[i].attempts
<1>1. IInv /\ [Next]_vars => [Kept]_vars
  <2> SUFFICES ASSUME IInv, Next, NEW i \in DOMAIN stack \cap DOMAIN stack',
                      stack[i].refused, stack[i].path = "invoke"
               PROVE  stack'[i].attempts = stack[i].attempts
    OBVIOUS
  <2>0. Stacked
    BY DEF IInv
  <2>1. CASE stack # <<>> /\ \E x : Becomes(x) /\ Moves(Current, x)
    <3>1. PICK x : Becomes(x) /\ Moves(Current, x)
      BY <2>1
    <3>2. ASSUME NEW f, stack = <<f>>, Outer(f), Current = f, stack' = <<x>>
          PROVE  stack'[i].attempts = stack[i].attempts
      <4>1. i = 1 /\ stack[i] = f /\ stack'[i] = x
        BY <3>2, StackFacts
      <4> QED
        <5>1. IsFrame(f) /\ f.refused \in BOOLEAN /\ BlockIsFinal(f) /\ Moves(f, x)
          BY <3>1, <3>2 DEF Outer
        <5>2. ASSUME f.refused, f.path = "invoke" PROVE x.attempts = f.attempts
          BY <5>1, <5>2, BlockedAsksNobody, Zenon
        <5> QED
          BY <4>1, <5>2, Zenon
    <3>3. ASSUME NEW f, NEW g, stack = <<f, g>>, Inner(g), Current = g, stack' = <<f, x>>
          PROVE  stack'[i].attempts = stack[i].attempts
      <4>1. (i = 1 /\ stack'[i] = stack[i]) \/ (stack[i] = g /\ stack'[i] = x)
        BY <3>3, StackFacts
      <4> QED
        <5>1. IsFrame(g) /\ g.refused \in BOOLEAN /\ BlockIsFinal(g) /\ Moves(g, x)
          BY <3>1, <3>3 DEF Inner
        <5>2. ASSUME g.refused, g.path = "invoke" PROVE x.attempts = g.attempts
          BY <5>1, <5>2, BlockedAsksNobody, Zenon
        <5> QED
          BY <4>1, <5>2, Zenon
    <3> QED
      BY <2>0, <2>1, <3>1, <3>2, <3>3, StackCases
  <2>2. CASE Ask \/ stack' = <<>>
    BY <2>2, StackFacts DEF Ask
  <2>3. CASE AskJudge
    <3>1. stack # <<>> /\ ~Judging
      BY <2>3 DEF AskJudge, Passes
    <3>2. PICK f : stack = <<f>>
      BY <2>0, <3>1, StackCases
    <3>3. \E y : stack' = <<f, y>>
      BY <2>3, <3>2, StackFacts DEF AskJudge
    <3> QED
      BY <3>2, <3>3, StackFacts
  <2>4. CASE Judged
    <3>1. PICK f, g : stack = <<f, g>> /\ stack' = <<f>>
      BY <2>0, <2>4, JudgeOnTop DEF Judged
    <3> QED
      BY <3>1, StackFacts
  <2>5. CASE JudgeFailed
    <3>1. PICK f, g : /\ stack = <<f, g>> /\ Waits(f) /\ Front(stack) = <<f>> /\ Last(Front(stack)) = f
                      /\ Front(Front(stack)) = <<>>
      BY <2>0, <2>5, JudgeOnTop DEF JudgeFailed
    <3>2. \E y : stack' = Append(<<>>, y)
      BY <2>5, <3>1 DEF JudgeFailed
    <3>3. i = 1 /\ stack[1] = f
      BY <3>1, <3>2, StackFacts
    <3> QED
      BY <3>1, <3>3 DEF Waits, Outer, BlockIsFinal
  <2> QED
    BY <2>1, <2>2, <2>3, <2>4, <2>5, StepCases
<1> QED
  BY <1>1, Inductive, PTL DEF Spec, BlocksAreFinal

\* A verdict comes from an answer of the judge, to a text that had none: a judge
\* that fails leaves nothing in the cache.
THEOREM VerdictsAnswered == Spec => VerdictsAreAnswers
<1> DEFINE Kept == \A t \in Texts: verdicts'[t] # verdicts[t] =>
                     /\ verdicts[t] = "none"
                     /\ Current.judging /\ Current.stage = "after"
<1>1. IInv /\ [Next]_vars => [Kept]_vars
  <2> SUFFICES ASSUME IInv, Next, NEW t \in Texts, verdicts'[t] # verdicts[t]
               PROVE  verdicts[t] = "none" /\ Current.judging /\ Current.stage = "after"
    OBVIOUS
  <2>1. Judged
    BY StepCases DEF Ask, AskJudge, JudgeFailed
  <2>2. PICK f, g : /\ stack = <<f, g>> /\ Waits(f) /\ Inner(g) /\ Current = g
                    /\ Last(Front(stack)) = f
    BY <2>1, JudgeOnTop DEF IInv, Judged
  <2>3. t = f.text
    BY <2>1, <2>2 DEF IInv, Judged
  <2> QED
    BY <2>1, <2>2, <2>3 DEF Judged, Waits, Inner
<1> QED
  BY <1>1, Inductive, PTL DEF Spec, VerdictsAreAnswers

\* The aliases a request asks are a beginning of the chain of fallbacks of the alias
\* asked for, on the path of gateway.model; a chat model's are elements of it in its
\* order.  None is asked more often than its policy allows, whatever the fallbacks are.
THEOREM AsksFollow == Spec => []AsksFollowTheChain
<1>1. CInv => AsksFollowTheChain
  BY ChainKept DEF CInv, Chained, AsksFollowTheChain
<1>2. Spec => []CInv
  BY InitCInv, NextCInv, PTL DEF Spec
<1> QED BY <1>1, <1>2, PTL
=============================================================================
