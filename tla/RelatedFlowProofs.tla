------------------------- MODULE RelatedFlowProofs -------------------------
(***************************************************************************)
(* The group that CheckAttack gathers is the least set closed under the    *)
(* relation, for all relations, users and orders of iteration.             *)
(***************************************************************************)
EXTENDS RelatedFlow, SequenceTheorems, FiniteSetTheorems, SumTheorems, TLAPS

(* The recursion starts in the invariant: CheckAttack's own frame has all  *)
(* the relatives of the user still to visit.                               *)
LEMMA InitInv == Init => TypeOK /\ GroupInv
<1> SUFFICES ASSUME Init PROVE TypeOK /\ GroupInv
  OBVIOUS
<1>1. own \in Flow /\ flow \in [User -> Flow]
  BY RelatedAssumption DEF Init
<1> DEFINE c == [Call(Root) EXCEPT !.total = own]
<1>2. /\ c \in Frame /\ c.user = Root
      /\ c.todo = {v \in User : <<Root, v>> \in DOMAIN related}
  BY <1>1, RelatedAssumption DEF Call, Frame, Flow
<1>s. stack = <<c>>
  BY DEF Init
<1> HIDE DEF c
<1>3. /\ Len(stack) = 1 /\ stack \in Seq(Frame)
      /\ stack[1].user = Root
      /\ stack[1].todo = {v \in User : <<Root, v>> \in DOMAIN related}
  BY <1>2, <1>s
<1>4. TypeOK
  BY <1>1, <1>3, RelatedAssumption DEF Init, TypeOK
<1>5. NoReentry
  BY <1>3 DEF NoReentry
<1>6. \A v \in User : Relative(Root, v) => Pending(Root, v)
  BY <1>3 DEF Relative, Pending
<1> QED
  BY <1>4, <1>5, <1>6 DEF GroupInv, Init

(* The inputs of the recursion do not change, and so neither do the        *)
(* relatives of a user nor the closed sets.                                *)
LEMMA Inputs ==
    ASSUME UNCHANGED input
    PROVE  /\ \A u, v : Relative(u, v)' <=> Relative(u, v)
           /\ \A S : Closed(S)' <=> Closed(S)
BY DEF input, Relative, Closed

(* What the loop's step to the next key leaves of the stack.               *)
LEMMA AdvanceStack ==
    ASSUME TypeOK, NEW v \in User
    PROVE  /\ Advance(v) \in Seq(Frame) /\ Len(Advance(v)) = Len(stack)
           /\ \A i \in 1 .. Len(stack) :
                 /\ Advance(v)[i].user = stack[i].user
                 /\ Advance(v)[i].todo = IF i = Len(stack) THEN stack[i].todo \ {v}
                                         ELSE stack[i].todo
<1>1. stack \in Seq(Frame) /\ Len(stack) \in 1 .. Len(stack)
  BY DEF TypeOK
<1>2. Top \in Frame
  BY <1>1, ElementOfSeq DEF Top
<1> DEFINE t == [Top EXCEPT !.todo = @ \ {v}]
<1>3. t \in Frame /\ t.user = Top.user /\ t.todo = Top.todo \ {v}
  BY <1>2 DEF Frame
<1> HIDE DEF t
<1>4. Advance(v) = [stack EXCEPT ![Len(stack)] = t]
  BY DEF Advance, t
<1>5. /\ Advance(v) \in Seq(Frame) /\ Len(Advance(v)) = Len(stack)
      /\ \A i \in 1 .. Len(stack) : Advance(v)[i] = IF i = Len(stack) THEN t ELSE stack[i]
  BY <1>1, <1>3, <1>4, ExceptSeq
<1> QED
  BY <1>1, <1>3, <1>5 DEF Top

(* continue: a key that is no relative, or is used already.                *)
LEMMA SkipInv ==
    ASSUME TypeOK, GroupInv, NEW v \in User, Skip(v)
    PROVE  TypeOK' /\ GroupInv'
<1>1. UNCHANGED input /\ UNCHANGED <<used, verdict>> /\ stack' = Advance(v)
  BY DEF Skip
<1>2. /\ stack' \in Seq(Frame) /\ Len(stack') = Len(stack)
      /\ \A i \in 1 .. Len(stack) :
            /\ stack'[i].user = stack[i].user
            /\ stack'[i].todo = IF i = Len(stack) THEN stack[i].todo \ {v} ELSE stack[i].todo
  BY <1>1, AdvanceStack
<1>3. TypeOK'
  BY <1>1, <1>2 DEF TypeOK, input, IsRelation
<1>n. Len(stack) \in Nat /\ Len(stack) >= 1
  BY DEF TypeOK
<1>4. NoReentry'
  <2>1. NoReentry
    BY DEF GroupInv
  <2>2. \A i \in 1 .. Len(stack) : stack'[i].user = stack[i].user
    BY <1>2
  <2> QED
    BY <1>1, <1>2, <1>n, <2>1, <2>2 DEF NoReentry
<1>5. ASSUME NEW u \in used \cup {Root}, NEW w \in User, Relative(u, w), w \notin used
      PROVE  Pending(u, w)'
  <2>1. PICK i \in 1 .. Len(stack) : stack[i].user = u /\ w \in stack[i].todo
    BY <1>5 DEF GroupInv, Pending
  <2>2. ~(i = Len(stack) /\ w = v)
    BY <1>5, <2>1 DEF Skip, Top
  <2> QED
    BY <1>2, <2>1, <2>2 DEF Pending
<1>6. \A u \in used' \cup {Root}, w \in User : Relative(u, w)' => w \in used' \/ Pending(u, w)'
  BY <1>1, <1>5, Inputs
<1>7. \A S \in SUBSET User : Closed(S)' => used' \subseteq S
  BY <1>1, Inputs DEF GroupInv
<1>8. verdict' = "none"
  BY <1>1 DEF Skip
<1> QED
  BY <1>3, <1>4, <1>6, <1>7, <1>8 DEF GroupInv

(* usedAddress[relatedUser] = true, and the call.                          *)
LEMMA VisitInv ==
    ASSUME TypeOK, GroupInv, NEW v \in User, Visit(v)
    PROVE  TypeOK' /\ GroupInv'
<1>1. /\ UNCHANGED input /\ UNCHANGED verdict /\ used' = used \cup {v}
      /\ stack' = Append(Advance(v), Call(v))
      /\ Relative(Top.user, v) /\ v \notin used /\ verdict = "none"
  BY DEF Visit
<1>n. Len(stack) \in Nat /\ Len(stack) >= 1
  BY DEF TypeOK
<1>2. Call(v) \in Frame /\ Call(v).user = v
      /\ Call(v).todo = {w \in User : <<v, w>> \in DOMAIN related}
  BY DEF Call, Frame, TypeOK
<1>3. /\ stack' \in Seq(Frame) /\ Len(stack') = Len(stack) + 1
      /\ \A i \in 1 .. Len(stack) : stack'[i] = Advance(v)[i]
      /\ stack'[Len(stack) + 1] = Call(v)
  <2>1. Advance(v) \in Seq(Frame) /\ Len(Advance(v)) = Len(stack)
    BY AdvanceStack
  <2> QED
    BY <1>1, <1>2, <2>1, AppendProperties
<1>4. \A i \in 1 .. Len(stack) :
         /\ stack'[i].user = stack[i].user
         /\ stack'[i].todo = IF i = Len(stack) THEN stack[i].todo \ {v} ELSE stack[i].todo
  <2>1. \A i \in 1 .. Len(stack) :
           /\ Advance(v)[i].user = stack[i].user
           /\ Advance(v)[i].todo = IF i = Len(stack) THEN stack[i].todo \ {v}
                                   ELSE stack[i].todo
    BY AdvanceStack
  <2>2. \A i \in 1 .. Len(stack) : stack'[i] = Advance(v)[i]
    BY <1>3
  <2> QED
    BY <2>1, <2>2, Zenon
<1>5. TypeOK'
  <2>1. v \notin common
    BY <1>1 DEF Relative
  <2> QED
    BY <1>1, <1>3, <1>n, <2>1 DEF TypeOK, input, IsRelation
<1>r. NoReentry
  BY DEF GroupInv
<1>6. NoReentry'
  <2>0. \A i \in 1 .. Len(stack) : stack'[i].user = stack[i].user
    BY <1>4
  <2>1. stack'[1].user = Root
    BY <1>r, <1>n, <2>0 DEF NoReentry
  <2>2. \A i \in 2 .. Len(stack) : stack'[i].user = stack[i].user /\ stack'[i].user \in used
    BY <1>r, <1>n, <2>0 DEF NoReentry
  <2>3. stack'[Len(stack) + 1].user = v
    BY <1>2, <1>3
  <2>4. \A i, j \in 2 .. Len(stack) : stack'[i].user = stack'[j].user => i = j
    BY <1>r, <2>2 DEF NoReentry
  <2>5. \A i \in 2 .. Len(stack') : i = Len(stack) + 1 \/ i \in 2 .. Len(stack)
    BY <1>3, <1>n
  <2>6. \A i \in 2 .. Len(stack') : stack'[i].user \in used'
    BY <1>1, <2>2, <2>3, <2>5
  <2>7. \A i, j \in 2 .. Len(stack') : stack'[i].user = stack'[j].user => i = j
    BY <1>1, <2>2, <2>3, <2>4, <2>5
  <2> QED
    BY <2>1, <2>6, <2>7 DEF NoReentry
<1>7. ASSUME NEW u \in used \cup {Root}, NEW w \in User, Relative(u, w), w \notin used, w # v
      PROVE  Pending(u, w)'
  <2>1. PICK i \in 1 .. Len(stack) : stack[i].user = u /\ w \in stack[i].todo
    BY <1>7 DEF GroupInv, Pending
  <2>2. stack'[i].user = u /\ w \in stack'[i].todo
    BY <1>4, <1>7, <2>1
  <2>3. i \in 1 .. Len(stack')
    BY <1>3, <1>n
  <2> QED
    BY <2>2, <2>3 DEF Pending
<1>8. ASSUME NEW w \in User, Relative(v, w)
      PROVE  Pending(v, w)'
  <2>1. w \in Call(v).todo
    BY <1>2, <1>8 DEF Relative
  <2>2. stack'[Len(stack) + 1].user = v /\ w \in stack'[Len(stack) + 1].todo
    BY <1>2, <1>3, <2>1
  <2>3. Len(stack) + 1 \in 1 .. Len(stack')
    BY <1>3, <1>n
  <2> QED
    BY <2>2, <2>3 DEF Pending
<1>9. \A u \in used' \cup {Root}, w \in User : Relative(u, w)' => w \in used' \/ Pending(u, w)'
  BY <1>1, <1>7, <1>8, Inputs
<1>10. ASSUME NEW S \in SUBSET User, Closed(S) PROVE used' \subseteq S
  <2>1. used \subseteq S
    BY <1>10 DEF GroupInv
  <2>2. Top.user = Root \/ Top.user \in used
    BY <1>n, <1>r DEF Top, NoReentry
  <2>3. v \in S
    BY <1>1, <1>10, <2>1, <2>2 DEF Closed
  <2> QED
    BY <1>1, <2>1, <2>3
<1>11. \A S \in SUBSET User : Closed(S)' => used' \subseteq S
  BY <1>1, <1>10, Inputs
<1>12. verdict' = "none"
  BY <1>1
<1> QED
  BY <1>5, <1>6, <1>9, <1>11, <1>12 DEF GroupInv

(* The call returns its totals to the frame below.                         *)
LEMMA ReturnInv ==
    ASSUME TypeOK, GroupInv, Return
    PROVE  TypeOK' /\ GroupInv'
<1> DEFINE n == Len(stack)
           s == SubSeq(stack, 1, n - 1)
           f == [stack[n - 1] EXCEPT !.total = Add(stack[n - 1].total, Top.total)]
<1>1. /\ UNCHANGED input /\ UNCHANGED <<used, verdict>> /\ verdict = "none"
      /\ n > 1 /\ Top.todo = {} /\ stack' = [s EXCEPT ![n - 1] = f]
  BY DEF Return
<1>2. stack \in Seq(Frame) /\ n \in Nat /\ n - 1 \in 1 .. n /\ n \in 1 .. n
  BY <1>1 DEF TypeOK
<1>3. s \in Seq(Frame) /\ Len(s) = n - 1 /\ \A i \in 1 .. n - 1 : s[i] = stack[i]
  BY <1>1, <1>2, SubSeqProperties
<1>4. stack[n - 1] \in Frame /\ Top \in Frame
  BY <1>2, ElementOfSeq DEF Top
<1>5. f \in Frame /\ f.user = stack[n - 1].user /\ f.todo = stack[n - 1].todo
  BY <1>4 DEF Frame, Flow, Add
<1> HIDE DEF n, s, f
<1>6. /\ stack' \in Seq(Frame) /\ Len(stack') = n - 1
      /\ \A i \in 1 .. n - 1 : stack'[i] = IF i = n - 1 THEN f ELSE s[i]
  BY <1>1, <1>2, <1>3, <1>5, ExceptSeq
<1>7. \A i \in 1 .. n - 1 : stack'[i].user = stack[i].user /\ stack'[i].todo = stack[i].todo
  BY <1>3, <1>5, <1>6
<1>8. TypeOK'
  BY <1>1, <1>2, <1>6 DEF TypeOK, input, IsRelation
<1>9. NoReentry'
  <2>1. NoReentry
    BY DEF GroupInv
  <2>2. \A i \in 1 .. n - 1 : stack'[i].user = stack[i].user
    BY <1>7
  <2>3. stack'[1].user = Root
    BY <1>1, <1>2, <2>1, <2>2 DEF NoReentry
  <2>4. \A i \in 2 .. n - 1 : i \in 1 .. n - 1 /\ i \in 2 .. Len(stack)
    BY <1>2 DEF n
  <2>5. \A i \in 2 .. n - 1 : stack'[i].user \in used
    BY <2>1, <2>2, <2>4 DEF NoReentry
  <2>6. \A i, j \in 2 .. n - 1 : stack'[i].user = stack'[j].user => i = j
    BY <2>1, <2>2, <2>4 DEF NoReentry
  <2> QED
    BY <1>1, <1>6, <2>3, <2>5, <2>6 DEF NoReentry
<1>10. ASSUME NEW u \in used \cup {Root}, NEW w \in User, Relative(u, w), w \notin used
       PROVE  Pending(u, w)'
  <2>1. PICK i \in 1 .. n : stack[i].user = u /\ w \in stack[i].todo
    BY <1>10 DEF GroupInv, Pending, n
  <2>2. i # n
    BY <1>1, <2>1 DEF Top, n
  <2>3. i \in 1 .. n - 1
    BY <1>2, <2>1, <2>2
  <2> QED
    BY <1>6, <1>7, <2>1, <2>3 DEF Pending
<1>11. \A u \in used' \cup {Root}, w \in User : Relative(u, w)' => w \in used' \/ Pending(u, w)'
  BY <1>1, <1>10, Inputs
<1>12. \A S \in SUBSET User : Closed(S)' => used' \subseteq S
  BY <1>1, Inputs DEF GroupInv
<1> QED
  BY <1>1, <1>8, <1>9, <1>11, <1>12 DEF GroupInv

(* abnormalDetection and stuttering leave the recursion alone.             *)
LEMMA StillInv ==
    ASSUME TypeOK, GroupInv, UNCHANGED <<input, stack, used>>,
           verdict' # "none" => Len(stack) = 1 /\ stack[1].todo = {},
           verdict' \in {"none", "attack", "normal"}
    PROVE  TypeOK' /\ GroupInv'
<1>1. TypeOK'
  BY DEF TypeOK, input, IsRelation
<1>2. NoReentry'
  BY DEF GroupInv, NoReentry
<1>3. UNCHANGED input
  OBVIOUS
<1>4. \A u, w : Pending(u, w)' <=> Pending(u, w)
  BY DEF Pending
<1>5. \A u \in used' \cup {Root}, w \in User : Relative(u, w)' => w \in used' \/ Pending(u, w)'
  BY <1>3, <1>4, Inputs DEF GroupInv
<1>6. \A S \in SUBSET User : Closed(S)' => used' \subseteq S
  BY <1>3, Inputs DEF GroupInv
<1>7. verdict' # "none" => Len(stack') = 1 /\ stack'[1].todo = {}
  OBVIOUS
<1> QED
  BY <1>1, <1>2, <1>5, <1>6, <1>7 DEF GroupInv

(* The inductive invariant: what CheckAttack has still to visit, and that  *)
(* usedAddress holds nothing but the group.                                *)
THEOREM GroupInvariant == Spec => [](TypeOK /\ GroupInv)
<1>1. ASSUME TypeOK, GroupInv, [Next]_vars PROVE (TypeOK /\ GroupInv)'
  <2>1. CASE \E v \in User : Skip(v) \/ Visit(v)
    BY <1>1, <2>1, SkipInv, VisitInv
  <2>2. CASE Return
    BY <1>1, <2>2, ReturnInv
  <2>3. CASE abnormalDetection
    <3>1. UNCHANGED <<input, stack, used>> /\ Len(stack) = 1 /\ stack[1].todo = {}
      BY <2>3 DEF abnormalDetection, Top
    <3>2. verdict' \in {"none", "attack", "normal"}
      BY <2>3 DEF abnormalDetection
    <3> QED
      BY <1>1, <3>1, <3>2, StillInv
  <2>4. CASE UNCHANGED vars
    <3>1. UNCHANGED <<input, stack, used>> /\ verdict' = verdict
      BY <2>4 DEF vars
    <3>2. verdict' \in {"none", "attack", "normal"}
      BY <1>1, <3>1 DEF TypeOK
    <3>3. verdict' # "none" => Len(stack) = 1 /\ stack[1].todo = {}
      BY <1>1, <3>1 DEF GroupInv
    <3> QED
      BY <1>1, <3>1, <3>2, <3>3, StillInv
  <2> QED
    BY <1>1, <2>1, <2>2, <2>3, <2>4 DEF Next
<1> QED
  BY InitInv, <1>1, PTL DEF Spec

(* The recursion of CheckAttack enters no user twice but the first.        *)
THEOREM RecursionIsBounded == Spec => []NoReentry
<1>1. GroupInv => NoReentry
  BY DEF GroupInv
<1> QED
  BY GroupInvariant, <1>1, PTL

(* When CheckAttack decides, usedAddress is exactly the group of the user, *)
(* whatever the order in which the maps were iterated.                     *)
THEOREM GroupIsTheLeast == Spec => []GroupIsLeast
<1>1. ASSUME TypeOK, GroupInv PROVE GroupIsLeast
  <2> SUFFICES ASSUME verdict # "none" PROVE Closed(used)
    BY <1>1 DEF GroupIsLeast, GroupInv
  <2>1. Len(stack) = 1 /\ stack[1].todo = {}
    BY <1>1 DEF GroupInv
  <2>2. \A u, v : ~Pending(u, v)
    BY <2>1 DEF Pending
  <2>3. \A u \in used \cup {Root}, v \in User : Relative(u, v) => v \in used
    BY <1>1, <2>2 DEF GroupInv
  <2> QED
    BY <2>3 DEF Closed
<1> QED
  BY GroupInvariant, <1>1, PTL

-----------------------------------------------------------------------------
(* The totals.                                                             *)

Deposits  == [i \in 1 .. Len(stack) |-> stack[i].total.deposit]
Withdraws == [i \in 1 .. Len(stack) |-> stack[i].total.withdraw]
DepositOf  == [u \in User |-> flow[u].deposit]
WithdrawOf == [u \in User |-> flow[u].withdraw]

(* What the frames have gathered together: the flow of the user, and that  *)
(* of each used address once, wherever the frame of that user has gone.    *)
SumInv ==
    /\ IsFiniteSet(used)
    /\ SumFunctionOnSet(Deposits, 1 .. Len(stack)) = own.deposit + SumFunctionOnSet(DepositOf, used)
    /\ SumFunctionOnSet(Withdraws, 1 .. Len(stack)) = own.withdraw + SumFunctionOnSet(WithdrawOf, used)
    /\ verdict # "none" => verdict = IF Abnormal(stack[1].total) THEN "attack" ELSE "normal"

(* The numbers that are added.                                             *)
LEMMA NumbersType ==
    ASSUME TypeOK
    PROVE  /\ Len(stack) \in Nat /\ Len(stack) >= 1
           /\ \A i \in 1 .. Len(stack) : stack[i] \in Frame /\ stack[i].total \in Flow
           /\ Deposits \in [1 .. Len(stack) -> Int] /\ Withdraws \in [1 .. Len(stack) -> Int]
           /\ DepositOf \in [User -> Int] /\ WithdrawOf \in [User -> Int]
           /\ own.deposit \in Int /\ own.withdraw \in Int
<1>1. stack \in Seq(Frame) /\ Len(stack) \in Nat /\ Len(stack) >= 1
  BY DEF TypeOK
<1>2. \A i \in 1 .. Len(stack) : stack[i] \in Frame
  BY <1>1, ElementOfSeq
<1>3. \A i \in 1 .. Len(stack) : stack[i].total \in Flow
  BY <1>2 DEF Frame
<1>4. Deposits \in [1 .. Len(stack) -> Int] /\ Withdraws \in [1 .. Len(stack) -> Int]
  BY <1>3 DEF Deposits, Withdraws, Flow
<1>5. DepositOf \in [User -> Int] /\ WithdrawOf \in [User -> Int] /\ own.deposit \in Int /\ own.withdraw \in Int
  BY DEF DepositOf, WithdrawOf, Flow, TypeOK
<1> QED
  BY <1>1, <1>2, <1>3, <1>4, <1>5

(* A sum over a sequence of one number.                                    *)
LEMMA SumOne ==
    ASSUME NEW f \in [1 .. 1 -> Int] PROVE SumFunctionOnSet(f, 1 .. 1) = f[1]
<1> DEFINE e == [i \in 1 .. 0 |-> 0]
<1>1. e \in [1 .. 0 -> Int] /\ 0 \in Nat /\ f \in [1 .. 0 + 1 -> Int] /\ \A i \in 1 .. 0 : f[i] = e[i]
  OBVIOUS
<1> HIDE DEF e
<1>2. SumFunctionOnSet(f, 1 .. 0 + 1) = SumFunctionOnSet(e, 1 .. 0) + f[0 + 1]
  BY <1>1, SumAppend
<1>3. 1 .. 0 = {} /\ 0 + 1 = 1
  OBVIOUS
<1>4. SumFunctionOnSet(e, 1 .. 0) = 0
  BY <1>3, SumEmpty, Zenon
<1>5. SumFunctionOnSet(f, 1 .. 1) = 0 + f[1]
  BY <1>2, <1>3, <1>4, Zenon
<1> QED
  BY <1>5

(* CheckAttack starts with the flow at hand.                               *)
LEMMA SumInit == Init => SumInv
<1> SUFFICES ASSUME Init PROVE SumInv
  OBVIOUS
<1>0. TypeOK
  BY InitInv
<1>1. Len(stack) = 1 /\ stack[1].total = own /\ used = {} /\ verdict = "none"
  BY <1>0 DEF Init, Call
<1>2. Deposits \in [1 .. 1 -> Int] /\ Withdraws \in [1 .. 1 -> Int]
  BY <1>0, <1>1, NumbersType
<1>3. Deposits[1] = own.deposit /\ Withdraws[1] = own.withdraw
  BY <1>1 DEF Deposits, Withdraws
<1>4. /\ SumFunctionOnSet(Deposits, 1 .. Len(stack)) = own.deposit
      /\ SumFunctionOnSet(Withdraws, 1 .. Len(stack)) = own.withdraw
  BY <1>1, <1>2, <1>3, SumOne
<1>5. SumFunctionOnSet(DepositOf, used) = 0 /\ SumFunctionOnSet(WithdrawOf, used) = 0
  BY <1>1, SumEmpty
<1>6. own.deposit \in Int /\ own.withdraw \in Int
  BY <1>0, NumbersType
<1> QED
  BY <1>1, <1>4, <1>5, <1>6, FS_EmptySet DEF SumInv

(* A step that leaves the totals of the frames.                            *)
LEMMA SumStill ==
    ASSUME TypeOK, SumInv, UNCHANGED <<input, used>>, Len(stack') = Len(stack),
           \A i \in 1 .. Len(stack) : stack'[i].total = stack[i].total,
           verdict' # "none" => verdict' = IF Abnormal(stack[1].total) THEN "attack" ELSE "normal"
    PROVE  SumInv'
<1>1. Deposits' = Deposits /\ Withdraws' = Withdraws
  BY DEF Deposits, Withdraws
<1>2. DepositOf' = DepositOf /\ WithdrawOf' = WithdrawOf /\ own' = own /\ used' = used
  BY DEF DepositOf, WithdrawOf, input
<1>3. stack'[1].total = stack[1].total
  BY NumbersType
<1> QED
  BY <1>1, <1>2, <1>3 DEF SumInv

(* continue keeps the totals.                                              *)
LEMMA AdvanceTotals ==
    ASSUME TypeOK, NEW v \in User
    PROVE  Len(Advance(v)) = Len(stack) /\ \A i \in 1 .. Len(stack) : Advance(v)[i].total = stack[i].total
<1>1. stack \in Seq(Frame) /\ Len(stack) \in 1 .. Len(stack)
  BY DEF TypeOK
<1>2. Top \in Frame
  BY <1>1, ElementOfSeq DEF Top
<1> DEFINE t == [Top EXCEPT !.todo = @ \ {v}]
<1>3. t \in Frame /\ t.total = Top.total
  BY <1>2 DEF Frame
<1> HIDE DEF t
<1>4. Advance(v) = [stack EXCEPT ![Len(stack)] = t]
  BY DEF Advance, t
<1>5. /\ Len(Advance(v)) = Len(stack)
      /\ \A i \in 1 .. Len(stack) : Advance(v)[i] = IF i = Len(stack) THEN t ELSE stack[i]
  BY <1>1, <1>3, <1>4, ExceptSeq
<1> QED
  BY <1>1, <1>3, <1>5 DEF Top

(* The call starts with the totals of the user that is marked as used.     *)
LEMMA SumVisit ==
    ASSUME TypeOK, GroupInv, SumInv, NEW v \in User, Visit(v)
    PROVE  SumInv'
<1>1. /\ UNCHANGED input /\ verdict' = "none" /\ used' = used \cup {v} /\ v \notin used
      /\ stack' = Append(Advance(v), Call(v))
  BY DEF Visit
<1> DEFINE n == Len(stack)
<1>3. n \in Nat /\ Advance(v) \in Seq(Frame) /\ Len(Advance(v)) = n
  BY AdvanceStack, NumbersType
<1>4. Call(v) \in Frame /\ Call(v).total = flow[v]
  BY DEF Call, Frame, TypeOK
<1>5. Len(stack') = n + 1 /\ stack'[n + 1] = Call(v) /\ \A i \in 1 .. n : stack'[i] = Advance(v)[i]
  BY <1>1, <1>3, <1>4, AppendProperties
<1>6. \A i \in 1 .. n : stack'[i].total = stack[i].total
  BY <1>5, AdvanceTotals
<1>7. /\ \A i \in 1 .. n : Deposits'[i] = Deposits[i] /\ Withdraws'[i] = Withdraws[i]
      /\ Deposits'[n + 1] = flow[v].deposit /\ Withdraws'[n + 1] = flow[v].withdraw
  BY <1>3, <1>4, <1>5, <1>6 DEF Deposits, Withdraws
<1>8. /\ Deposits \in [1 .. n -> Int] /\ Withdraws \in [1 .. n -> Int]
      /\ Deposits' \in [1 .. n + 1 -> Int] /\ Withdraws' \in [1 .. n + 1 -> Int]
      /\ DepositOf \in [User -> Int] /\ WithdrawOf \in [User -> Int] /\ own.deposit \in Int /\ own.withdraw \in Int
  <2>1. Deposits' = [i \in 1 .. n + 1 |-> stack'[i].total.deposit]
    BY <1>5 DEF Deposits
  <2>2. Withdraws' = [i \in 1 .. n + 1 |-> stack'[i].total.withdraw]
    BY <1>5 DEF Withdraws
  <2>3. \A i \in 1 .. n : stack'[i].total \in Flow
    BY <1>6, NumbersType
  <2>4. stack'[n + 1].total \in Flow
    BY <1>4, <1>5 DEF TypeOK
  <2>5. \A i \in 1 .. n + 1 : stack'[i].total.deposit \in Int /\ stack'[i].total.withdraw \in Int
    BY <1>3, <2>3, <2>4 DEF Flow
  <2>6. Deposits' \in [1 .. n + 1 -> Int] /\ Withdraws' \in [1 .. n + 1 -> Int]
    BY <2>1, <2>2, <2>5
  <2> QED
    BY <2>6, NumbersType
<1>9. /\ DepositOf' = DepositOf /\ WithdrawOf' = WithdrawOf /\ own' = own
      /\ DepositOf[v] = flow[v].deposit /\ WithdrawOf[v] = flow[v].withdraw
  BY <1>1 DEF DepositOf, WithdrawOf, input
<1> HIDE DEF n
<1>10. /\ SumFunctionOnSet(Deposits', 1 .. n + 1) = SumFunctionOnSet(Deposits, 1 .. n) + Deposits'[n + 1]
       /\ SumFunctionOnSet(Withdraws', 1 .. n + 1) = SumFunctionOnSet(Withdraws, 1 .. n) + Withdraws'[n + 1]
  BY <1>3, <1>7, <1>8, SumAppend
<1>11. IsFiniteSet(used) /\ used \subseteq User
  BY DEF SumInv, TypeOK
<1>12. /\ SumFunctionOnSet(DepositOf, used \cup {v}) = SumFunctionOnSet(DepositOf, used) + DepositOf[v]
       /\ SumFunctionOnSet(WithdrawOf, used \cup {v}) = SumFunctionOnSet(WithdrawOf, used) + WithdrawOf[v]
  <2>1. /\ \A u \in used : DepositOf[u] \in Int /\ WithdrawOf[u] \in Int
        /\ DepositOf[v] \in Int /\ WithdrawOf[v] \in Int
    BY <1>8, <1>11
  <2> QED
    BY <1>1, <1>11, <2>1, SumAdd
<1>13. SumFunctionOnSet(DepositOf, used) \in Int /\ SumFunctionOnSet(WithdrawOf, used) \in Int
  BY <1>8, <1>11, SumType
<1>14. /\ SumFunctionOnSet(Deposits, 1 .. n) = own.deposit + SumFunctionOnSet(DepositOf, used)
       /\ SumFunctionOnSet(Withdraws, 1 .. n) = own.withdraw + SumFunctionOnSet(WithdrawOf, used)
  BY DEF SumInv, n
<1>15. flow[v].deposit \in Int /\ flow[v].withdraw \in Int
  BY <1>8, <1>9
<1>16. /\ SumFunctionOnSet(Deposits', 1 .. n + 1) = own.deposit + SumFunctionOnSet(DepositOf, used \cup {v})
       /\ SumFunctionOnSet(Withdraws', 1 .. n + 1) = own.withdraw + SumFunctionOnSet(WithdrawOf, used \cup {v})
  BY <1>7, <1>8, <1>9, <1>10, <1>12, <1>13, <1>14, <1>15
<1>17. IsFiniteSet(used')
  BY <1>1, <1>11, FS_AddElement
<1> QED
  BY <1>1, <1>5, <1>9, <1>16, <1>17, Zenon DEF SumInv

(* The frame below gets the totals of the call that returns.               *)
LEMMA SumReturn ==
    ASSUME TypeOK, GroupInv, SumInv, Return
    PROVE  SumInv'
<1> DEFINE n == Len(stack)
           s == SubSeq(stack, 1, n - 1)
           f == [stack[n - 1] EXCEPT !.total = Add(stack[n - 1].total, Top.total)]
<1>1. UNCHANGED input /\ used' = used /\ verdict' = "none" /\ n > 1 /\ stack' = [s EXCEPT ![n - 1] = f]
  BY DEF Return
<1>3. stack \in Seq(Frame) /\ n \in Nat /\ n - 1 \in 1 .. n /\ n \in 1 .. n
  BY <1>1 DEF TypeOK
<1>4. s \in Seq(Frame) /\ Len(s) = n - 1 /\ \A i \in 1 .. n - 1 : s[i] = stack[i]
  BY <1>1, <1>3, SubSeqProperties
<1>5. stack[n - 1] \in Frame /\ stack[n] \in Frame
  BY <1>3, ElementOfSeq
<1>6. /\ f \in Frame /\ f.total.deposit = stack[n - 1].total.deposit + stack[n].total.deposit
      /\ f.total.withdraw = stack[n - 1].total.withdraw + stack[n].total.withdraw
  <2> DEFINE t == Add(stack[n - 1].total, stack[n].total)
  <2>1. stack[n - 1].total \in Flow /\ stack[n].total \in Flow
    BY <1>5 DEF Frame
  <2> DEFINE x == stack[n - 1].total
             y == stack[n].total
  <2>2. t \in Flow /\ t.deposit = x.deposit + y.deposit /\ t.withdraw = x.withdraw + y.withdraw
    <3> HIDE DEF x, y
    <3>1. t = [deposit |-> x.deposit + y.deposit, withdraw |-> x.withdraw + y.withdraw]
      BY DEF Add, x, y
    <3>2. x.deposit \in Nat /\ x.withdraw \in Nat /\ y.deposit \in Nat /\ y.withdraw \in Nat
      BY <2>1 DEF Flow, x, y
    <3> HIDE DEF t
    <3> QED
      BY <3>1, <3>2 DEF Flow
  <2>3. f = [stack[n - 1] EXCEPT !.total = t]
    BY DEF Top
  <2> HIDE DEF t, f
  <2>4. f \in Frame /\ f.total = t
    BY <1>5, <2>2, <2>3 DEF Frame
  <2> QED
    BY <2>2, <2>4
<1> HIDE DEF n, s, f
<1>7. Len(stack') = n - 1 /\ \A i \in 1 .. n - 1 : stack'[i] = IF i = n - 1 THEN f ELSE s[i]
  BY <1>1, <1>3, <1>4, <1>6, ExceptSeq
<1>8. /\ \A i \in 1 .. n - 2 : Deposits'[i] = Deposits[i] /\ Withdraws'[i] = Withdraws[i]
      /\ Deposits'[n - 1] = Deposits[n - 1] + Deposits[n]
      /\ Withdraws'[n - 1] = Withdraws[n - 1] + Withdraws[n]
  <2>1. \A i \in 1 .. n - 1 : Deposits'[i] = stack'[i].total.deposit /\ Withdraws'[i] = stack'[i].total.withdraw
    BY <1>7 DEF Deposits, Withdraws
  <2>2. \A i \in 1 .. n : Deposits[i] = stack[i].total.deposit /\ Withdraws[i] = stack[i].total.withdraw
    BY DEF Deposits, Withdraws, n
  <2>3. \A i \in 1 .. n - 2 : i \in 1 .. n - 1 /\ i \in 1 .. n /\ i # n - 1
    BY <1>3
  <2>4. \A i \in 1 .. n - 2 : stack'[i] = stack[i]
    BY <1>4, <1>7, <2>3
  <2>5. n - 1 \in 1 .. n - 1 /\ stack'[n - 1] = f
    BY <1>1, <1>3, <1>7
  <2> QED
    BY <1>3, <1>6, <2>1, <2>2, <2>3, <2>4, <2>5
<1>9. /\ Deposits \in [1 .. n -> Int] /\ Withdraws \in [1 .. n -> Int]
      /\ Deposits' \in [1 .. n - 1 -> Int] /\ Withdraws' \in [1 .. n - 1 -> Int]
  <2>1. /\ Deposits \in [1 .. n -> Int] /\ Withdraws \in [1 .. n -> Int]
    BY NumbersType DEF n
  <2>2. \A i \in 1 .. n - 1 : Deposits'[i] \in Int /\ Withdraws'[i] \in Int
    <3>1. \A i \in 1 .. n - 1 : i = n - 1 \/ i \in 1 .. n - 2
      BY <1>3
    <3>2. \A i \in 1 .. n : Deposits[i] \in Int /\ Withdraws[i] \in Int
      BY <2>1
    <3>3. \A i \in 1 .. n - 2 : i \in 1 .. n
      BY <1>3
    <3>4. \A i \in 1 .. n - 2 : Deposits'[i] \in Int /\ Withdraws'[i] \in Int
      BY <1>8, <3>2, <3>3, Zenon
    <3>5. Deposits'[n - 1] \in Int /\ Withdraws'[n - 1] \in Int
      BY <1>3, <1>8, <3>2
    <3> QED
      BY <3>1, <3>4, <3>5, Zenon
  <2>3. /\ Deposits' = [i \in 1 .. n - 1 |-> Deposits'[i]]
        /\ Withdraws' = [i \in 1 .. n - 1 |-> Withdraws'[i]]
    BY <1>7 DEF Deposits, Withdraws
  <2> QED
    BY <2>1, <2>2, <2>3
<1>10. /\ SumFunctionOnSet(Deposits', 1 .. n - 1) = SumFunctionOnSet(Deposits, 1 .. n)
       /\ SumFunctionOnSet(Withdraws', 1 .. n - 1) = SumFunctionOnSet(Withdraws, 1 .. n)
  BY <1>1, <1>3, <1>8, <1>9, SumMerge
<1>11. DepositOf' = DepositOf /\ WithdrawOf' = WithdrawOf /\ own' = own
  BY <1>1 DEF DepositOf, WithdrawOf, input
<1> QED
  BY <1>1, <1>7, <1>10, <1>11, Zenon DEF SumInv, n

(* Every step keeps the sums.                                              *)
LEMMA SumStep == TypeOK /\ GroupInv /\ SumInv /\ [Next]_vars => SumInv'
<1> SUFFICES ASSUME TypeOK, GroupInv, SumInv, [Next]_vars PROVE SumInv'
  OBVIOUS
<1>1. ASSUME NEW v \in User, Skip(v) PROVE SumInv'
  <2>1. UNCHANGED <<input, used>> /\ verdict' = "none" /\ stack' = Advance(v)
    BY <1>1 DEF Skip
  <2>2. Len(stack') = Len(stack) /\ \A i \in 1 .. Len(stack) : stack'[i].total = stack[i].total
    BY <2>1, AdvanceTotals
  <2> QED
    BY <2>1, <2>2, SumStill
<1>2. CASE abnormalDetection
  <2>1. UNCHANGED <<input, used>> /\ stack' = stack /\ Len(stack) = 1
    BY <1>2 DEF abnormalDetection
  <2>2. verdict' = IF Abnormal(stack[1].total) THEN "attack" ELSE "normal"
    BY <1>2, <2>1 DEF abnormalDetection, Top
  <2> QED
    BY <2>1, <2>2, SumStill
<1>3. CASE UNCHANGED vars
  <2>1. UNCHANGED <<input, used>> /\ stack' = stack /\ verdict' = verdict
    BY <1>3 DEF vars
  <2>2. verdict' # "none" => verdict' = IF Abnormal(stack[1].total) THEN "attack" ELSE "normal"
    BY <2>1 DEF SumInv
  <2> QED
    BY <2>1, <2>2, SumStill
<1> QED
  BY <1>1, <1>2, <1>3, SumVisit, SumReturn DEF Next

(* abnormalDetection decides on the flow of the user and of every user of  *)
(* its group, each counted once, whatever the order of the recursion.      *)
THEOREM VerdictIsOfGroup == Spec => []VerdictIsGroupRate
<1>1. TypeOK /\ GroupInv /\ SumInv => VerdictIsGroupRate
  <2> SUFFICES ASSUME TypeOK, GroupInv, SumInv, verdict # "none", Root \notin used
               PROVE  verdict = Expected
    BY DEF VerdictIsGroupRate
  <2>1. Len(stack) = 1 /\ used \ {Root} = used
    BY DEF GroupInv
  <2>2. stack[1].total \in Flow /\ Deposits \in [1 .. 1 -> Int] /\ Withdraws \in [1 .. 1 -> Int]
    BY <2>1, NumbersType
  <2>3. Deposits[1] = stack[1].total.deposit /\ Withdraws[1] = stack[1].total.withdraw
    BY <2>1 DEF Deposits, Withdraws
  <2>4. /\ stack[1].total.deposit = own.deposit + SumFunctionOnSet(DepositOf, used)
        /\ stack[1].total.withdraw = own.withdraw + SumFunctionOnSet(WithdrawOf, used)
    BY <2>1, <2>2, <2>3, SumOne DEF SumInv
  <2>5. /\ Total(used).deposit = SumFunctionOnSet(DepositOf, used)
        /\ Total(used).withdraw = SumFunctionOnSet(WithdrawOf, used)
    BY DEF Total, DepositOf, WithdrawOf
  <2>6. stack[1].total = Add(own, Total(used))
    BY <2>2, <2>4, <2>5 DEF Flow, Add
  <2>7. verdict = IF Abnormal(stack[1].total) THEN "attack" ELSE "normal"
    BY DEF SumInv
  <2> QED
    BY <2>1, <2>6, <2>7, Zenon DEF Expected
<1> QED
  BY <1>1, SumInit, SumStep, GroupInvariant, PTL DEF Spec
=============================================================================
