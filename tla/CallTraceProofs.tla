-------------------------- MODULE CallTraceProofs --------------------------
(***************************************************************************)
(* Proofs about CallTrace, for any number of calls and events and any      *)
(* limit on the depth.                                                     *)
(***************************************************************************)
EXTENDS CallTrace, SequenceTheorems, TLAPS

USE TraceAssumption

LEMMA CallRange == \A n : n \in Call <=> n \in Nat /\ 1 <= n /\ n <= MaxCalls
BY DEF Call

(* What SubSeq leaves of a sequence when it cuts it after n elements.      *)
LEMMA Prefix ==
  ASSUME NEW S, NEW s \in Seq(S), NEW n \in 0 .. Len(s)
  PROVE  /\ SubSeq(s, 1, n) \in Seq(S) /\ Len(SubSeq(s, 1, n)) = n
         /\ \A i \in 1 .. n : i \in 1 .. Len(s) /\ SubSeq(s, 1, n)[i] = s[i]
<1>1. Len(s) \in Nat /\ n \in Int /\ 1 \in Int
  OBVIOUS
<1>2. \A i \in 1 .. n : i \in 1 .. Len(s) /\ s[i] \in S
  BY <1>1, ElementOfSeq
<1>3. /\ SubSeq(s, 1, n) \in Seq(S)
      /\ Len(SubSeq(s, 1, n)) = IF 1 <= n THEN n - 1 + 1 ELSE 0
      /\ \A i \in 1 .. n - 1 + 1 : SubSeq(s, 1, n)[i] = s[1 + i - 1]
  BY <1>1, <1>2, SubSeqProperties
<1> QED
  BY <1>1, <1>2, <1>3

(* The frame that runs, and what is left of the stacks when it returns.    *)
LEMMA TopFrame ==
  ASSUME TypeOK, Running
  PROVE  /\ Len(frames) \in Nat /\ Len(frames) >= 1 /\ Top \in Frame
         /\ Top.tx \in Call /\ Top.events \in Seq(Event) /\ Top.snapshot \in 0 .. MaxEvents
<1>1. Len(frames) \in Nat /\ Len(frames) >= 1
  BY DEF TypeOK, Running
<1>2. Top \in Frame
  BY <1>1, ElementOfSeq DEF Top, TypeOK
<1> QED
  BY <1>1, <1>2 DEF Frame

LEMMA LeaveFrames ==
  ASSUME TypeOK, Running, Leave
  PROVE  /\ frames' \in Seq(Frame) /\ Len(frames') = Len(frames) - 1
         /\ \A i \in 1 .. Len(frames') : i \in 1 .. Len(frames) /\ frames'[i] = frames[i]
<1>1. Len(frames) - 1 \in 0 .. Len(frames) /\ frames \in Seq(Frame)
  BY TopFrame DEF TypeOK
<1> QED
  BY <1>1, Prefix DEF Leave

(* The parent that Pop appends to, and the InternalTx that it appends.     *)
LEMMA PopStack ==
  ASSUME TypeOK, TraceInv, Running, Pop
  PROVE  /\ CallStack' \in Seq(Call) /\ Len(CallStack') = Len(CallStack) - 1
         /\ \A i \in 1 .. Len(CallStack') : CallStack'[i] = CallStack[i]
         /\ CallStack[Len(CallStack)] = Top.tx
         /\ InTxs' = [InTxs EXCEPT ![caller[Top.tx]] = Append(@, Top.tx)]
         /\ caller[Top.tx] \in 0 .. MaxCalls
<1>1. /\ Len(frames) \in Nat /\ Len(frames) >= 1 /\ Len(CallStack) = Len(frames)
      /\ Top.tx \in Call
  BY TopFrame DEF TraceInv, StackIsCallChain
<1>2. CallStack[Len(CallStack)] = Top.tx
  BY <1>1 DEF TraceInv, StackIsCallChain, Top
<1>3. caller[Top.tx] = IF Len(CallStack) > 1 THEN CallStack[Len(CallStack) - 1] ELSE 0
  <2>1. caller[Top.tx] = IF Len(frames) = 1 THEN 0 ELSE frames[Len(frames) - 1].tx
    BY <1>1 DEF TraceInv, StackIsCallChain, Top
  <2>2. Len(frames) # 1 => CallStack[Len(CallStack) - 1] = frames[Len(frames) - 1].tx
    BY <1>1 DEF TraceInv, StackIsCallChain
  <2> QED
    BY <1>1, <2>1, <2>2
<1>4. caller[Top.tx] \in 0 .. MaxCalls
  BY <1>1 DEF TypeOK
<1>5. /\ CallStack' \in Seq(Call) /\ Len(CallStack') = Len(CallStack) - 1
      /\ \A i \in 1 .. Len(CallStack') : CallStack'[i] = CallStack[i]
  <2>1. Len(CallStack) - 1 \in 0 .. Len(CallStack) /\ CallStack \in Seq(Call)
    BY <1>1 DEF TypeOK
  <2> QED
    BY <2>1, Prefix DEF Pop
<1> QED
  BY <1>2, <1>3, <1>4, <1>5 DEF Pop

(* The types are preserved by a call, a log and a return.                  *)
LEMMA TypeStep ==
  ASSUME TypeOK, TraceInv, [Next]_vars
  PROVE  TypeOK'
<1>0. Len(logs) \in 0 .. MaxEvents
  BY DEF TypeOK, TraceInv, LogInv
<1>1. ASSUME NEW static \in BOOLEAN, Enter(static) PROVE TypeOK'
  <2> DEFINE f == NewFrame(static)
  <2>1. calls + 1 \in Call /\ calls' = calls + 1 /\ Current \in 0 .. MaxCalls
    <3>1. calls + 1 \in Call /\ calls' = calls + 1
      BY <1>1 DEF Enter, NewCall, TypeOK, Call
    <3>2. frames # <<>> => Top \in Frame
      BY ElementOfSeq DEF TypeOK, Top
    <3> QED
      BY <3>1, <3>2 DEF Current, Frame, Call
  <2>2. f \in Frame
    <3>1. (static /\ ~readOnly) \in BOOLEAN
      OBVIOUS
    <3> QED
      BY <1>0, <2>1, <3>1 DEF Frame, NewFrame
  <2>3. frames' \in Seq(Frame) /\ CallStack' \in Seq(Call)
    BY <1>1, <2>1, <2>2 DEF Enter, TypeOK
  <2> QED
    <3>1. caller' \in [Call -> 0 .. MaxCalls] /\ calls' \in 0 .. MaxCalls
      BY <1>1, <2>1, CallRange DEF Enter, NewCall, TypeOK
    <3>2. readOnly' \in BOOLEAN
      BY <1>1 DEF Enter
    <3> QED
      BY <1>1, <2>3, <3>1, <3>2 DEF Enter, NewCall, TypeOK
<1>2. CASE CallNoCode
  <2>1. calls + 1 \in Call /\ calls' = calls + 1 /\ Current \in 0 .. MaxCalls
    <3>1. calls + 1 \in Call /\ calls' = calls + 1
      BY <1>2 DEF CallNoCode, NewCall, TypeOK, Call
    <3>2. frames # <<>> => Top \in Frame
      BY ElementOfSeq DEF TypeOK, Top
    <3> QED
      BY <3>1, <3>2 DEF Current, Frame, Call
  <2>2. InTxs' \in [0 .. MaxCalls -> Seq(Call)]
    <3>1. CASE CallStack = <<>>
      BY <1>2, <3>1 DEF CallNoCode, TypeOK
    <3>2. CASE CallStack # <<>>
      <4> DEFINE p == CallStack[Len(CallStack)]
      <4>1. p \in Call
        BY <3>2, ElementOfSeq DEF TypeOK
      <4>2. p \in 0 .. MaxCalls
        BY <4>1 DEF Call
      <4>3. Append(InTxs[p], calls + 1) \in Seq(Call)
        BY <2>1, <4>2, AppendProperties DEF TypeOK
      <4>4. InTxs' = [InTxs EXCEPT ![p] = Append(InTxs[p], calls + 1)]
        BY <1>2, <3>2 DEF CallNoCode
      <4> HIDE DEF p
      <4> QED
        BY <4>2, <4>3, <4>4 DEF TypeOK
    <3> QED
      BY <3>1, <3>2
  <2>3. caller' \in [Call -> 0 .. MaxCalls] /\ calls' \in 0 .. MaxCalls
    BY <1>2, <2>1, CallRange DEF CallNoCode, NewCall, TypeOK
  <2>4. status' \in {"ready", "running", "ok", "error", "panic"}
    BY <1>2 DEF CallNoCode, TypeOK
  <2> QED
    BY <1>2, <2>2, <2>3, <2>4 DEF CallNoCode, NewCall, TypeOK
<1>3. CASE CallUntraced
  BY <1>3 DEF CallUntraced, TypeOK, trace, history
<1>4. CASE Log
  <2> DEFINE e == [id |-> emitted + 1, Index |-> Len(logs)]
             f == [Top EXCEPT !.events = Append(@, e)]
  <2>1. emitted + 1 \in 1 .. MaxEvents /\ e \in Event
    <3>1. emitted + 1 \in 1 .. MaxEvents /\ emitted + 1 \in 0 .. MaxEvents
      <4>1. emitted < MaxEvents
        BY <1>4 DEF Log
      <4>2. emitted \in 0 .. MaxEvents
        BY DEF TypeOK
      <4> QED
        BY <4>1, <4>2
    <3> QED
      BY <1>0, <3>1 DEF Event
  <2>2. Running
    BY <1>4 DEF Log, Running
  <2>3. f \in Frame
    <3>1. Top \in Frame /\ Append(Top.events, e) \in Seq(Event)
      BY <2>1, <2>2, TopFrame
    <3> HIDE DEF e
    <3> QED
      BY <3>1 DEF Frame
  <2>4. frames' = [frames EXCEPT ![Len(frames)] = f]
    BY <1>4 DEF Log
  <2>5. frames' \in Seq(Frame)
    <3> HIDE DEF f
    <3> QED
      <4>1. frames \in Seq(Frame) /\ Len(frames) \in 1 .. Len(frames)
        <5>1. Len(frames) \in Nat /\ Len(frames) >= 1
          BY <2>2, TopFrame
        <5> QED
          BY <5>1 DEF TypeOK
      <4>2. [frames EXCEPT ![Len(frames)] = f] \in Seq(Frame)
        BY <2>3, <4>1, ExceptSeq
      <4> QED
        BY <2>4, <4>2
  <2>6. author' \in [1 .. MaxEvents -> 0 .. MaxCalls]
    <3>1. Top.tx \in 0 .. MaxCalls /\ author' = [author EXCEPT ![emitted + 1] = Top.tx]
      BY <1>4, <2>2, TopFrame, CallRange DEF Log
    <3> QED
      BY <2>1, <3>1 DEF TypeOK
  <2>7. logs' \in Seq(1 .. MaxEvents) /\ emitted' \in 0 .. MaxEvents
    BY <1>4, <2>1 DEF Log, TypeOK
  <2> QED
    BY <1>4, <2>5, <2>6, <2>7 DEF Log, TypeOK, trace
<1>5. CASE Return \/ Fail \/ FailLog \/ FailEarly
  <2>1. Running /\ Pop /\ Leave
    BY <1>5 DEF Return, Fail, FailLog, FailEarly
  <2>2. frames' \in Seq(Frame) /\ CallStack' \in Seq(Call)
    BY <2>1, LeaveFrames, PopStack
  <2>3. InTxs' \in [0 .. MaxCalls -> Seq(Call)]
    <3>1. Top.tx \in Call /\ caller[Top.tx] \in 0 .. MaxCalls
          /\ InTxs' = [InTxs EXCEPT ![caller[Top.tx]] = Append(@, Top.tx)]
      BY <2>1, TopFrame, PopStack
    <3>2. Append(InTxs[caller[Top.tx]], Top.tx) \in Seq(Call)
      BY <3>1, AppendProperties DEF TypeOK
    <3> QED
      BY <3>1, <3>2 DEF TypeOK
  <2>4. Events' \in [Call -> Seq(Event)]
    <3>1. Top.tx \in Call /\ Top.events \in Seq(Event) /\ CallStack[Len(CallStack)] = Top.tx
      BY <2>1, TopFrame, PopStack
    <3>2. [id |-> 0, Index |-> 0] \in Event
      BY DEF Event
    <3>3. Append(Top.events, [id |-> 0, Index |-> 0]) \in Seq(Event)
      BY <3>1, <3>2, AppendProperties
    <3>4. \/ UNCHANGED Events
          \/ \E events \in Seq(Event) : Events' = [Events EXCEPT ![Top.tx] = events]
      BY <1>5, <3>1, <3>3 DEF Return, Fail, FailLog, FailEarly, SetEvents
    <3> QED
      BY <3>1, <3>4 DEF TypeOK
  <2>5. logs' \in Seq(1 .. MaxEvents) /\ failed' \subseteq Call
    <3>1. Top.snapshot \in 0 .. Len(logs)
      BY <2>1, TopFrame DEF TraceInv, FrameInv, Top
    <3>2. SubSeq(logs, 1, Top.snapshot) \in Seq(1 .. MaxEvents)
      BY <3>1, Prefix DEF TypeOK
    <3>3. Top.tx .. calls \subseteq Call
      <4>1. Top.tx \in Nat /\ Top.tx >= 1 /\ calls \in Nat /\ calls <= MaxCalls
        <5>1. Top.tx \in Call
          BY <2>1, TopFrame
        <5> QED
          BY <5>1, CallRange DEF TypeOK
      <4>2. ASSUME NEW n \in Top.tx .. calls PROVE n \in Call
        BY <4>1, <4>2, CallRange
      <4> QED
        BY <4>2
    <3> QED
      BY <1>5, <3>2, <3>3 DEF Return, Fail, FailLog, FailEarly, Revert, TypeOK
  <2> QED
    BY <2>1, <2>2, <2>3, <2>4, <2>5 DEF Leave, TypeOK
<1>6. CASE Finish
  BY <1>6 DEF Finish, TypeOK, trace, history
<1>7. CASE UNCHANGED vars
  BY <1>7 DEF vars, trace, history, TypeOK
<1> QED
  BY <1>1, <1>2, <1>3, <1>4, <1>5, <1>6, <1>7 DEF Next

(* The types of the numbers that the steps below compare.                  *)
LEMMA Counts ==
  ASSUME TypeOK
  PROVE  /\ Len(frames) \in Nat /\ Len(logs) \in Nat /\ Len(CallStack) \in Nat
         /\ calls \in Nat /\ emitted \in Nat /\ calls <= MaxCalls /\ emitted <= MaxEvents
BY DEF TypeOK

LEMMA FrameTypes ==
  ASSUME TypeOK, NEW i \in 1 .. Len(frames)
  PROVE  /\ frames[i] \in Frame /\ frames[i].tx \in Call /\ frames[i].tx \in Nat
         /\ frames[i].events \in Seq(Event) /\ Len(frames[i].events) \in Nat
         /\ frames[i].snapshot \in Nat
<1>1. frames[i] \in Frame
  BY ElementOfSeq DEF TypeOK
<1>2. /\ frames[i].tx \in Call /\ frames[i].events \in Seq(Event)
      /\ frames[i].snapshot \in 0 .. MaxEvents
  BY <1>1 DEF Frame
<1>3. Len(frames[i].events) \in Nat /\ frames[i].snapshot \in Nat
  BY <1>2
<1> QED
  BY <1>1, <1>2, <1>3, CallRange

LEMMA LogTypes ==
  ASSUME TypeOK, NEW l \in 1 .. Len(logs)
  PROVE  logs[l] \in 1 .. MaxEvents /\ author[logs[l]] \in Nat
<1>1. logs[l] \in 1 .. MaxEvents
  BY ElementOfSeq DEF TypeOK
<1>2. author \in [1 .. MaxEvents -> 0 .. MaxCalls]
  BY DEF TypeOK
<1> QED
  BY <1>1, <1>2

(* What NewCall adds to the history.                                       *)
LEMMA NewCallFacts ==
  ASSUME TypeOK, TraceInv, NewCall
  PROVE  /\ calls + 1 \in Call /\ calls' = calls + 1 /\ caller'[calls + 1] = Current
         /\ \A n \in Call : n # calls + 1 => caller'[n] = caller[n]
         /\ Current \in Nat
         /\ \A i \in 1 .. Len(frames) : frames[i].tx <= Current
<1>1. calls + 1 \in Call /\ calls' = calls + 1
  BY Counts, CallRange DEF NewCall
<1>2. /\ caller'[calls + 1] = Current
      /\ \A n \in Call : n # calls + 1 => caller'[n] = caller[n]
  BY <1>1 DEF NewCall, TypeOK
<1>3. Current \in Nat /\ \A i \in 1 .. Len(frames) : frames[i].tx <= Current
  <2>1. CASE frames = <<>>
    BY <2>1 DEF Current
  <2>2. CASE frames # <<>>
    <3>1. Len(frames) \in 1 .. Len(frames)
      BY <2>2 DEF TypeOK
    <3>2. Current = frames[Len(frames)].tx /\ Current \in Nat
      BY <2>2, <3>1, FrameTypes DEF Current, Top
    <3>3. \A i \in 1 .. Len(frames) : i < Len(frames) => frames[i].tx < frames[Len(frames)].tx
      BY <3>1 DEF TraceInv, FrameInv
    <3>4. ASSUME NEW i \in 1 .. Len(frames) PROVE frames[i].tx <= Current
      <4>1. frames[i].tx \in Nat /\ Len(frames) \in Nat
        BY FrameTypes, Counts
      <4> QED
        BY <4>1, <3>2, <3>3
    <3> QED
      BY <3>2, <3>4
  <2> QED
    BY <2>1, <2>2
<1> QED
  BY <1>1, <1>2, <1>3

(* A call that pushes its InternalTx.                                      *)
LEMMA EnterStep ==
  ASSUME TypeOK, TraceInv, NEW static \in BOOLEAN, Enter(static)
  PROVE  TraceInv'
<1> DEFINE N == Len(frames)
           f == NewFrame(static)
<1>1. /\ calls + 1 \in Call /\ calls' = calls + 1 /\ caller'[calls + 1] = Current
      /\ \A n \in Call : n # calls + 1 => caller'[n] = caller[n]
      /\ Current \in Nat
      /\ \A i \in 1 .. Len(frames) : frames[i].tx <= Current
  BY NewCallFacts DEF Enter
<1>2. /\ N \in Nat /\ Len(logs) \in Nat /\ calls \in Nat /\ Len(CallStack) = N
  BY Counts DEF TraceInv, StackIsCallChain
<1>3. /\ Len(frames') = N + 1 /\ frames'[N + 1] = f
      /\ \A i \in 1 .. N : frames'[i] = frames[i]
  BY DEF Enter, TypeOK
<1>4. /\ Len(CallStack') = N + 1 /\ CallStack'[N + 1] = calls + 1
      /\ \A i \in 1 .. N : CallStack'[i] = CallStack[i]
  <2>1. CallStack \in Seq(Call) /\ CallStack' = Append(CallStack, calls + 1)
    BY DEF Enter, TypeOK
  <2> QED
    BY <1>1, <1>2, <2>1, AppendProperties
<1>5. f.tx = calls + 1 /\ f.events = <<>> /\ f.snapshot = Len(logs)
  BY DEF NewFrame
<1>6. UNCHANGED <<Events, logs, emitted, author, failed>> /\ status' = "running"
  BY DEF Enter, NewCall
<1>7. \A i \in 1 .. N : /\ frames[i].tx \in Call /\ frames[i].tx \in Nat
                        /\ frames[i].tx <= calls /\ frames[i].snapshot \in Nat
                        /\ frames[i].snapshot <= Len(logs) /\ frames[i].tx \notin failed
                        /\ Events[frames[i].tx] = <<>>
  BY FrameTypes DEF TraceInv, FrameInv
<1>8. \A i \in 1 .. N + 1 : i \in 1 .. N \/ i = N + 1
  BY <1>2
<1> HIDE DEF f, N
<1>9. StackIsCallChain'
  <2>1. ASSUME NEW i \in 1 .. N
        PROVE  /\ CallStack'[i] = frames'[i].tx
               /\ caller'[frames'[i].tx] = IF i = 1 THEN 0 ELSE frames'[i - 1].tx
    <3>1. /\ CallStack[i] = frames[i].tx
          /\ caller[frames[i].tx] = IF i = 1 THEN 0 ELSE frames[i - 1].tx
      BY DEF TraceInv, StackIsCallChain, N
    <3>2. caller'[frames[i].tx] = caller[frames[i].tx]
      BY <1>1, <1>2, <1>7
    <3>3. i # 1 => i - 1 \in 1 .. N
      BY <1>2
    <3> QED
      BY <1>3, <1>4, <3>1, <3>2, <3>3
  <2>2. caller'[calls + 1] = IF N + 1 = 1 THEN 0 ELSE frames'[N].tx
    <3>1. Current = IF N = 0 THEN 0 ELSE frames[N].tx
      BY <1>2 DEF Current, Top, N, TypeOK
    <3> QED
      BY <1>1, <1>2, <1>3, <3>1
  <2>3. Len(CallStack') = Len(frames')
    BY <1>3, <1>4
  <2>4. ASSUME NEW i \in 1 .. Len(frames')
        PROVE  /\ CallStack'[i] = frames'[i].tx
               /\ caller'[frames'[i].tx] = IF i = 1 THEN 0 ELSE frames'[i - 1].tx
    <3>1. CASE i = N + 1
      BY <1>2, <1>3, <1>4, <1>5, <2>2, <3>1
    <3> QED
      BY <1>3, <1>8, <2>1, <3>1
  <2> QED
    BY <2>3, <2>4 DEF StackIsCallChain
<1>10. FrameInv'
  <2> SUFFICES ASSUME NEW i \in 1 .. N + 1
               PROVE /\ frames'[i].tx <= calls + 1 /\ frames'[i].tx \notin failed
                     /\ frames'[i].snapshot <= Len(logs)
                     /\ Events[frames'[i].tx] = <<>>
                     /\ \A j \in 1 .. N + 1 : i < j =>
                           /\ frames'[i].tx < frames'[j].tx
                           /\ frames'[i].snapshot <= frames'[j].snapshot
                     /\ \A n \in 1 .. calls + 1 :
                           n > frames'[i].tx => caller'[n] >= frames'[i].tx
                     /\ \A l \in 1 .. Len(logs) :
                           l > frames'[i].snapshot <=> author[logs[l]] >= frames'[i].tx
    BY <1>1, <1>3, <1>6 DEF FrameInv
  <2>1. CASE i \in 1 .. N
    <3>1. /\ frames'[i].tx <= calls + 1 /\ frames'[i].tx \notin failed
          /\ frames'[i].snapshot <= Len(logs) /\ Events[frames'[i].tx] = <<>>
      BY <1>2, <1>3, <1>7, <2>1
    <3>2. ASSUME NEW j \in 1 .. N + 1, i < j
          PROVE  frames'[i].tx < frames'[j].tx /\ frames'[i].snapshot <= frames'[j].snapshot
      <4>1. CASE j = N + 1
        <5>1. frames'[i] = frames[i] /\ frames'[j].tx = calls + 1 /\ frames'[j].snapshot = Len(logs)
          BY <1>3, <1>5, <2>1, <4>1
        <5>2. frames[i].tx \in Nat /\ frames[i].tx <= calls /\ frames[i].snapshot <= Len(logs)
          BY <1>7, <2>1
        <5> QED
          BY <1>2, <5>1, <5>2
      <4>2. CASE j \in 1 .. N
        BY <1>3, <2>1, <3>2, <4>2 DEF TraceInv, FrameInv, N
      <4> QED
        BY <1>8, <4>1, <4>2
    <3>3. ASSUME NEW n \in 1 .. calls + 1, n > frames'[i].tx
          PROVE  caller'[n] >= frames'[i].tx
      <4>1. CASE n = calls + 1
        <5>1. frames[i].tx <= Current /\ frames[i].tx \in Nat /\ Current \in Nat
          BY <1>1, <1>7, <2>1 DEF N
        <5> QED
          BY <1>1, <1>3, <2>1, <4>1, <5>1
      <4>2. CASE n # calls + 1
        <5>1. n \in 1 .. calls /\ n \in Call
          BY <1>1, <1>2, <4>2, CallRange
        <5>2. caller'[n] = caller[n] /\ n > frames[i].tx
          BY <1>1, <1>3, <2>1, <3>3, <4>2, <5>1
        <5>3. caller[n] >= frames[i].tx
          BY <2>1, <5>1, <5>2 DEF TraceInv, FrameInv, N
        <5> QED
          BY <1>3, <2>1, <5>2, <5>3
      <4> QED
        BY <4>1, <4>2
    <3>4. \A l \in 1 .. Len(logs) :
             l > frames'[i].snapshot <=> author[logs[l]] >= frames'[i].tx
      BY <1>3, <2>1 DEF TraceInv, FrameInv, N
    <3> QED
      BY <3>1, <3>2, <3>3, <3>4
  <2>2. CASE i = N + 1
    <3>1. frames'[i].tx = calls + 1 /\ frames'[i].snapshot = Len(logs)
      BY <1>3, <1>5, <2>2
    <3>2. Events[calls + 1] = <<>> /\ calls + 1 \notin failed
      BY <1>1, <1>2 DEF TraceInv, EventInv
    <3>3. \A l \in 1 .. Len(logs) : author[logs[l]] \in Nat /\ author[logs[l]] <= calls
      BY <1>2 DEF TraceInv, LogInv
    <3> QED
      BY <1>2, <2>2, <3>1, <3>2, <3>3
  <2> QED
    BY <1>8, <2>1, <2>2
<1>11. LocalEvents'
  <2> SUFFICES ASSUME NEW i \in 1 .. N + 1
               PROVE /\ \A k \in 1 .. Len(frames'[i].events) :
                           /\ IsLog(frames'[i].events[k])
                           /\ author[frames'[i].events[k].id] = frames'[i].tx
                     /\ \A l \in 1 .. Len(logs) :
                           author[logs[l]] = frames'[i].tx => Traced(frames'[i].events, l)
    BY <1>3, <1>6 DEF LocalEvents, IsLog, Traced
  <2>1. CASE i \in 1 .. N
    BY <1>3, <2>1 DEF TraceInv, LocalEvents, N
  <2>2. CASE i = N + 1
    <3>1. frames'[i].tx = calls + 1 /\ Len(frames'[i].events) = 0
      BY <1>3, <1>5, <2>2
    <3>2. \A l \in 1 .. Len(logs) : author[logs[l]] # calls + 1
      BY <1>2 DEF TraceInv, LogInv
    <3> QED
      BY <3>1, <3>2
  <2> QED
    BY <1>8, <2>1, <2>2
<1>12. LogInv'
  <2>1. Active \subseteq Active'
    <3>1. \A i \in 1 .. N : i \in 1 .. N + 1
      BY <1>2
    <3> QED
      BY <1>3, <3>1 DEF Active, N
  <2>2. \A l \in 1 .. Len(logs) : author[logs[l]] \in 1 .. calls => author[logs[l]] \in 1 .. calls + 1
    BY <1>2
  <2> QED
    BY <1>1, <1>6, <2>1, <2>2 DEF TraceInv, LogInv, Traced
<1>13. EventInv'
  <2>1. \A n \in Call : n > calls + 1 => n > calls
    BY <1>2, CallRange
  <2> QED
    BY <1>1, <1>6, <2>1 DEF TraceInv, EventInv, IsLog
<1> QED
  BY <1>6, <1>9, <1>10, <1>11, <1>12, <1>13 DEF TraceInv

(* A call of an account without code.                                      *)
LEMMA NoCodeStep ==
  ASSUME TypeOK, TraceInv, CallNoCode
  PROVE  TraceInv'
<1>1. /\ calls + 1 \in Call /\ calls' = calls + 1 /\ caller'[calls + 1] = Current
      /\ \A n \in Call : n # calls + 1 => caller'[n] = caller[n]
      /\ Current \in Nat
      /\ \A i \in 1 .. Len(frames) : frames[i].tx <= Current
  BY NewCallFacts DEF CallNoCode
<1>2. Len(frames) \in Nat /\ calls \in Nat /\ Len(CallStack) = Len(frames)
  BY Counts DEF TraceInv, StackIsCallChain
<1>3. UNCHANGED <<CallStack, Events, logs, frames, emitted, author, failed>>
  BY DEF CallNoCode, NewCall
<1>4. ASSUME NEW i \in 1 .. Len(frames)
      PROVE  /\ frames[i].tx \in Call /\ frames[i].tx \in Nat /\ frames[i].tx <= calls
             /\ caller'[frames[i].tx] = caller[frames[i].tx]
  <2>1. frames[i].tx \in Call /\ frames[i].tx \in Nat /\ frames[i].tx <= calls
    BY FrameTypes DEF TraceInv, FrameInv
  <2> QED
    BY <1>1, <1>2, <2>1
<1>5. StackIsCallChain'
  BY <1>3, <1>4 DEF TraceInv, StackIsCallChain
<1>6. FrameInv'
  <2>1. ASSUME NEW i \in 1 .. Len(frames), NEW n \in 1 .. calls + 1, n > frames[i].tx
        PROVE  caller'[n] >= frames[i].tx
    <3>1. CASE n = calls + 1
      BY <1>1, <1>4, <3>1
    <3>2. CASE n # calls + 1
      <4>1. n \in 1 .. calls /\ n \in Call
        BY <1>1, <1>2, <3>2, CallRange
      <4>2. caller[n] >= frames[i].tx
        BY <2>1, <4>1 DEF TraceInv, FrameInv
      <4> QED
        BY <1>1, <3>2, <4>1, <4>2
    <3> QED
      BY <3>1, <3>2
  <2>2. \A i \in 1 .. Len(frames) : frames[i].tx <= calls + 1
    BY <1>2, <1>4
  <2> QED
    BY <1>1, <1>3, <2>1, <2>2 DEF TraceInv, FrameInv
<1>7. LocalEvents'
  <2>1. LocalEvents
    BY DEF TraceInv
  <2> QED
    BY <1>3, <2>1 DEF LocalEvents, IsLog, Traced
<1>8. LogInv'
  <2>1. \A l \in 1 .. Len(logs) : author[logs[l]] \in 1 .. calls => author[logs[l]] \in 1 .. calls + 1
    BY <1>2
  <2> QED
    BY <1>1, <1>3, <2>1 DEF TraceInv, LogInv, Traced, Active
<1>9. EventInv'
  <2>1. \A n \in Call : n > calls + 1 => n > calls
    BY <1>2, CallRange
  <2> QED
    BY <1>1, <1>3, <2>1 DEF TraceInv, EventInv, IsLog
<1>10. status' # "running" => frames' = <<>>
  <2>1. CASE CallStack = <<>>
    BY <1>2, <1>3, <2>1 DEF TypeOK
  <2>2. CASE CallStack # <<>>
    BY <2>2 DEF CallNoCode
  <2> QED
    BY <2>1, <2>2
<1> QED
  BY <1>5, <1>6, <1>7, <1>8, <1>9, <1>10 DEF TraceInv

(* A LOG instruction.                                                      *)
LEMMA LogStep ==
  ASSUME TypeOK, TraceInv, Log
  PROVE  TraceInv'
<1> DEFINE N == Len(frames)
           L == Len(logs)
           e == [id |-> emitted + 1, Index |-> L]
<1>1. /\ N \in Nat /\ N >= 1 /\ N \in 1 .. N /\ Top = frames[N]
      /\ Top \in Frame /\ Top.tx \in Call /\ Top.events \in Seq(Event)
  <2>1. Running
    BY DEF Log, Running
  <2>2. /\ N \in Nat /\ N >= 1 /\ Top \in Frame /\ Top.tx \in Call /\ Top.events \in Seq(Event)
    BY <2>1, TopFrame
  <2> QED
    BY <2>2 DEF Top
<1>2. /\ L \in Nat /\ calls \in Nat /\ emitted \in Nat /\ emitted + 1 \in 1 .. MaxEvents
      /\ L <= emitted
  BY Counts DEF Log, TraceInv, LogInv
<1>3. e.id = emitted + 1 /\ e.Index = L /\ e \in Event
  BY <1>2 DEF Event
<1>4. /\ Len(frames') = N
      /\ \A i \in 1 .. N : /\ frames'[i].tx = frames[i].tx
                           /\ frames'[i].snapshot = frames[i].snapshot
                           /\ i # N => frames'[i] = frames[i]
      /\ frames'[N].events = Append(Top.events, e)
  <2> DEFINE g == [Top EXCEPT !.events = Append(@, e)]
  <2>1. frames' = [frames EXCEPT ![N] = g] /\ frames \in Seq(Frame)
    BY DEF Log, TypeOK
  <2>2. g.tx = Top.tx /\ g.snapshot = Top.snapshot /\ g.events = Append(Top.events, e)
    BY <1>1 DEF Frame
  <2> HIDE DEF g
  <2>3. Len(frames') = N /\ frames'[N] = g /\ \A i \in 1 .. N : i # N => frames'[i] = frames[i]
    BY <1>1, <2>1
  <2> QED
    BY <1>1, <2>2, <2>3
<1>5. /\ Len(logs') = L + 1 /\ logs'[L + 1] = emitted + 1
      /\ \A l \in 1 .. L : logs'[l] = logs[l]
  <2>1. logs \in Seq(1 .. MaxEvents) /\ logs' = Append(logs, emitted + 1)
    BY DEF Log, TypeOK
  <2> QED
    BY <1>2, <2>1, AppendProperties
<1>6. /\ author'[emitted + 1] = Top.tx
      /\ \A n \in 1 .. MaxEvents : n # emitted + 1 => author'[n] = author[n]
  BY <1>2 DEF Log, TypeOK
<1>7. UNCHANGED <<CallStack, Events, calls, caller, failed, status>> /\ emitted' = emitted + 1
  BY DEF Log, trace
<1>8. ASSUME NEW l \in 1 .. L
      PROVE  /\ l \in 1 .. L + 1 /\ logs'[l] = logs[l] /\ author'[logs[l]] = author[logs[l]]
             /\ author[logs[l]] \in Nat /\ logs[l] <= emitted /\ logs[l] \in 1 .. MaxEvents
  <2>1. logs[l] \in 1 .. MaxEvents /\ author[logs[l]] \in Nat /\ logs[l] <= emitted
    BY LogTypes DEF TraceInv, LogInv
  <2> QED
    BY <1>2, <1>5, <1>6, <2>1
<1>9. \A l \in 1 .. L + 1 : l \in 1 .. L \/ l = L + 1
  BY <1>2
<1> DEFINE IsLogN(d) == d.Index + 1 \in 1 .. Len(logs') /\ logs'[d.Index + 1] = d.id
           TracedN(es, l) == \E k \in 1 .. Len(es) : es[k] = [id |-> logs'[l], Index |-> l - 1]
<1>10. ASSUME NEW d, IsLog(d)
       PROVE  IsLogN(d) /\ author'[d.id] = author[d.id]
  <2>1. d.Index + 1 \in 1 .. L /\ logs[d.Index + 1] = d.id
    BY <1>10 DEF IsLog
  <2> QED
    BY <1>5, <1>8, <2>1
<1>11. ASSUME NEW es, NEW l \in 1 .. L, Traced(es, l)
       PROVE  TracedN(es, l)
  BY <1>8, <1>11 DEF Traced
<1>12. \A i \in 1 .. N : /\ frames[i].tx \in Nat /\ frames[i].tx <= Top.tx
                         /\ frames[i].snapshot \in Nat /\ frames[i].snapshot <= L
                         /\ frames[i].events \in Seq(Event) /\ frames[i].tx <= calls
                         /\ (i # N => frames[i].tx # Top.tx)
  <2> SUFFICES ASSUME NEW i \in 1 .. N
               PROVE  /\ frames[i].tx \in Nat /\ frames[i].tx <= Top.tx
                      /\ frames[i].snapshot \in Nat /\ frames[i].snapshot <= L
                      /\ frames[i].events \in Seq(Event) /\ frames[i].tx <= calls
                      /\ (i # N => frames[i].tx # Top.tx)
    OBVIOUS
  <2>1. /\ frames[i].tx \in Nat /\ frames[i].snapshot \in Nat /\ frames[i].events \in Seq(Event)
        /\ Top.tx \in Nat
    BY <1>1, FrameTypes
  <2>2. /\ frames[i].snapshot <= L /\ frames[i].tx <= calls
        /\ i < N => frames[i].tx < Top.tx
    BY <1>1 DEF TraceInv, FrameInv
  <2> QED
    BY <1>1, <2>1, <2>2
<1> HIDE DEF N, L, e
<1>13. StackIsCallChain'
  <2>1. \A i \in 1 .. N : i # 1 => i - 1 \in 1 .. N
    BY <1>1
  <2> QED
    BY <1>4, <1>7, <2>1 DEF TraceInv, StackIsCallChain, N
<1>14. FrameInv'
  <2> SUFFICES ASSUME NEW i \in 1 .. N
               PROVE /\ frames[i].tx <= calls /\ frames[i].tx \notin failed
                     /\ frames[i].snapshot <= L + 1
                     /\ Events[frames[i].tx] = <<>>
                     /\ \A j \in 1 .. N : i < j =>
                           /\ frames[i].tx < frames[j].tx
                           /\ frames[i].snapshot <= frames[j].snapshot
                     /\ \A n \in 1 .. calls : n > frames[i].tx => caller[n] >= frames[i].tx
                     /\ \A l \in 1 .. L + 1 :
                           l > frames[i].snapshot <=> author'[logs'[l]] >= frames[i].tx
    BY <1>4, <1>5, <1>7 DEF FrameInv
  <2>1. /\ frames[i].tx <= calls /\ frames[i].tx \notin failed
        /\ frames[i].snapshot <= L
        /\ Events[frames[i].tx] = <<>>
        /\ \A j \in 1 .. N : i < j =>
              /\ frames[i].tx < frames[j].tx
              /\ frames[i].snapshot <= frames[j].snapshot
        /\ \A n \in 1 .. calls : n > frames[i].tx => caller[n] >= frames[i].tx
        /\ \A l \in 1 .. L : l > frames[i].snapshot <=> author[logs[l]] >= frames[i].tx
    BY DEF TraceInv, FrameInv, N, L
  <2>2. frames[i].snapshot <= L + 1
    BY <1>2, <1>12
  <2>3. ASSUME NEW l \in 1 .. L + 1
        PROVE  l > frames[i].snapshot <=> author'[logs'[l]] >= frames[i].tx
    <3>1. CASE l \in 1 .. L
      BY <1>8, <2>1, <3>1
    <3>2. CASE l = L + 1
      <4>1. author'[logs'[l]] = Top.tx /\ frames[i].tx <= Top.tx /\ frames[i].tx \in Nat
        BY <1>5, <1>6, <1>12, <3>2
      <4>2. Top.tx \in Nat
        BY <1>1, CallRange
      <4>3. l > frames[i].snapshot
        BY <1>2, <1>12, <3>2
      <4> QED
        BY <4>1, <4>2, <4>3
    <3> QED
      BY <1>9, <3>1, <3>2
  <2> QED
    BY <2>1, <2>2, <2>3
<1>15. IsLogN(e)
  BY <1>2, <1>3, <1>5
<1>16. LocalEvents'
  <2> SUFFICES ASSUME NEW i \in 1 .. Len(frames')
               PROVE /\ \A k \in 1 .. Len(frames'[i].events) :
                           /\ IsLogN(frames'[i].events[k])
                           /\ author'[frames'[i].events[k].id] = frames'[i].tx
                     /\ \A l \in 1 .. Len(logs') :
                           author'[logs'[l]] = frames'[i].tx => TracedN(frames'[i].events, l)
    BY Zenon DEF LocalEvents, IsLog, Traced
  <2> HIDE DEF IsLogN, TracedN
  <2> SUFFICES ASSUME i \in 1 .. N
               PROVE /\ \A k \in 1 .. Len(frames'[i].events) :
                           /\ IsLogN(frames'[i].events[k])
                           /\ author'[frames'[i].events[k].id] = frames[i].tx
                     /\ \A l \in 1 .. L + 1 :
                           author'[logs'[l]] = frames[i].tx => TracedN(frames'[i].events, l)
    BY <1>4, <1>5
  <2>1. ASSUME NEW k \in 1 .. Len(frames[i].events)
        PROVE  /\ IsLogN(frames[i].events[k])
               /\ author'[frames[i].events[k].id] = frames[i].tx
    <3>1. IsLog(frames[i].events[k]) /\ author[frames[i].events[k].id] = frames[i].tx
      BY DEF TraceInv, LocalEvents, N
    <3> QED
      BY <1>10, <3>1
  <2>2. ASSUME NEW l \in 1 .. L, author'[logs'[l]] = frames[i].tx
        PROVE  TracedN(frames[i].events, l)
    <3>1. Traced(frames[i].events, l)
      BY <1>8, <2>2 DEF TraceInv, LocalEvents, N, L
    <3> QED
      BY <1>11, <3>1
  <2>3. CASE i # N
    <3>1. frames'[i] = frames[i] /\ author'[logs'[L + 1]] # frames[i].tx
      BY <1>4, <1>5, <1>6, <1>12, <2>3
    <3> QED
      BY <1>9, <2>1, <2>2, <3>1
  <2>4. CASE i = N
    <3> DEFINE es == Append(Top.events, e)
    <3>1. /\ Len(es) = Len(Top.events) + 1 /\ es[Len(Top.events) + 1] = e
          /\ \A k \in 1 .. Len(Top.events) : es[k] = Top.events[k]
          /\ Len(Top.events) \in Nat
      BY <1>1, <1>3, AppendProperties
    <3>2. frames'[i].events = es /\ frames[i] = Top
      BY <1>1, <1>4, <2>4
    <3> HIDE DEF es
    <3>3. ASSUME NEW k \in 1 .. Len(es)
          PROVE  IsLogN(es[k]) /\ author'[es[k].id] = frames[i].tx
      <4>1. CASE k = Len(Top.events) + 1
        BY <1>3, <1>6, <1>15, <3>1, <3>2, <4>1
      <4>2. CASE k \in 1 .. Len(Top.events)
        BY <2>1, <3>1, <3>2, <4>2
      <4> QED
        BY <3>1, <4>1, <4>2
    <3>4. ASSUME NEW l \in 1 .. L, TracedN(Top.events, l)
          PROVE  TracedN(es, l)
      <4>1. \A k \in 1 .. Len(Top.events) : k \in 1 .. Len(es)
        BY <3>1
      <4> QED
        BY <3>1, <3>4, <4>1 DEF TracedN
    <3>5. ASSUME NEW l, l = L + 1 PROVE TracedN(es, l)
      <4>1. Len(Top.events) + 1 \in 1 .. Len(es)
        BY <3>1
      <4>2. es[Len(Top.events) + 1] = [id |-> logs'[l], Index |-> l - 1]
        <5>1. logs'[l] = emitted + 1 /\ l - 1 = L
          BY <1>2, <1>5, <3>5
        <5> QED
          BY <3>1, <5>1 DEF e
      <4> QED
        BY <4>1, <4>2 DEF TracedN
    <3> QED
      BY <1>9, <2>2, <3>2, <3>3, <3>4, <3>5
  <2> QED
    BY <2>3, <2>4
<1>17. LogInv'
  <2>1. Active' = Active
    BY <1>4 DEF Active, N
  <2>2. Top.tx \in Active /\ Top.tx \in 1 .. calls
    <3>1. Top.tx \in Nat /\ 1 <= Top.tx /\ Top.tx <= calls
      BY <1>1, <1>12, CallRange
    <3> QED
      BY <1>1, <1>2, <3>1 DEF Active, N
  <2>3. L + 1 <= emitted + 1
    BY <1>2
  <2> SUFFICES ASSUME NEW l \in 1 .. L + 1
               PROVE  /\ logs'[l] <= emitted + 1 /\ author'[logs'[l]] \in 1 .. calls
                      /\ \/ author'[logs'[l]] \in Active
                         \/ TracedN(Events[author'[logs'[l]]], l)
    BY <1>5, <1>7, <2>1, <2>3 DEF LogInv, Traced
  <2> HIDE DEF TracedN
  <2>4. CASE l \in 1 .. L
    <3>1. /\ author[logs[l]] \in 1 .. calls
          /\ author[logs[l]] \in Active \/ Traced(Events[author[logs[l]]], l)
      BY <2>4 DEF TraceInv, LogInv, L
    <3>2. author'[logs'[l]] = author[logs[l]] /\ logs'[l] <= emitted + 1
      BY <1>2, <1>8, <2>4
    <3> QED
      BY <1>11, <2>4, <3>1, <3>2
  <2>5. CASE l = L + 1
    BY <1>2, <1>5, <1>6, <2>2, <2>5
  <2> QED
    BY <1>9, <2>4, <2>5
<1>18. EventInv'
  <2> SUFFICES ASSUME NEW n \in Call
               PROVE  /\ n > calls => Events[n] = <<>> /\ n \notin failed
                      /\ n \notin failed => \A i \in 1 .. Len(Events[n]) :
                            IsLogN(Events[n][i]) /\ author'[Events[n][i].id] = n
    BY <1>7 DEF EventInv, IsLog
  <2> HIDE DEF IsLogN
  <2> QED
    BY <1>10 DEF TraceInv, EventInv
<1> QED
  BY <1>7, <1>13, <1>14, <1>16, <1>17, <1>18 DEF TraceInv, Log

(* What a frame leaves behind: the frames below it, of earlier calls and   *)
(* earlier snapshots.                                                      *)
LEMMA LeaveFacts ==
  ASSUME TypeOK, TraceInv, Running, Leave
  PROVE  /\ Len(frames) \in Nat /\ Len(frames') = Len(frames) - 1
         /\ Top.tx \in Call /\ Top.tx \in Nat /\ Top.tx <= calls /\ Top.tx \notin failed
         /\ Top.snapshot \in Nat /\ Top.snapshot <= Len(logs) /\ Events[Top.tx] = <<>>
         /\ \A l \in 1 .. Len(logs) : l > Top.snapshot <=> author[logs[l]] >= Top.tx
         /\ \A i \in 1 .. Len(frames') :
               /\ i \in 1 .. Len(frames) /\ frames'[i] = frames[i]
               /\ frames[i].tx \in Call /\ frames[i].tx \in Nat /\ frames[i].tx < Top.tx
               /\ frames[i].snapshot \in Nat /\ frames[i].snapshot <= Top.snapshot
         /\ \A n \in Active : n \in Active' \/ n = Top.tx
<1>1. /\ Len(frames) \in Nat /\ Len(frames) \in 1 .. Len(frames) /\ Top = frames[Len(frames)]
      /\ Top.tx \in Call /\ Top.tx \in Nat /\ Top.snapshot \in Nat
  <2>1. Len(frames) \in Nat /\ Len(frames) >= 1
    BY TopFrame
  <2>2. Len(frames) \in 1 .. Len(frames)
    BY <2>1
  <2> QED
    BY <2>1, <2>2, FrameTypes DEF Top
<1>2. /\ Top.tx <= calls /\ Top.tx \notin failed
      /\ Top.snapshot <= Len(logs) /\ Events[Top.tx] = <<>>
      /\ \A l \in 1 .. Len(logs) : l > Top.snapshot <=> author[logs[l]] >= Top.tx
  BY <1>1 DEF TraceInv, FrameInv
<1>3. /\ Len(frames') = Len(frames) - 1
      /\ \A i \in 1 .. Len(frames') : i \in 1 .. Len(frames) /\ frames'[i] = frames[i]
  BY LeaveFrames
<1>4. ASSUME NEW i \in 1 .. Len(frames')
      PROVE  /\ frames[i].tx \in Call /\ frames[i].tx \in Nat /\ frames[i].tx < Top.tx
             /\ frames[i].snapshot \in Nat /\ frames[i].snapshot <= Top.snapshot
  <2>1. i \in 1 .. Len(frames) /\ i < Len(frames)
    BY <1>1, <1>3
  <2>2. frames[i].tx < Top.tx /\ frames[i].snapshot <= Top.snapshot
    BY <1>1, <2>1 DEF TraceInv, FrameInv
  <2> QED
    BY <2>1, <2>2, FrameTypes
<1>5. ASSUME NEW n \in Active PROVE n \in Active' \/ n = Top.tx
  <2>1. PICK i \in 1 .. Len(frames) : n = frames[i].tx
    BY DEF Active
  <2>2. i = Len(frames) \/ i \in 1 .. Len(frames')
    BY <1>1, <1>3
  <2> QED
    BY <1>1, <1>3, <2>1, <2>2 DEF Active
<1> QED
  BY <1>1, <1>2, <1>3, <1>4, <1>5

LEMMA LeaveChain ==
  ASSUME TypeOK, TraceInv, Running, Pop, Leave
  PROVE  StackIsCallChain'
<1>1. /\ Len(frames) \in Nat /\ Len(frames') = Len(frames) - 1
      /\ \A i \in 1 .. Len(frames') : i \in 1 .. Len(frames) /\ frames'[i] = frames[i]
  BY LeaveFacts
<1>2. /\ Len(CallStack') = Len(CallStack) - 1
      /\ \A i \in 1 .. Len(CallStack') : CallStack'[i] = CallStack[i]
  BY PopStack
<1>3. Len(CallStack') = Len(frames')
  BY <1>1, <1>2 DEF TraceInv, StackIsCallChain
<1>4. ASSUME NEW i \in 1 .. Len(frames')
      PROVE  /\ CallStack'[i] = frames'[i].tx
             /\ caller[frames'[i].tx] = IF i = 1 THEN 0 ELSE frames'[i - 1].tx
  <2>1. i # 1 => i - 1 \in 1 .. Len(frames')
    BY <1>1
  <2>2. /\ CallStack[i] = frames[i].tx
        /\ caller[frames[i].tx] = IF i = 1 THEN 0 ELSE frames[i - 1].tx
    BY <1>1 DEF TraceInv, StackIsCallChain
  <2> QED
    BY <1>1, <1>2, <1>3, <2>1, <2>2
<1> QED
  BY <1>3, <1>4 DEF StackIsCallChain, Leave

(* STOP, RETURN, SELFDESTRUCT.                                             *)
LEMMA ReturnStep ==
  ASSUME TypeOK, TraceInv, Return
  PROVE  TraceInv'
<1>1. Running /\ SetEvents(Top.events) /\ Pop /\ Leave
  BY DEF Return
<1>2. UNCHANGED <<logs, failed, status, calls, emitted, caller, author>> /\ status = "running"
  BY DEF Return, Leave, Running
<1>3. /\ Len(frames) \in Nat /\ Len(frames') = Len(frames) - 1
      /\ Top.tx \in Call /\ Top.tx \in Nat /\ Top.tx <= calls /\ Events[Top.tx] = <<>>
      /\ \A i \in 1 .. Len(frames') :
            /\ i \in 1 .. Len(frames) /\ frames'[i] = frames[i]
            /\ frames[i].tx \in Call /\ frames[i].tx \in Nat /\ frames[i].tx < Top.tx
      /\ \A n \in Active : n \in Active' \/ n = Top.tx
  BY <1>1, LeaveFacts
<1>4. /\ Events'[Top.tx] = Top.events
      /\ \A n \in Call : n # Top.tx => Events'[n] = Events[n]
  <2>1. Events' = [Events EXCEPT ![Top.tx] = Top.events]
    BY <1>1, PopStack DEF SetEvents
  <2> QED
    BY <1>3, <2>1 DEF TypeOK
<1>5. FrameInv'
  <2>1. ASSUME NEW i \in 1 .. Len(frames') PROVE Events'[frames[i].tx] = Events[frames[i].tx]
    <3>1. frames[i].tx \in Call /\ frames[i].tx # Top.tx
      BY <1>3
    <3> QED
      BY <1>4, <3>1
  <2> QED
    BY <1>2, <1>3, <2>1 DEF TraceInv, FrameInv
<1>6. LocalEvents'
  <2> SUFFICES ASSUME NEW i \in 1 .. Len(frames')
               PROVE /\ \A k \in 1 .. Len(frames'[i].events) :
                           /\ IsLog(frames'[i].events[k])
                           /\ author[frames'[i].events[k].id] = frames'[i].tx
                     /\ \A l \in 1 .. Len(logs) :
                           author[logs[l]] = frames'[i].tx => Traced(frames'[i].events, l)
    BY <1>2 DEF LocalEvents, IsLog, Traced
  <2>1. i \in 1 .. Len(frames) /\ frames'[i] = frames[i]
    BY <1>3
  <2> QED
    BY <2>1 DEF TraceInv, LocalEvents
<1>7. /\ \A k \in 1 .. Len(Top.events) : IsLog(Top.events[k]) /\ author[Top.events[k].id] = Top.tx
      /\ \A l \in 1 .. Len(logs) : author[logs[l]] = Top.tx => Traced(Top.events, l)
  <2>1. Len(frames) \in 1 .. Len(frames)
    BY <1>1, TopFrame
  <2> QED
    BY <2>1 DEF TraceInv, LocalEvents, Top
<1>8. LogInv'
  <2> SUFFICES ASSUME NEW l \in 1 .. Len(logs)
               PROVE  /\ author[logs[l]] \in Active'
                      \/ \E k \in 1 .. Len(Events'[author[logs[l]]]) :
                            Events'[author[logs[l]]][k] = [id |-> logs[l], Index |-> l - 1]
    BY <1>2 DEF TraceInv, LogInv, Traced
  <2>1. /\ author[logs[l]] \in 1 .. calls
        /\ author[logs[l]] \in Active \/ Traced(Events[author[logs[l]]], l)
    BY DEF TraceInv, LogInv
  <2>2. author[logs[l]] \in Call
    BY <2>1, Counts, CallRange
  <2>3. CASE author[logs[l]] = Top.tx
    <3>1. Traced(Top.events, l)
      BY <1>7, <2>3
    <3>2. Events'[author[logs[l]]] = Top.events
      BY <1>4, <2>3
    <3> QED
      BY <3>1, <3>2 DEF Traced
  <2>4. CASE author[logs[l]] # Top.tx
    BY <1>3, <1>4, <2>1, <2>2, <2>4 DEF Traced
  <2> QED
    BY <2>3, <2>4
<1>9. EventInv'
  <2> SUFFICES ASSUME NEW n \in Call
               PROVE  /\ n > calls => Events'[n] = <<>> /\ n \notin failed
                      /\ n \notin failed => \A i \in 1 .. Len(Events'[n]) :
                            IsLog(Events'[n][i]) /\ author[Events'[n][i].id] = n
    BY <1>2 DEF EventInv, IsLog
  <2>1. CASE n = Top.tx
    <3>1. ~ (n > calls)
      BY <1>3, <2>1, Counts
    <3> QED
      BY <1>4, <1>7, <2>1, <3>1
  <2>2. CASE n # Top.tx
    BY <1>4, <2>2 DEF TraceInv, EventInv
  <2> QED
    BY <2>1, <2>2
<1> QED
  BY <1>1, <1>2, <1>5, <1>6, <1>8, <1>9, LeaveChain DEF TraceInv

(* A failure: the logs of the frame and of the calls under it go, those of *)
(* the frames below stay where they are.                                   *)
LEMMA FailStep ==
  ASSUME TypeOK, TraceInv, Fail \/ FailLog \/ FailEarly
  PROVE  TraceInv'
<1> DEFINE P == Top.snapshot
<1>1. /\ Running /\ Pop /\ Leave /\ Revert
      /\ (\E events : SetEvents(events)) \/ UNCHANGED Events
  BY DEF Fail, FailLog, FailEarly
<1>2. UNCHANGED <<status, calls, emitted, caller, author>> /\ status = "running"
  BY <1>1 DEF Leave, Running
<1>3. /\ Len(frames) \in Nat /\ Len(frames') = Len(frames) - 1
      /\ Top.tx \in Call /\ Top.tx \in Nat /\ Top.tx <= calls /\ Events[Top.tx] = <<>>
      /\ P \in Nat /\ P <= Len(logs)
      /\ \A l \in 1 .. Len(logs) : l > P <=> author[logs[l]] >= Top.tx
      /\ \A n \in Active : n \in Active' \/ n = Top.tx
  BY <1>1, LeaveFacts
<1>4. \A i \in 1 .. Len(frames') :
         /\ i \in 1 .. Len(frames) /\ frames'[i] = frames[i]
         /\ frames[i].tx \in Call /\ frames[i].tx \in Nat /\ frames[i].tx < Top.tx
         /\ frames[i].snapshot \in Nat /\ frames[i].snapshot <= P
  BY <1>1, LeaveFacts
<1>5. \A n \in Call : n # Top.tx => Events'[n] = Events[n]
  <2>1. UNCHANGED Events \/ \E events : Events' = [Events EXCEPT ![Top.tx] = events]
    BY <1>1, PopStack DEF SetEvents
  <2> QED
    BY <2>1 DEF TypeOK
<1>6. /\ Len(logs') = P /\ \A l \in 1 .. P : l \in 1 .. Len(logs) /\ logs'[l] = logs[l]
  <2>1. P \in 0 .. Len(logs) /\ logs \in Seq(1 .. MaxEvents) /\ logs' = SubSeq(logs, 1, P)
    <3>1. logs \in Seq(1 .. MaxEvents) /\ Len(logs) \in Nat
      BY DEF TypeOK
    <3>2. logs' = SubSeq(logs, 1, P)
      BY <1>1 DEF Revert
    <3> HIDE DEF P
    <3> QED
      BY <1>3, <3>1, <3>2
  <2> HIDE DEF P
  <2> QED
    BY <2>1, Prefix
<1>7. failed' = failed \cup (Top.tx .. calls) /\ calls \in Nat
  BY <1>1, Counts DEF Revert
<1>8. \A l \in 1 .. P : author[logs[l]] \in Nat /\ author[logs[l]] < Top.tx
  <2> SUFFICES ASSUME NEW l \in 1 .. P PROVE author[logs[l]] \in Nat /\ author[logs[l]] < Top.tx
    OBVIOUS
  <2>1. l \in 1 .. Len(logs) /\ author[logs[l]] \in Nat
    BY <1>6, LogTypes
  <2>2. ~ (l > P)
    BY <1>3
  <2> QED
    BY <1>3, <2>1, <2>2
<1> DEFINE IsLogN(d) == d.Index + 1 \in 1 .. Len(logs') /\ logs'[d.Index + 1] = d.id
           TracedN(es, l) == \E k \in 1 .. Len(es) : es[k] = [id |-> logs'[l], Index |-> l - 1]
<1>9. ASSUME NEW d, IsLog(d), author[d.id] \in Nat, author[d.id] < Top.tx PROVE IsLogN(d)
  <2>1. d.Index + 1 \in 1 .. Len(logs) /\ logs[d.Index + 1] = d.id
    BY <1>9 DEF IsLog
  <2>2. ~ (author[d.id] >= Top.tx)
    BY <1>3, <1>9
  <2>3. ~ (d.Index + 1 > P)
    BY <1>3, <2>1, <2>2
  <2>4. d.Index + 1 \in 1 .. P
    BY <1>3, <2>1, <2>3
  <2> QED
    BY <1>6, <2>1, <2>4
<1>10. ASSUME NEW es, NEW l \in 1 .. P, Traced(es, l) PROVE TracedN(es, l)
  BY <1>6, <1>10 DEF Traced
<1> HIDE DEF P
<1>11. FrameInv'
  <2> SUFFICES ASSUME NEW i \in 1 .. Len(frames')
               PROVE /\ frames'[i].tx <= calls /\ frames'[i].tx \notin failed'
                     /\ frames'[i].snapshot <= P /\ Events'[frames'[i].tx] = <<>>
                     /\ \A j \in 1 .. Len(frames') : i < j =>
                           /\ frames'[i].tx < frames'[j].tx
                           /\ frames'[i].snapshot <= frames'[j].snapshot
                     /\ \A n \in 1 .. calls : n > frames'[i].tx => caller[n] >= frames'[i].tx
                     /\ \A l \in 1 .. P :
                           l > frames'[i].snapshot <=> author[logs'[l]] >= frames'[i].tx
    BY <1>2, <1>6 DEF FrameInv
  <2>1. /\ i \in 1 .. Len(frames) /\ frames'[i] = frames[i]
        /\ frames[i].tx \in Call /\ frames[i].tx \in Nat /\ frames[i].tx < Top.tx
        /\ frames[i].snapshot <= P
    BY <1>4
  <2>2. /\ frames[i].tx <= calls /\ frames[i].tx \notin failed /\ Events[frames[i].tx] = <<>>
        /\ \A j \in 1 .. Len(frames) : i < j =>
              /\ frames[i].tx < frames[j].tx
              /\ frames[i].snapshot <= frames[j].snapshot
        /\ \A n \in 1 .. calls : n > frames[i].tx => caller[n] >= frames[i].tx
        /\ \A l \in 1 .. Len(logs) : l > frames[i].snapshot <=> author[logs[l]] >= frames[i].tx
    BY <2>1 DEF TraceInv, FrameInv
  <2>3. frames[i].tx \notin failed' /\ Events'[frames[i].tx] = <<>>
    <3>1. frames[i].tx \notin Top.tx .. calls /\ frames[i].tx # Top.tx
      <4>1. frames[i].tx \in Nat /\ frames[i].tx < Top.tx
        BY <2>1
      <4>2. Top.tx \in Nat
        BY <1>3
      <4> QED
        BY <4>1, <4>2
    <3>2. Events'[frames[i].tx] = Events[frames[i].tx]
      BY <1>5, <2>1, <3>1
    <3> QED
      BY <1>7, <2>2, <3>1, <3>2
  <2>4. \A j \in 1 .. Len(frames') : i < j =>
           /\ frames'[i].tx < frames'[j].tx
           /\ frames'[i].snapshot <= frames'[j].snapshot
    BY <1>4, <2>1, <2>2
  <2>5. \A l \in 1 .. P : l > frames'[i].snapshot <=> author[logs'[l]] >= frames'[i].tx
    BY <1>6, <2>1, <2>2
  <2> QED
    BY <2>1, <2>2, <2>3, <2>4, <2>5
<1>12. LocalEvents'
  <2> SUFFICES ASSUME NEW i \in 1 .. Len(frames')
               PROVE /\ \A k \in 1 .. Len(frames'[i].events) :
                           /\ IsLogN(frames'[i].events[k])
                           /\ author'[frames'[i].events[k].id] = frames'[i].tx
                     /\ \A l \in 1 .. Len(logs') :
                           author'[logs'[l]] = frames'[i].tx => TracedN(frames'[i].events, l)
    BY Zenon DEF LocalEvents, IsLog, Traced
  <2> HIDE DEF IsLogN, TracedN
  <2>1. /\ i \in 1 .. Len(frames) /\ frames'[i] = frames[i]
        /\ frames[i].tx \in Nat /\ frames[i].tx < Top.tx
    BY <1>4
  <2>2. ASSUME NEW k \in 1 .. Len(frames[i].events)
        PROVE  IsLogN(frames[i].events[k]) /\ author[frames[i].events[k].id] = frames[i].tx
    <3>1. IsLog(frames[i].events[k]) /\ author[frames[i].events[k].id] = frames[i].tx
      BY <2>1 DEF TraceInv, LocalEvents
    <3> QED
      BY <1>9, <2>1, <3>1
  <2>3. ASSUME NEW l \in 1 .. P, author[logs'[l]] = frames[i].tx
        PROVE  TracedN(frames[i].events, l)
    <3>1. Traced(frames[i].events, l)
      BY <1>6, <2>1, <2>3 DEF TraceInv, LocalEvents
    <3> QED
      BY <1>10, <3>1
  <2> QED
    BY <1>2, <1>6, <2>1, <2>2, <2>3
<1>13. LogInv'
  <2> SUFFICES ASSUME NEW l \in 1 .. P
               PROVE  /\ logs'[l] <= emitted /\ author[logs'[l]] \in 1 .. calls
                      /\ \/ author[logs'[l]] \in Active'
                         \/ TracedN(Events'[author[logs'[l]]], l)
    <3>1. P <= emitted
      BY <1>3, Counts DEF TraceInv, LogInv
    <3> QED
      BY <1>2, <1>6, <3>1 DEF LogInv, Traced
  <2>1. l \in 1 .. Len(logs) /\ logs'[l] = logs[l]
    BY <1>6
  <2>2. /\ logs[l] <= emitted /\ author[logs[l]] \in 1 .. calls
        /\ author[logs[l]] \in Active \/ Traced(Events[author[logs[l]]], l)
    BY <2>1 DEF TraceInv, LogInv
  <2>3. author[logs[l]] \in Call /\ author[logs[l]] # Top.tx
    <3>1. author[logs[l]] \in Nat /\ author[logs[l]] < Top.tx
      BY <1>8
    <3>2. Top.tx \in Nat
      BY <1>3
    <3>3. author[logs[l]] \in Call
      BY <2>2, Counts, CallRange
    <3> QED
      BY <3>1, <3>2, <3>3
  <2>4. Events'[author[logs[l]]] = Events[author[logs[l]]]
    BY <1>5, <2>3
  <2> HIDE DEF TracedN
  <2> QED
    BY <1>3, <1>10, <2>1, <2>2, <2>3, <2>4
<1>14. EventInv'
  <2> SUFFICES ASSUME NEW n \in Call
               PROVE  /\ n > calls => Events'[n] = <<>> /\ n \notin failed'
                      /\ n \notin failed' => \A i \in 1 .. Len(Events'[n]) :
                            IsLogN(Events'[n][i]) /\ author[Events'[n][i].id] = n
    BY <1>2 DEF EventInv, IsLog
  <2> HIDE DEF IsLogN
  <2>1. n \in Nat
    BY CallRange
  <2>2. CASE n > calls
    <3>1. Events[n] = <<>> /\ n \notin failed
      BY <2>2 DEF TraceInv, EventInv
    <3>2. n # Top.tx /\ n \notin Top.tx .. calls
      BY <1>3, <1>7, <2>1, <2>2
    <3>3. Events'[n] = <<>> /\ n \notin failed'
      BY <1>5, <1>7, <3>1, <3>2
    <3> QED
      BY <3>3
  <2>3. CASE ~ (n > calls) /\ n \notin failed'
    <3>1. n < Top.tx /\ n \notin failed
      BY <1>3, <1>7, <2>1, <2>3
    <3>2. Events'[n] = Events[n]
      BY <1>3, <1>5, <2>1, <3>1
    <3>3. \A i \in 1 .. Len(Events[n]) : IsLog(Events[n][i]) /\ author[Events[n][i].id] = n
      BY <3>1 DEF TraceInv, EventInv
    <3>4. \A i \in 1 .. Len(Events[n]) : IsLogN(Events[n][i])
      BY <1>9, <2>1, <3>1, <3>3
    <3> QED
      BY <2>3, <3>2, <3>3, <3>4
  <2> QED
    BY <2>2, <2>3
<1> QED
  BY <1>1, <1>2, <1>11, <1>12, <1>13, <1>14, LeaveChain DEF TraceInv

(* The start, and the steps that leave the trace alone.                    *)
LEMMA InitStep ==
  ASSUME Init
  PROVE  TypeOK /\ TraceInv /\ TreeIsCallTree
<1>1. TypeOK
  <2>1. /\ CallStack \in Seq(Call) /\ frames \in Seq(Frame) /\ logs \in Seq(1 .. MaxEvents)
        /\ InTxs \in [0 .. MaxCalls -> Seq(Call)] /\ Events \in [Call -> Seq(Event)]
    <3>1. CallStack = <<>> /\ frames = <<>> /\ logs = <<>>
      BY DEF Init
    <3>2. /\ InTxs = [p \in 0 .. MaxCalls |-> <<>>] /\ Events = [n \in Call |-> <<>>]
      BY DEF Init
    <3>3. \A S : <<>> \in Seq(S)
      BY EmptySeq
    <3> QED
      BY <3>1, <3>2, <3>3
  <2>2. /\ status \in {"ready", "running", "ok", "error", "panic"}
        /\ readOnly \in BOOLEAN /\ calls \in 0 .. MaxCalls /\ emitted \in 0 .. MaxEvents
    <3>1. readOnly \in BOOLEAN
      BY DEF Init
    <3>2. status = "ready" /\ calls = 0 /\ emitted = 0
      BY DEF Init
    <3>3. calls \in 0 .. MaxCalls /\ emitted \in 0 .. MaxEvents
      BY <3>2
    <3> QED
      BY <3>1, <3>2, <3>3
  <2>3. /\ caller \in [Call -> 0 .. MaxCalls] /\ author \in [1 .. MaxEvents -> 0 .. MaxCalls]
        /\ failed \subseteq Call
    BY DEF Init
  <2> QED
    BY <2>1, <2>2, <2>3 DEF TypeOK
<1>2. Len(frames) = 0 /\ Len(logs) = 0 /\ \A n \in Call : Events[n] = <<>>
  BY DEF Init
<1>3. TraceInv
  <2>1. StackIsCallChain
    BY <1>2 DEF Init, StackIsCallChain
  <2>2. FrameInv /\ LocalEvents
    BY <1>2 DEF FrameInv, LocalEvents
  <2>3. LogInv
    BY <1>2 DEF Init, LogInv
  <2>4. EventInv
    BY <1>2 DEF Init, EventInv
  <2> QED
    BY <2>1, <2>2, <2>3, <2>4 DEF Init, TraceInv
<1>4. TreeIsCallTree
  <2>1. Returned = {}
    BY DEF Init, Returned
  <2>2. \A p \in 0 .. MaxCalls : InTxs[p] = <<>>
    BY DEF Init
  <2> QED
    BY <2>1, <2>2 DEF TreeIsCallTree
<1> QED
  BY <1>1, <1>3, <1>4

LEMMA QuietStep ==
  ASSUME TypeOK, TraceInv, CallUntraced \/ Finish \/ UNCHANGED vars
  PROVE  TraceInv'
<1>1. UNCHANGED <<CallStack, Events, logs, frames, calls, emitted, caller, author, failed>>
  BY DEF CallUntraced, Finish, vars, trace, history
<1>2. StackIsCallChain' /\ FrameInv'
  BY <1>1 DEF TraceInv, StackIsCallChain, FrameInv
<1>3. LocalEvents'
  <2> SUFFICES ASSUME NEW i \in 1 .. Len(frames)
               PROVE /\ \A k \in 1 .. Len(frames[i].events) :
                           /\ IsLog(frames[i].events[k])
                           /\ author[frames[i].events[k].id] = frames[i].tx
                     /\ \A l \in 1 .. Len(logs) :
                           author[logs[l]] = frames[i].tx => Traced(frames[i].events, l)
    BY <1>1 DEF LocalEvents, IsLog, Traced
  <2> QED
    BY DEF TraceInv, LocalEvents
<1>4. LogInv'
  BY <1>1 DEF TraceInv, LogInv, Traced, Active
<1>5. EventInv'
  BY <1>1 DEF TraceInv, EventInv, IsLog
<1>6. status' # "running" => frames' = <<>>
  BY <1>1 DEF TraceInv, CallUntraced, Finish, vars
<1> QED
  BY <1>2, <1>3, <1>4, <1>5, <1>6 DEF TraceInv

LEMMA TraceStep ==
  ASSUME TypeOK, TraceInv, [Next]_vars
  PROVE  TraceInv'
BY EnterStep, NoCodeStep, LogStep, ReturnStep, FailStep, QuietStep DEF Next

(* One InternalTx more, the latest under its parent.                       *)
LEMMA AppendTree ==
  ASSUME TypeOK, TreeIsCallTree, status # "panic",
         NEW c \in Call, NEW q \in 0 .. MaxCalls,
         InTxs' = [InTxs EXCEPT ![q] = Append(@, c)],
         \A n : n \in Returned' <=> n \in Returned \/ n = c,
         caller'[c] = q,
         \A n \in Returned : n # c /\ caller'[n] = caller[n] /\ (caller[n] = q => n < c)
  PROVE  TreeIsCallTree'
<1> SUFFICES ASSUME NEW p \in 0 .. MaxCalls
             PROVE  /\ {InTxs'[p][i] : i \in 1 .. Len(InTxs'[p])} = {n \in Returned' : caller'[n] = p}
                    /\ \A i, j \in 1 .. Len(InTxs'[p]) : i < j => InTxs'[p][i] < InTxs'[p][j]
  BY DEF TreeIsCallTree
<1> DEFINE s == InTxs[p]
           t == InTxs'[p]
<1>1. /\ {s[i] : i \in 1 .. Len(s)} = {n \in Returned : caller[n] = p}
      /\ \A i, j \in 1 .. Len(s) : i < j => s[i] < s[j]
  BY DEF TreeIsCallTree
<1>2. s \in Seq(Call) /\ Len(s) \in Nat
  BY DEF TypeOK
<1>3. CASE p # q
  <2>1. t = s
    BY <1>3 DEF TypeOK
  <2>2. \A n : n \in Returned' /\ caller'[n] = p <=> n \in Returned /\ caller[n] = p
    BY <1>3
  <2> HIDE DEF s, t
  <2>3. {t[i] : i \in 1 .. Len(t)} = {n \in Returned' : caller'[n] = p}
    BY <1>1, <2>1, <2>2
  <2>4. \A i, j \in 1 .. Len(t) : i < j => t[i] < t[j]
    BY <1>1, <2>1
  <2> QED
    BY <2>3, <2>4 DEF t
<1>4. CASE p = q
  <2>1. t = Append(s, c)
    BY <1>4 DEF TypeOK
  <2> HIDE DEF s, t
  <2>2. /\ Len(t) = Len(s) + 1 /\ t[Len(s) + 1] = c
        /\ \A i \in 1 .. Len(s) : t[i] = s[i]
    BY <1>2, <2>1, AppendProperties
  <2>3. \A i \in 1 .. Len(t) : i \in 1 .. Len(s) \/ i = Len(s) + 1
    BY <1>2, <2>2
  <2>4. \A i \in 1 .. Len(s) : i \in 1 .. Len(t) /\ s[i] \in Returned /\ caller[s[i]] = q
    BY <1>1, <1>2, <1>4, <2>2
  <2>5. {t[i] : i \in 1 .. Len(t)} = {n \in Returned' : caller'[n] = p}
    <3>1. ASSUME NEW i \in 1 .. Len(t) PROVE t[i] \in Returned' /\ caller'[t[i]] = p
      BY <1>4, <2>2, <2>3, <2>4
    <3>2. ASSUME NEW n \in Returned', caller'[n] = p PROVE \E i \in 1 .. Len(t) : t[i] = n
      <4>1. CASE n = c
        <5>1. Len(s) + 1 \in 1 .. Len(t)
          BY <1>2, <2>2
        <5> QED
          BY <2>2, <4>1, <5>1
      <4>2. CASE n \in Returned
        <5>1. n \in {s[i] : i \in 1 .. Len(s)}
          BY <1>1, <3>2, <4>2
        <5> QED
          BY <2>2, <2>4, <5>1
      <4> QED
        BY <4>1, <4>2
    <3> QED
      BY <3>1, <3>2
  <2>6. ASSUME NEW i \in 1 .. Len(t), NEW j \in 1 .. Len(t), i < j PROVE t[i] < t[j]
    <3>1. i \in 1 .. Len(s)
      BY <1>2, <2>2, <2>6
    <3>2. CASE j \in 1 .. Len(s)
      BY <1>1, <2>2, <2>6, <3>1, <3>2
    <3>3. CASE j = Len(s) + 1
      BY <2>2, <2>4, <3>1, <3>3
    <3> QED
      BY <2>3, <3>2, <3>3
  <2> QED
    BY <2>5, <2>6 DEF t
<1> QED
  BY <1>3, <1>4

LEMMA TreeStep ==
  ASSUME TypeOK, TraceInv, TreeIsCallTree, [Next]_vars
  PROVE  TreeIsCallTree'
<1>0. calls \in Nat /\ Len(frames) \in Nat
  BY Counts
<1>1. ASSUME NEW static \in BOOLEAN, Enter(static) PROVE TreeIsCallTree'
  <2>1. /\ calls + 1 \in Call /\ calls' = calls + 1
        /\ \A n \in Call : n # calls + 1 => caller'[n] = caller[n]
    BY <1>1, NewCallFacts DEF Enter
  <2>2. \A n : n \in Active' <=> n \in Active \/ n = calls + 1
    <3> DEFINE f == NewFrame(static)
    <3>1. /\ Len(frames') = Len(frames) + 1 /\ frames'[Len(frames) + 1] = f /\ f.tx = calls + 1
          /\ \A i \in 1 .. Len(frames) : frames'[i] = frames[i]
      BY <1>1 DEF Enter, TypeOK, NewFrame
    <3> HIDE DEF f
    <3>2. /\ \A i \in 1 .. Len(frames') : i \in 1 .. Len(frames) \/ i = Len(frames) + 1
          /\ \A i \in 1 .. Len(frames) : i \in 1 .. Len(frames')
          /\ Len(frames) + 1 \in 1 .. Len(frames')
      BY <1>0, <3>1
    <3> QED
      BY <3>1, <3>2 DEF Active
  <2>3. \A n : n \in Returned' <=> n \in Returned
    <3>1. \A n : n \in 1 .. calls + 1 /\ n # calls + 1 <=> n \in 1 .. calls
      BY <1>0
    <3> QED
      BY <2>1, <2>2, <3>1 DEF Returned
  <2>4. \A n \in Returned : n \in Call /\ n # calls + 1
    BY <1>0, Counts, CallRange DEF Returned
  <2>5. \A p : {n \in Returned' : caller'[n] = p} = {n \in Returned : caller[n] = p}
    BY <2>1, <2>3, <2>4
  <2>6. status # "panic" /\ InTxs' = InTxs
    BY <1>1 DEF Enter, MayCall
  <2> SUFFICES ASSUME NEW p \in 0 .. MaxCalls
               PROVE  /\ {InTxs[p][i] : i \in 1 .. Len(InTxs[p])} = {n \in Returned' : caller'[n] = p}
                      /\ \A i, j \in 1 .. Len(InTxs[p]) : i < j => InTxs[p][i] < InTxs[p][j]
    BY <2>6 DEF TreeIsCallTree
  <2>7. /\ {InTxs[p][i] : i \in 1 .. Len(InTxs[p])} = {n \in Returned : caller[n] = p}
        /\ \A i, j \in 1 .. Len(InTxs[p]) : i < j => InTxs[p][i] < InTxs[p][j]
    BY <2>6 DEF TreeIsCallTree
  <2> QED
    BY <2>5, <2>7
<1>2. CASE CallNoCode
  <2>1. /\ calls + 1 \in Call /\ calls' = calls + 1 /\ caller'[calls + 1] = Current
        /\ \A n \in Call : n # calls + 1 => caller'[n] = caller[n]
    BY <1>2, NewCallFacts DEF CallNoCode
  <2>2. CASE CallStack = <<>>
    BY <1>2, <2>2 DEF CallNoCode, TreeIsCallTree
  <2>3. CASE CallStack # <<>>
    <3>1. frames # <<>> /\ Len(frames) \in 1 .. Len(frames) /\ Len(CallStack) = Len(frames)
      BY <2>3 DEF TraceInv, StackIsCallChain, TypeOK
    <3>2. CallStack[Len(CallStack)] = Current /\ Current \in 0 .. MaxCalls
      <4>1. CallStack[Len(CallStack)] = Current /\ Current = frames[Len(frames)].tx
        BY <3>1 DEF TraceInv, StackIsCallChain, Current, Top
      <4>2. frames[Len(frames)].tx \in Call
        BY <3>1, FrameTypes
      <4> QED
        BY <4>1, <4>2, CallRange
    <3>3. InTxs' = [InTxs EXCEPT ![Current] = Append(@, calls + 1)]
      BY <1>2, <2>3, <3>2 DEF CallNoCode
    <3>4. \A n : n \in Returned' <=> n \in Returned \/ n = calls + 1
      <4>1. Active' = Active /\ calls + 1 \notin Active
        <5>1. Active' = Active
          BY <1>2 DEF CallNoCode, Active
        <5>2. \A i \in 1 .. Len(frames) : frames[i].tx <= calls /\ frames[i].tx \in Nat
          BY FrameTypes DEF TraceInv, FrameInv
        <5>3. ASSUME calls + 1 \in Active PROVE FALSE
          <6>1. PICK i \in 1 .. Len(frames) : calls + 1 = frames[i].tx
            BY <5>3 DEF Active
          <6> QED
            BY <1>0, <5>2, <6>1
        <5> QED
          BY <5>1, <5>3
      <4>2. \A n : n \in 1 .. calls + 1 <=> n \in 1 .. calls \/ n = calls + 1
        BY <1>0
      <4> QED
        BY <2>1, <4>1, <4>2 DEF Returned
    <3>5. \A n \in Returned : n \in Call /\ n # calls + 1 /\ n < calls + 1
      BY <1>0, Counts, CallRange DEF Returned
    <3>6. status # "panic"
      BY <1>2 DEF CallNoCode, MayCall
    <3> QED
      BY <2>1, <3>2, <3>3, <3>4, <3>5, <3>6, AppendTree
  <2> QED
    BY <2>2, <2>3
<1>3. CASE Return \/ Fail \/ FailLog \/ FailEarly
  <2>1. Running /\ Pop /\ Leave /\ status # "panic"
    BY <1>3 DEF Return, Fail, FailLog, FailEarly, Running
  <2>2. /\ Top.tx \in Call /\ Top.tx \in Nat /\ Top.tx <= calls
        /\ Len(frames') = Len(frames) - 1
        /\ \A i \in 1 .. Len(frames') :
              i \in 1 .. Len(frames) /\ frames'[i] = frames[i] /\ frames[i].tx < Top.tx
        /\ \A n \in Active : n \in Active' \/ n = Top.tx
    BY <2>1, LeaveFacts
  <2>3. Len(frames) \in 1 .. Len(frames) /\ Top = frames[Len(frames)]
    BY <2>1, TopFrame DEF Top
  <2>4. UNCHANGED <<calls, caller>>
    BY <2>1 DEF Leave
  <2>5. \A n : n \in Active' <=> n \in Active /\ n # Top.tx
    <3>1. ASSUME NEW n \in Active' PROVE n \in Active /\ n # Top.tx
      <4>1. PICK i \in 1 .. Len(frames') : n = frames'[i].tx
        BY DEF Active
      <4>2. i \in 1 .. Len(frames) /\ n = frames[i].tx /\ frames[i].tx < Top.tx
        BY <2>2, <4>1
      <4>3. frames[i].tx \in Nat
        BY <4>2, FrameTypes
      <4> QED
        BY <2>2, <4>2, <4>3 DEF Active
    <3> QED
      BY <2>2, <3>1
  <2>6. Top.tx \in Active /\ Top.tx \in 1 .. calls
    <3>1. Top.tx \in Active
      BY <2>3 DEF Active
    <3>2. Top.tx \in Nat /\ 1 <= Top.tx /\ Top.tx <= calls /\ calls \in Nat
      BY <1>0, <2>2, CallRange
    <3> QED
      BY <3>1, <3>2
  <2>7. \A n : n \in Returned' <=> n \in Returned \/ n = Top.tx
    BY <2>4, <2>5, <2>6 DEF Returned
  <2>8. /\ InTxs' = [InTxs EXCEPT ![caller[Top.tx]] = Append(@, Top.tx)]
        /\ caller[Top.tx] \in 0 .. MaxCalls
    BY <2>1, PopStack
  <2>9. caller[Top.tx] < Top.tx
    <3>1. caller[Top.tx] = IF Len(frames) = 1 THEN 0 ELSE frames[Len(frames) - 1].tx
      BY <2>3 DEF TraceInv, StackIsCallChain
    <3>2. Len(frames) # 1 => Len(frames) - 1 \in 1 .. Len(frames')
      BY <1>0, <2>2, <2>3
    <3> QED
      BY <2>2, <3>1, <3>2, CallRange
  <2>10. ASSUME NEW n \in Returned, caller[n] = caller[Top.tx] PROVE n < Top.tx
    <3>1. n \in 1 .. calls /\ n # Top.tx
      BY <2>6 DEF Returned
    <3>2. n > Top.tx => caller[n] >= Top.tx
      BY <2>3, <3>1 DEF TraceInv, FrameInv
    <3> QED
      BY <1>0, <2>2, <2>8, <2>9, <2>10, <3>1, <3>2
  <2>11. \A n \in Returned :
            /\ n # Top.tx /\ caller'[n] = caller[n]
            /\ caller[n] = caller[Top.tx] => n < Top.tx
    <3>1. \A n \in Returned : n # Top.tx
      BY <2>6 DEF Returned
    <3> QED
      BY <2>4, <2>10, <3>1
  <2>12. caller'[Top.tx] = caller[Top.tx]
    BY <2>4
  <2> QED
    BY <2>1, <2>2, <2>7, <2>8, <2>11, <2>12, AppendTree
<1>4. CASE CallUntraced \/ Log \/ Finish \/ UNCHANGED vars
  <2>1. /\ UNCHANGED <<InTxs, calls, caller>>
        /\ Len(frames') = Len(frames) /\ \A i \in 1 .. Len(frames) : frames'[i].tx = frames[i].tx
        /\ status' = "panic" <=> status = "panic"
    <3>1. CASE Log
      <4>1. /\ UNCHANGED <<InTxs, calls, caller, status>> /\ frames \in Seq(Frame)
            /\ frames' = [frames EXCEPT ![Len(frames)] = [Top EXCEPT
                  !.events = Append(@, [id |-> emitted + 1, Index |-> Len(logs)])]]
        BY <3>1 DEF Log, trace, TypeOK
      <4>2. Top \in Frame /\ Len(frames) \in 1 .. Len(frames)
        BY <1>0, <3>1, TopFrame DEF Log, Running
      <4>3. [Top EXCEPT !.events = Append(@, [id |-> emitted + 1, Index |-> Len(logs)])].tx = Top.tx
        BY <4>2 DEF Frame
      <4> QED
        BY <4>1, <4>2, <4>3 DEF Top
    <3>2. CASE CallUntraced \/ Finish \/ UNCHANGED vars
      BY <3>2 DEF CallUntraced, Finish, vars, trace, history
    <3> QED
      BY <1>4, <3>1, <3>2
  <2>2. Returned' = Returned
    BY <2>1 DEF Returned, Active
  <2>3. ASSUME status' # "panic", NEW p \in 0 .. MaxCalls
        PROVE  /\ {InTxs'[p][i] : i \in 1 .. Len(InTxs'[p])} = {n \in Returned' : caller'[n] = p}
               /\ \A i, j \in 1 .. Len(InTxs'[p]) : i < j => InTxs'[p][i] < InTxs'[p][j]
    <3>1. /\ {InTxs[p][i] : i \in 1 .. Len(InTxs[p])} = {n \in Returned : caller[n] = p}
          /\ \A i, j \in 1 .. Len(InTxs[p]) : i < j => InTxs[p][i] < InTxs[p][j]
      BY <2>1, <2>3 DEF TreeIsCallTree
    <3>2. InTxs' = InTxs /\ caller' = caller
      BY <2>1
    <3> QED
      BY <2>2, <3>1, <3>2
  <2> QED
    BY <2>3 DEF TreeIsCallTree
<1> QED
  BY <1>1, <1>2, <1>3, <1>4 DEF Next

(* The inductive invariant: evm.CallStack is the chain of running calls,   *)
(* and every log is an event of the frame or of the InternalTx of the call *)
(* that emitted it.                                                        *)
THEOREM TraceInvariant == Spec => [](TypeOK /\ TraceInv)
<1>1. Init => TypeOK /\ TraceInv
  BY InitStep
<1>2. TypeOK /\ TraceInv /\ [Next]_vars => (TypeOK /\ TraceInv)'
  BY TypeStep, TraceStep
<1> QED
  BY <1>1, <1>2, PTL DEF Spec

(* Run hands its events, and Call its InternalTx, to the call that runs    *)
(* and to its caller: the stack is the call chain.                         *)
THEOREM StackIsChain == Spec => []StackIsCallChain
<1>1. TypeOK /\ TraceInv => StackIsCallChain
  BY DEF TraceInv
<1> QED
  BY <1>1, TraceInvariant, PTL

(* TransitionDb's error about the length of CallStack is unreachable.      *)
THEOREM StackIsEmptyAtEnd == Spec => []NoStackError
<1>1. Init => NoStackError
  BY DEF Init, NoStackError
<1>2. TypeOK /\ TraceInv /\ NoStackError /\ [Next]_vars => NoStackError'
  <2> SUFFICES ASSUME TypeOK, TraceInv, NoStackError, [Next]_vars PROVE NoStackError'
    OBVIOUS
  <2>1. CASE Finish
    <3>1. Len(CallStack) = 0
      BY <2>1 DEF Finish, TraceInv, StackIsCallChain
    <3> QED
      BY <2>1, <3>1 DEF Finish, NoStackError
  <2>2. CASE CallNoCode
    BY <2>2 DEF CallNoCode, NoStackError
  <2>3. CASE (\E static \in BOOLEAN : Enter(static)) \/ CallUntraced \/ Log \/ Return \/ Fail \/ FailLog \/ FailEarly \/ UNCHANGED vars
    BY <2>3 DEF Enter, CallUntraced, Log, Return, Fail, FailLog, FailEarly, Leave, vars, NoStackError
  <2> QED
    BY <2>1, <2>2, <2>3 DEF Next
<1> QED
  BY <1>1, <1>2, TraceInvariant, PTL DEF Spec

(* The ExternalTx is the tree of the calls that have returned.             *)
THEOREM TreeIsComplete == Spec => []TreeIsCallTree
<1>1. Init => TreeIsCallTree
  BY InitStep
<1>2. TypeOK /\ TraceInv /\ TreeIsCallTree /\ [Next]_vars => TreeIsCallTree'
  BY TreeStep
<1> QED
  BY <1>1, <1>2, TraceInvariant, PTL DEF Spec

(* At the end of a transaction the logs of its receipt are the events of   *)
(* the calls that did not fail, with the Index of their position.          *)
THEOREM LogsAreTraced == Spec => []EventsAreLogs
<1>1. TypeOK /\ TraceInv => EventsAreLogs
  <2> SUFFICES ASSUME TypeOK, TraceInv, status = "ok" PROVE
               /\ \A l \in 1 .. Len(logs) : Traced(Events[author[logs[l]]], l)
               /\ \A n \in Call \ failed : \A i \in 1 .. Len(Events[n]) : IsLog(Events[n][i])
    BY DEF EventsAreLogs
  <2>1. Active = {}
    BY DEF TraceInv, Active
  <2>2. \A l \in 1 .. Len(logs) : Traced(Events[author[logs[l]]], l)
    BY <2>1 DEF TraceInv, LogInv
  <2>3. \A n \in Call \ failed : \A i \in 1 .. Len(Events[n]) : IsLog(Events[n][i])
    BY DEF TraceInv, EventInv
  <2> QED
    BY <2>2, <2>3
<1> QED
  BY <1>1, TraceInvariant, PTL

(* readOnly is set exactly while a static call runs: a child's return does *)
(* not clear it.                                                           *)
THEOREM ReadOnlyIsInherited == Spec => []StaticIsReadOnly
<1>1. Init => StaticIsReadOnly
  BY DEF Init, StaticIsReadOnly
<1>2. TypeOK /\ TraceInv /\ StaticIsReadOnly /\ [Next]_vars => StaticIsReadOnly'
  <2> SUFFICES ASSUME TypeOK, TraceInv, StaticIsReadOnly, [Next]_vars PROVE StaticIsReadOnly'
    OBVIOUS
  <2> DEFINE N == Len(frames)
  <2>0. N \in Nat
    BY Counts
  <2>1. ASSUME NEW static \in BOOLEAN, Enter(static) PROVE StaticIsReadOnly'
    <3> DEFINE f == NewFrame(static)
    <3>1. /\ Len(frames') = N + 1 /\ frames'[N + 1] = f
          /\ \A i \in 1 .. N : frames'[i] = frames[i]
      BY <2>1 DEF Enter, TypeOK
    <3>2. (f.static <=> static) /\ (f.resets <=> static /\ ~readOnly)
      BY DEF NewFrame
    <3>3. readOnly' <=> readOnly \/ static
      BY <2>1 DEF Enter
    <3> HIDE DEF f, N
    <3>4. /\ \A i \in 1 .. N + 1 : i \in 1 .. N \/ i = N + 1
          /\ \A i \in 1 .. N : i \in 1 .. N + 1
          /\ N + 1 \in 1 .. N + 1 /\ N + 1 - 1 = N
          /\ \A i \in 1 .. N : \A j \in 1 .. i - 1 : j \in 1 .. N
      BY <2>0
    <3>5. readOnly' <=> \E i \in 1 .. N + 1 : frames'[i].static
      BY <3>1, <3>2, <3>3, <3>4 DEF StaticIsReadOnly, N
    <3>6. ASSUME NEW i \in 1 .. N
          PROVE  frames'[i].resets <=> frames'[i].static /\ \A j \in 1 .. i - 1 : ~frames'[j].static
      BY <3>1, <3>4 DEF StaticIsReadOnly, N
    <3>7. ASSUME NEW i, i = N + 1
          PROVE  frames'[i].resets <=> frames'[i].static /\ \A j \in 1 .. i - 1 : ~frames'[j].static
      <4>1. 1 .. i - 1 = 1 .. N /\ frames'[i] = f
        BY <2>0, <3>1, <3>7
      <4>2. readOnly <=> \E j \in 1 .. N : frames'[j].static
        BY <3>1 DEF StaticIsReadOnly, N
      <4> QED
        BY <3>2, <4>1, <4>2
    <3>8. ASSUME NEW i \in 1 .. Len(frames')
          PROVE  frames'[i].resets <=> frames'[i].static /\ \A j \in 1 .. i - 1 : ~frames'[j].static
      <4>1. CASE i \in 1 .. N
        BY <3>6, <4>1
      <4>2. CASE i = N + 1
        BY <3>7, <4>2
      <4>3. i \in 1 .. N + 1
        BY <3>1
      <4> QED
        BY <3>4, <4>1, <4>2, <4>3
    <3>9. readOnly' <=> \E i \in 1 .. Len(frames') : frames'[i].static
      BY <3>1, <3>5
    <3> QED
      BY <3>8, <3>9 DEF StaticIsReadOnly
  <2>2. CASE Return \/ Fail \/ FailLog \/ FailEarly
    <3>1. Running /\ Leave
      BY <2>2 DEF Return, Fail, FailLog, FailEarly
    <3>2. /\ Len(frames') = N - 1 /\ N \in 1 .. N /\ Top = frames[N]
          /\ \A i \in 1 .. Len(frames') : i \in 1 .. N /\ frames'[i] = frames[i]
      <4>1. N \in 1 .. N /\ Top = frames[N]
        BY <3>1, TopFrame DEF Top
      <4>2. /\ Len(frames') = N - 1
            /\ \A i \in 1 .. Len(frames') : i \in 1 .. N /\ frames'[i] = frames[i]
        BY <3>1, LeaveFrames
      <4> QED
        BY <4>1, <4>2
    <3>3. readOnly' <=> readOnly /\ ~Top.resets
      BY <3>1 DEF Leave
    <3> HIDE DEF N
    <3>4. /\ \A i \in 1 .. N : i \in 1 .. N - 1 \/ i = N
          /\ \A i \in 1 .. N : \A j \in 1 .. i - 1 : j \in 1 .. N - 1
      BY <2>0
    <3>5. readOnly' <=> \E i \in 1 .. N - 1 : frames'[i].static
      <4>1. readOnly <=> Top.static \/ \E i \in 1 .. N - 1 : frames[i].static
        BY <3>2, <3>4 DEF StaticIsReadOnly, N
      <4>2. Top.resets <=> Top.static /\ \A j \in 1 .. N - 1 : ~frames[j].static
        BY <3>2 DEF StaticIsReadOnly, N
      <4> QED
        BY <3>2, <3>3, <4>1, <4>2
    <3>6. ASSUME NEW i \in 1 .. N - 1
          PROVE  frames'[i].resets <=> frames'[i].static /\ \A j \in 1 .. i - 1 : ~frames'[j].static
      BY <3>2, <3>4 DEF StaticIsReadOnly, N
    <3> QED
      BY <3>2, <3>5, <3>6 DEF StaticIsReadOnly
  <2>3. CASE Log
    <3> DEFINE g == [Top EXCEPT !.events = Append(@, [id |-> emitted + 1, Index |-> Len(logs)])]
    <3>1. /\ frames' = [frames EXCEPT ![N] = g]
          /\ frames \in Seq(Frame) /\ Running /\ readOnly' = readOnly
      BY <2>3 DEF Log, TypeOK
    <3>2. Top \in Frame /\ N \in 1 .. N /\ Top = frames[N]
      BY <3>1, TopFrame DEF Top
    <3>3. /\ Len(frames') = N
          /\ \A i \in 1 .. N : /\ frames'[i].static = frames[i].static
                               /\ frames'[i].resets = frames[i].resets
      <4>1. g.static = Top.static /\ g.resets = Top.resets
        BY <3>2 DEF Frame
      <4> HIDE DEF g
      <4>2. Len(frames') = N /\ frames'[N] = g /\ \A i \in 1 .. N : i # N => frames'[i] = frames[i]
        BY <3>1, <3>2
      <4> QED
        BY <3>2, <4>1, <4>2
    <3>4. \A i \in 1 .. N : \A j \in 1 .. i - 1 : j \in 1 .. N
      BY <2>0
    <3>5. /\ readOnly <=> \E i \in 1 .. N : frames[i].static
          /\ \A i \in 1 .. N :
                frames[i].resets <=> frames[i].static /\ \A j \in 1 .. i - 1 : ~frames[j].static
      BY DEF StaticIsReadOnly
    <3> HIDE DEF N
    <3>6. readOnly' <=> \E i \in 1 .. Len(frames') : frames'[i].static
      BY <3>1, <3>3, <3>5
    <3>7. ASSUME NEW i \in 1 .. Len(frames')
          PROVE  frames'[i].resets <=> frames'[i].static /\ \A j \in 1 .. i - 1 : ~frames'[j].static
      <4>1. i \in 1 .. N
        BY <3>3
      <4> QED
        BY <3>3, <3>4, <3>5, <4>1
    <3> QED
      BY <3>6, <3>7 DEF StaticIsReadOnly
  <2>4. CASE CallNoCode \/ CallUntraced \/ Finish \/ UNCHANGED vars
    BY <2>4 DEF CallNoCode, CallUntraced, Finish, vars, StaticIsReadOnly
  <2> QED
    BY <2>1, <2>2, <2>3, <2>4 DEF Next
<1> QED
  BY <1>1, <1>2, TraceInvariant, PTL DEF Spec
=============================================================================
