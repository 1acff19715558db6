----------------------------- MODULE CallTrace -----------------------------
(***************************************************************************)
(* The call tree that core/vm/evm.go builds while a transaction runs:      *)
(* evm.CallStack holds the InternalTx of every running call, evm.ExTx the  *)
(* finished tree.  The interpreter hands the events of a frame to the      *)
(* InternalTx on top of the stack; StateDB.logs loses the logs of a call   *)
(* that fails, the tree does not.                                          *)
(*                                                                         *)
(* Calls and events are numbered in the order in which they happen.  0     *)
(* stands for the ExternalTx, and for the Event{} of a LOG that fails.     *)
(***************************************************************************)
EXTENDS Integers, Sequences, FiniteSets

CONSTANTS
    MaxCalls,         \* bound: InternalTxs of the transaction
    MaxEvents,        \* bound: LOG instructions
    CallCreateDepth   \* params.CallCreateDepth

ASSUME TraceAssumption ==
    MaxCalls \in Nat /\ MaxEvents \in Nat /\ CallCreateDepth \in Nat

Call  == 1 .. MaxCalls
Event == [id : 0 .. MaxEvents, Index : 0 .. MaxEvents]

VARIABLES
    CallStack,  \* evm.CallStack
    InTxs,      \* InTxs of the ExternalTx and of every InternalTx
    Events,     \* Events of every InternalTx
    logs,       \* ids of StateDB.logs
    frames,     \* the Go frames of Call, CallCode, ..., create and Run
    readOnly,   \* EVMInterpreter.readOnly
    status,     \* of TransitionDb: "ready", "running", "ok", "error" or "panic"
    calls, emitted,   \* how many InternalTxs and events there are
    caller,     \* history: the call that made each call
    author,     \* history: the call that emitted each event
    failed      \* history: the calls that an error, of their own or of a caller, undid

trace   == <<CallStack, InTxs, Events>>
history == <<caller, author, failed>>
vars    == <<trace, logs, frames, readOnly, status, calls, emitted, history>>

(* A frame of Run: its InternalTx, its local events, its state snapshot,   *)
(* its argument readOnly, and whether it has to reset in.readOnly.         *)
Frame == [tx : Call, events : Seq(Event), snapshot : 0 .. MaxEvents,
          static : BOOLEAN, resets : BOOLEAN]

Init ==
    /\ CallStack = <<>> /\ frames = <<>> /\ logs = <<>>
    /\ InTxs = [p \in 0 .. MaxCalls |-> <<>>]
    /\ Events = [n \in Call |-> <<>>]
    /\ status = "ready" /\ calls = 0 /\ emitted = 0 /\ readOnly = FALSE
    /\ caller = [n \in Call |-> 0] /\ author = [e \in 1 .. MaxEvents |-> 0] /\ failed = {}

Top == frames[Len(frames)]
Current == IF frames = <<>> THEN 0 ELSE Top.tx

(* The message of the transaction, or an instruction of the top frame.     *)
MayCall == status = "ready" \/ (status = "running" /\ frames # <<>>)

NewCall ==
    /\ calls < MaxCalls
    /\ calls' = calls + 1
    /\ caller' = [caller EXCEPT ![calls + 1] = Current]
    /\ UNCHANGED <<author, failed>>

NewFrame(static) ==
    [tx |-> calls + 1, events |-> <<>>, snapshot |-> Len(logs),
     static |-> static, resets |-> static /\ ~readOnly]

(* Call of a contract, CallCode, DelegateCall, StaticCall (static) and     *)
(* create, up to the start of Run's loop.  The message of a transaction is *)
(* never a StaticCall.                                                     *)
Enter(static) ==
    /\ MayCall /\ Len(frames) <= CallCreateDepth /\ NewCall
    /\ static => frames # <<>>
    /\ frames' = Append(frames, NewFrame(static))
    /\ readOnly' = (readOnly \/ static)
    /\ CallStack' = Append(CallStack, calls + 1)
    /\ status' = "running"
    /\ UNCHANGED <<InTxs, Events, logs, emitted>>

(* Call of an account without code, which exists or is sent value: the     *)
(* InternalTx goes under the top of the stack, CallStack[len - 1].         *)
CallNoCode ==
    /\ MayCall /\ Len(frames) <= CallCreateDepth /\ NewCall
    /\ IF CallStack = <<>>
       THEN status' = "panic" /\ UNCHANGED InTxs
       ELSE /\ InTxs' = [InTxs EXCEPT ![CallStack[Len(CallStack)]] = Append(@, calls + 1)]
            /\ status' = "running"
    /\ UNCHANGED <<CallStack, Events, logs, frames, readOnly, emitted>>

(* A call that leaves no InternalTx: too deep, not enough balance, an      *)
(* absent account, a precompiled contract.  Only the outermost one is a    *)
(* step; inside a frame it changes nothing here.                           *)
CallUntraced ==
    /\ status = "ready"
    /\ status' = "running"
    /\ UNCHANGED <<trace, logs, frames, readOnly, calls, emitted, history>>

Running == status = "running" /\ frames # <<>>

(* LOG0 .. LOG4: makeLogSu adds to StateDB.logs, Run to its local events.      *)
Log ==
    /\ Running /\ ~readOnly /\ emitted < MaxEvents
    /\ emitted' = emitted + 1
    /\ logs' = Append(logs, emitted + 1)
    /\ frames' = [frames EXCEPT ![Len(frames)] =
          [Top EXCEPT !.events = Append(@, [id |-> emitted + 1, Index |-> Len(logs)])]]
    /\ author' = [author EXCEPT ![emitted + 1] = Top.tx]
    /\ UNCHANGED <<trace, readOnly, status, calls, caller, failed>>

(* The end of Run: the events go to the InternalTx on top of the stack.    *)
SetEvents(events) == Events' = [Events EXCEPT ![CallStack[Len(CallStack)]] = events]

(* Mutant: a finished InternalTx goes to the root of the tree.             *)
Pop_ToRoot ==
    LET n == Len(CallStack) IN
    /\ InTxs' = [InTxs EXCEPT ![0] = Append(@, CallStack[n])]
    /\ CallStack' = SubSeq(CallStack, 1, n - 1)

(* After Run: the InternalTx leaves the stack and goes under the new top,  *)
(* or under the ExternalTx.                                                *)
Pop ==
    LET n == Len(CallStack)
        parent == IF n > 1 THEN CallStack[n - 1] ELSE 0
    IN  /\ InTxs' = [InTxs EXCEPT ![parent] = Append(@, CallStack[n])]
        /\ CallStack' = SubSeq(CallStack, 1, n - 1)

(* Mutant: an inner static call resets the flag of an outer one.           *)
Leave_Resets ==
    /\ frames' = SubSeq(frames, 1, Len(frames) - 1)
    /\ readOnly' = (readOnly /\ ~Top.static)
    /\ UNCHANGED <<status, calls, emitted, caller, author>>

Leave ==
    /\ frames' = SubSeq(frames, 1, Len(frames) - 1)
    /\ readOnly' = (readOnly /\ ~Top.resets)
    /\ UNCHANGED <<status, calls, emitted, caller, author>>

(* Mutant: the logs are not in the journal.                                *)
Revert_KeepsLogs ==
    /\ failed' = failed \cup (Top.tx .. calls)
    /\ UNCHANGED logs

(* RevertToSnapshot; the calls made since the frame's own are the ones     *)
(* under it.                                                               *)
Revert ==
    /\ logs' = SubSeq(logs, 1, Top.snapshot)
    /\ failed' = failed \cup (Top.tx .. calls)

(* STOP, RETURN, SELFDESTRUCT.                                             *)
Return ==
    /\ Running /\ SetEvents(Top.events) /\ Pop /\ Leave
    /\ UNCHANGED <<logs, failed>>

(* An instruction fails (REVERT too), or create rejects the code: the loop *)
(* of Run breaks, the events are handed over, the state is reverted.       *)
Fail == Running /\ SetEvents(Top.events) /\ Pop /\ Leave /\ Revert

(* A LOG while readOnly is set: ErrWriteProtection and an Event{}.         *)
FailLog ==
    /\ Running /\ readOnly
    /\ SetEvents(Append(Top.events, [id |-> 0, Index |-> 0]))
    /\ Pop /\ Leave /\ Revert

(* Out of gas or a stack error: Run returns inside the loop.               *)
FailEarly == Running /\ Pop /\ Leave /\ Revert /\ UNCHANGED Events

(* TransitionDb's check of the stack once the outermost call has returned. *)
Finish ==
    /\ status = "running" /\ frames = <<>>
    /\ status' = IF Len(CallStack) > 0 THEN "error" ELSE "ok"
    /\ UNCHANGED <<trace, logs, frames, readOnly, calls, emitted, history>>

Next ==
    \/ \E static \in BOOLEAN : Enter(static)
    \/ CallNoCode \/ CallUntraced \/ Log \/ Return \/ Fail \/ FailLog \/ FailEarly \/ Finish

Spec == Init /\ [][Next]_vars

-----------------------------------------------------------------------------
(* Types of the call trace.                                                *)
TypeOK ==
    /\ CallStack \in Seq(Call)
    /\ InTxs \in [0 .. MaxCalls -> Seq(Call)]
    /\ Events \in [Call -> Seq(Event)]
    /\ logs \in Seq(1 .. MaxEvents) /\ frames \in Seq(Frame)
    /\ status \in {"ready", "running", "ok", "error", "panic"}
    /\ readOnly \in BOOLEAN /\ calls \in 0 .. MaxCalls /\ emitted \in 0 .. MaxEvents
    /\ caller \in [Call -> 0 .. MaxCalls] /\ author \in [1 .. MaxEvents -> 0 .. MaxCalls]
    /\ failed \subseteq Call

(* evm.CallStack is the chain of running calls: the InternalTx on top is   *)
(* that of the frame that runs, and its neighbour below is its caller, so  *)
(* the events and the InternalTx go where Run and Call mean them to go.    *)
StackIsCallChain ==
    /\ Len(CallStack) = Len(frames)
    /\ \A i \in 1 .. Len(frames) :
          /\ CallStack[i] = frames[i].tx
          /\ caller[frames[i].tx] = IF i = 1 THEN 0 ELSE frames[i - 1].tx

(* Run: "makes sure that the readOnly flag isn't removed for child calls": *)
(* LOGs fail exactly while a static call runs, and the frame that resets   *)
(* the flag is the outermost static one.                                   *)
StaticIsReadOnly ==
    /\ readOnly <=> \E i \in 1 .. Len(frames) : frames[i].static
    /\ \A i \in 1 .. Len(frames) :
          frames[i].resets <=> frames[i].static /\ \A j \in 1 .. i - 1 : ~frames[j].static

(* TransitionDb never returns its "The length of CallStack is" error.      *)
NoStackError == status # "error"

(* The tree is the call tree: under each call are the calls it made that   *)
(* have returned, each once, in the order of the calls.                    *)
Active == {frames[i].tx : i \in 1 .. Len(frames)}
Returned == (1 .. calls) \ Active
TreeIsCallTree ==
    status # "panic" => \A p \in 0 .. MaxCalls :
        /\ {InTxs[p][i] : i \in 1 .. Len(InTxs[p])} = {n \in Returned : caller[n] = p}
        /\ \A i, j \in 1 .. Len(InTxs[p]) : i < j => InTxs[p][i] < InTxs[p][j]

(* Every log that the transaction leaves in StateDB.logs is an event of    *)
(* the call that emitted it, with its position as Index; and an event that *)
(* is not a log any more was emitted under a call that failed.             *)
IsLog(e) == e.Index + 1 \in 1 .. Len(logs) /\ logs[e.Index + 1] = e.id
Traced(es, l) == \E i \in 1 .. Len(es) : es[i] = [id |-> logs[l], Index |-> l - 1]
EventsAreLogs ==
    status = "ok" =>
        /\ \A l \in 1 .. Len(logs) : Traced(Events[author[logs[l]]], l)
        /\ \A n \in Call \ failed : \A i \in 1 .. Len(Events[n]) : IsLog(Events[n][i])

(* "It also handles any necessary value transfer required" (the comment of *)
(* EVM.Call): a transaction that sends value to an account without code    *)
(* runs to its end.                                                        *)
NoPanic == status # "panic"

(* The strengthening that these rest on.  A call made later than a running *)
(* one is made under it, and so are the logs since its snapshot.  Each log *)
(* is an event of its author: of the frame while the author runs, of the   *)
(* InternalTx when it has returned.                                        *)
FrameInv ==
    \A i \in 1 .. Len(frames) :
        /\ frames[i].tx <= calls /\ frames[i].tx \notin failed /\ frames[i].snapshot <= Len(logs)
        /\ Events[frames[i].tx] = <<>>
        /\ \A j \in 1 .. Len(frames) : i < j =>
              frames[i].tx < frames[j].tx /\ frames[i].snapshot <= frames[j].snapshot
        /\ \A n \in 1 .. calls : n > frames[i].tx => caller[n] >= frames[i].tx
        /\ \A l \in 1 .. Len(logs) : l > frames[i].snapshot <=> author[logs[l]] >= frames[i].tx
LocalEvents ==
    \A i \in 1 .. Len(frames) :
        /\ \A k \in 1 .. Len(frames[i].events) :
              IsLog(frames[i].events[k]) /\ author[frames[i].events[k].id] = frames[i].tx
        /\ \A l \in 1 .. Len(logs) : author[logs[l]] = frames[i].tx => Traced(frames[i].events, l)
LogInv ==
    /\ Len(logs) <= emitted
    /\ \A l \in 1 .. Len(logs) :
          /\ logs[l] <= emitted /\ author[logs[l]] \in 1 .. calls
          /\ author[logs[l]] \in Active \/ Traced(Events[author[logs[l]]], l)
EventInv ==
    \A n \in Call :
        /\ n > calls => Events[n] = <<>> /\ n \notin failed
        /\ n \notin failed => \A i \in 1 .. Len(Events[n]) :
              IsLog(Events[n][i]) /\ author[Events[n][i].id] = n
TraceInv ==
    /\ StackIsCallChain /\ FrameInv /\ LocalEvents /\ LogInv /\ EventInv
    /\ status # "running" => frames = <<>>
=============================================================================
