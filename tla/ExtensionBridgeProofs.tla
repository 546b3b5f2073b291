----------------------- MODULE ExtensionBridgeProofs -----------------------
(***************************************************************************)
(* Proofs that the state of ExtensionBridge is typed, that a channel is    *)
(* filled at most once and no waiter is forgotten, and that the bridge     *)
(* implements the one-shot calls of OneShotCall, for any number of calls.  *)
(***************************************************************************)
EXTENDS ExtensionBridge, SequenceTheorems, TLAPS

-----------------------------------------------------------------------------
(* Types. *)

\* A message of the pipe, and what is left when it is read.
LEMMA Reading ==
  ASSUME TypeOK, inbox # <<>>
  PROVE  Head(inbox) \in Messages /\ Tail(inbox) \in Seq(Messages)
BY HeadTailProperties DEF TypeOK

\* The extension writes messages, and writing changes nothing but the pipe.
LEMMA Sending ==
  ASSUME TypeOK, NEW msg \in Messages, Send(msg)
  PROVE  inbox' \in Seq(Messages)
BY AppendProperties DEF TypeOK, Send

\* A call's begin, also of one that runs inside another.
LEMMA BeginTyped ==
  ASSUME TypeOK, NEW c \in Calls, NEW x \in Calls \cup {None}, Begin(c, x)
  PROVE  TypeOK'
<1>1. call' \in [Calls -> {"idle", "called", "parked", "waiting"} \cup Ended]
  BY DEF TypeOK, Begin
<1>2. ctx' \in [Calls -> Calls \cup {None}]
  BY DEF TypeOK, Begin
<1>3. activeCtx' \in ToolCalls \cup {None}
  BY DEF TypeOK, Begin
<1>4. stream' \in [StreamStarts -> {"none", "active", "ended"}]
  BY DEF TypeOK, Begin, StreamBegun
<1> QED
  BY <1>1, <1>2, <1>3, <1>4
     DEF TypeOK, Begin, procVars, loopVars, routeVars, nestVars

\* The steps of a caller.
LEMMA CallerTyped ==
  ASSUME BridgeAssumption, TypeOK, NEW c \in Calls, Caller(c)
  PROVE  TypeOK'
<1> USE DEF TypeOK, procVars, loopVars, routeVars, toolVars, nestVars
<1>1. CASE Register(c)
  BY <1>1 DEF Register, Ended
<1>2. CASE Write(c)
  <2>1. left' \in [Calls -> 0 .. MaxQuiet]
    BY <1>2 DEF Write, BridgeAssumption
  <2>2. quiet' \in 0 .. MaxQuiet
    BY <1>2 DEF Write, BridgeAssumption
  <2> QED
    BY <1>2, <2>1, <2>2 DEF Write
<1>3. CASE WriteFails(c)
  BY <1>3 DEF WriteFails, Ended
<1>4. CASE Receive(c)
  <2>1. left' \in [Calls -> 0 .. MaxQuiet]
    BY <1>4 DEF Receive, BridgeAssumption
  <2> QED
    BY <1>4, <2>1 DEF Receive, Ended
<1>5. ASSUME NEW how \in Ended, GiveUp(c, how) PROVE TypeOK'
  <2>1. left' \in [Calls -> 0 .. MaxQuiet]
    BY <1>5 DEF GiveUp, BridgeAssumption
  <2> QED
    BY <1>5, <2>1 DEF GiveUp
<1>6. CASE Cancel(c)
  BY <1>5, <1>6 DEF Cancel, Ended
<1>7. CASE TimeOut(c)
  BY <1>5, <1>7 DEF TimeOut, Ended
<1>8. CASE Extend(c)
  <2>1. Timeout[c] - quiet \in 0 .. MaxQuiet
    BY <1>8 DEF Extend, BridgeAssumption
  <2>2. left' \in [Calls -> 0 .. MaxQuiet]
    BY <1>8, <2>1 DEF Extend
  <2> QED
    BY <1>8, <2>2 DEF Extend
<1>9. CASE Return(c)
  <2>1. stream' \in [StreamStarts -> {"none", "active", "ended"}]
    BY <1>9 DEF Return, StreamStarted
  <2> QED
    BY <1>9, <2>1 DEF Return
<1> QED
  BY <1>1, <1>2, <1>3, <1>4, <1>6, <1>7, <1>8, <1>9 DEF Caller

\* The steps of the reader and of Run.
LEMMA LoopTyped ==
  ASSUME BridgeAssumption, TypeOK, Reader \/ Run \/ Leave
  PROVE  TypeOK'
<1>0. 0 \in 0 .. MaxQuiet
  BY DEF BridgeAssumption
<1> USE DEF TypeOK, procVars, loopVars, routeVars, callVars, toolVars, nestVars
<1>1. CASE ReadResponse
  <2>1. Head(inbox) \in Messages /\ Tail(inbox) \in Seq(Messages)
    BY <1>1, Reading DEF ReadResponse, RouteTo, Read
  <2> DEFINE c == Head(inbox).of
  <2>2. (IF c \in pending THEN c ELSE None) \in Calls \cup {None}
    OBVIOUS
  <2>3. RouteTo(IF c \in pending THEN c ELSE None, pending \ {c})
    BY <1>1 DEF ReadResponse
  <2>4. routing' \in Calls \cup {None} /\ pending' \in SUBSET Calls
    BY <2>2, <2>3 DEF RouteTo
  <2> QED
    BY <1>0, <2>1, <2>3, <2>4 DEF RouteTo
<1>2. CASE Deliver
  BY <1>2 DEF Deliver
<1>3. CASE ReadRequest
  <2>1. Head(inbox) \in Messages /\ Tail(inbox) \in Seq(Messages)
    BY <1>3, Reading DEF ReadRequest, Read
  <2>2. nest' \in [Calls -> {"none", "sent", "dispatched", "running"}]
    BY <1>3 DEF ReadRequest
  <2> QED
    BY <1>0, <1>3, <2>1, <2>2 DEF ReadRequest
<1>4. CASE ReadNotification
  <2>1. Tail(inbox) \in Seq(Messages)
    BY <1>4, Reading DEF ReadNotification, Read
  <2>2. stream' \in [StreamStarts -> {"none", "active", "ended"}]
    BY <1>4 DEF ReadNotification, StreamEvent
  <2> QED
    BY <1>0, <1>4, <2>1, <2>2 DEF ReadNotification
<1>5. CASE ReadFails
  BY <1>5 DEF ReadFails
<1>6. CASE CloseStdin
  BY <1>6 DEF CloseStdin
<1>7. CASE FailAllPending
  BY <1>7 DEF FailAllPending
<1>8. CASE \E c \in Calls : FailOne(c)
  BY <1>8 DEF FailOne
<1>9. CASE Leave
  <2>1. stream' \in [StreamStarts -> {"none", "active", "ended"}]
    BY <1>9 DEF Leave, StreamsEnded
  <2> QED
    BY <1>9, <2>1 DEF Leave
<1> QED
  BY <1>1, <1>2, <1>3, <1>4, <1>5, <1>6, <1>7, <1>8, <1>9 DEF Reader, Run

\* What the extension asks of fir, and what it sends.
LEMMA ExtensionTyped ==
  ASSUME BridgeAssumption, TypeOK, Extension
  PROVE  TypeOK'
<1> USE DEF TypeOK, procVars, loopVars, routeVars, callVars, toolVars, nestVars
<1>1. ASSUME NEW c \in Calls, Reply(c) PROVE TypeOK'
  <2>1. [type |-> "response", of |-> c] \in Messages
    BY DEF Messages
  <2>2. inbox' \in Seq(Messages)
    BY <1>1, <2>1, Sending DEF Reply
  <2> QED
    BY <1>1, <2>2 DEF Reply, Send
<1>2. ASSUME NEW c \in Calls, NEW w \in Works, CallBack(c, w) PROVE TypeOK'
  <2>1. [type |-> "request", of |-> c] \in Messages
    BY DEF Messages
  <2>2. inbox' \in Seq(Messages)
    BY <1>2, <2>1, Sending DEF CallBack
  <2> QED
    BY <1>2, <2>2 DEF CallBack, Send
<1>3. ASSUME NEW s \in StreamStarts, EndStream(s) PROVE TypeOK'
  <2>1. [type |-> "end", of |-> s] \in Messages
    BY DEF Messages, Calls
  <2>2. inbox' \in Seq(Messages)
    BY <1>3, <2>1, Sending DEF EndStream
  <2> QED
    BY <1>3, <2>2 DEF EndStream, Send
<1>4. ASSUME NEW type \in {"chatter", "garbage"}, Say(type) PROVE TypeOK'
  <2>1. [type |-> type, of |-> None] \in Messages
    BY DEF Messages
  <2>2. inbox' \in Seq(Messages)
    BY <1>4, <2>1, Sending DEF Say
  <2> QED
    BY <1>4, <2>2 DEF Say, Send
<1>5. CASE Die
  BY <1>5 DEF Die
<1> QED
  BY <1>1, <1>2, <1>3, <1>4, <1>5 DEF Extension

\* Every step keeps the types.
LEMMA StepTyped ==
  ASSUME BridgeAssumption, TypeOK, Next
  PROVE  TypeOK'
<1>1. ASSUME NEW c \in Calls, HostCalls(c) PROVE TypeOK'
  BY <1>1, BeginTyped DEF HostCalls
<1>2. ASSUME NEW c \in Calls, Abort(c) PROVE TypeOK'
  BY <1>2 DEF TypeOK, Abort, procVars, loopVars, routeVars, callVars, nestVars
<1>3. ASSUME NEW c \in Calls, Handler(c) PROVE TypeOK'
  <2> USE DEF TypeOK, procVars, loopVars, routeVars, callVars, toolVars
  <2>1. CASE InnerCall(c)
    <3>1. inner[c] \in Calls /\ under[c] \in Calls \cup {None}
      BY <2>1 DEF InnerCall, Calls
    <3> QED
      BY <2>1, <3>1, BeginTyped DEF InnerCall
  <2>2. CASE HandleExec(c)
    BY <2>2 DEF HandleExec
  <2>3. CASE HandlerEnds(c)
    BY <2>3 DEF HandlerEnds
  <2>4. ASSUME NEW d \in ToolCalls \cup {None}, HandleCallTool(c, d) PROVE TypeOK'
    BY <2>4 DEF HandleCallTool
  <2> QED
    BY <1>3, <2>1, <2>2, <2>3, <2>4 DEF Handler
<1>4. CASE Tick
  <2>1. quiet' \in 0 .. MaxQuiet
    BY <1>4 DEF TypeOK, Tick, Passes, BridgeAssumption
  <2>2. left' \in [Calls -> 0 .. MaxQuiet]
    BY <1>4 DEF TypeOK, Tick, Passes, Elapsed, BridgeAssumption
  <2> QED
    BY <1>4, <2>1, <2>2
       DEF TypeOK, Tick, Passes, procVars, loopVars, routeVars, toolVars, nestVars
<1> QED
  BY <1>1, <1>2, <1>3, <1>4, CallerTyped, LoopTyped, ExtensionTyped DEF Next

\* The bridge starts typed.
LEMMA InitTyped == Init => TypeOK
<1>1. 0 \in 0 .. MaxQuiet
  BY BridgeAssumption DEF BridgeAssumption
<1>2. <<>> \in Seq(Messages)
  OBVIOUS
<1> SUFFICES ASSUME Init PROVE TypeOK
  OBVIOUS
<1>3. inbox \in Seq(Messages)
  BY <1>2 DEF Init
<1>4. left \in [Calls -> 0 .. MaxQuiet] /\ quiet \in 0 .. MaxQuiet
  BY <1>1 DEF Init
<1>5. /\ mailbox \in [Calls -> {"empty", "answer", "failure"}]
      /\ call \in [Calls -> {"idle", "called", "parked", "waiting"} \cup Ended]
      /\ ctx \in [Calls -> Calls \cup {None}]
      /\ nest \in [Calls -> {"none", "sent", "dispatched", "running"}]
      /\ work \in [Calls -> Works \cup {"none"}]
  BY DEF Init
<1>6. /\ under \in [Calls -> ToolCalls \cup {None}]
      /\ inner \in [Calls -> ToolCalls \cup {None}]
      /\ stream \in [StreamStarts -> {"none", "active", "ended"}]
  BY DEF Init
<1> QED
  BY <1>3, <1>4, <1>5, <1>6 DEF Init, TypeOK

\* So does a step that changes nothing.
LEMMA StutterTyped ==
  ASSUME TypeOK, UNCHANGED vars
  PROVE  TypeOK'
BY DEF TypeOK, vars, procVars, loopVars, routeVars, callVars, toolVars, nestVars

\* The state of the bridge is typed.
THEOREM TypeCorrect == Spec => []TypeOK
<1>1. Init => TypeOK
  BY InitTyped
<1>2. TypeOK /\ [Next]_vars => TypeOK'
  BY StepTyped, StutterTyped, BridgeAssumption
<1> QED
  BY <1>1, <1>2, PTL DEF Spec
-----------------------------------------------------------------------------
(* The inductive invariant. *)

\* A call at rest has nothing on the way to its channel and no request written.
AtRest(c) == call[c] \in {"idle", "called"}
RestInv ==
  /\ \A c \in pending : call[c] \in {"parked", "waiting"}
  /\ \A c \in failing \cup {routing} : c # None => ~ AtRest(c)
  /\ \A c \in Calls : mailbox[c] # "empty" => ~ AtRest(c)
  /\ \A c \in written : ~ AtRest(c)

\* A parked call's channel is in b.pending, or something is on its way to it.
ReachInv ==
  \A c \in Calls : call[c] \in {"parked", "waiting"} =>
    c \in pending \cup failing \cup {routing} \/ mailbox[c] # "empty"

\* failAllPending runs once, and nothing is parked after it.
ClosedInv ==
  /\ closed => pending = {}
  /\ ~ closed => failing = {} /\ \A c \in Calls : mailbox[c] # "failure"

\* A response that is under way was sent by the extension.
RepliedInv ==
  /\ \A k \in 1 .. Len(inbox) : inbox[k].type = "response" => inbox[k].of \in replied
  /\ routing # None => routing \in replied
  /\ \A c \in Calls : mailbox[c] = "answer" => c \in replied

IInv == TypeOK /\ DeliveredOnce /\ RestInv /\ ReachInv /\ ClosedInv /\ RepliedInv

\* What a step that touches no channel has to keep.
ChannelVars == <<pending, failing, routing, mailbox, closed, call, written, replied, inbox>>
LEMMA ChannelsUntouched ==
  ASSUME IInv, UNCHANGED ChannelVars, TypeOK'
  PROVE  IInv'
BY DEF IInv, ChannelVars, DeliveredOnce, RestInv, ReachInv, ClosedInv, RepliedInv, AtRest

\* The pipe's head was sent by the extension, and so was what is behind it.
LEMMA HeadReplied ==
  ASSUME IInv, inbox # <<>>
  PROVE  /\ Head(inbox).type = "response" => Head(inbox).of \in replied
         /\ \A k \in 1 .. Len(Tail(inbox)) :
              Tail(inbox)[k].type = "response" => Tail(inbox)[k].of \in replied
<1>1. inbox \in Seq(Messages)
  BY DEF IInv, TypeOK
<1>2. Len(inbox) \in Nat /\ Len(inbox) >= 1 /\ Head(inbox) = inbox[1]
  BY <1>1
<1>3. Len(Tail(inbox)) = Len(inbox) - 1
  BY <1>1
<1>4. \A k \in 1 .. Len(Tail(inbox)) : Tail(inbox)[k] = inbox[k + 1] /\ k + 1 \in 1 .. Len(inbox)
  BY <1>1, <1>2, <1>3
<1> QED
  BY <1>2, <1>4 DEF IInv, RepliedInv

\* A caller's steps keep the invariant.
LEMMA CallerKeeps ==
  ASSUME BridgeAssumption, IInv, TypeOK', NEW c \in Calls, Caller(c)
  PROVE  IInv'
<1> USE DEF IInv, TypeOK, DeliveredOnce, RestInv, ReachInv, ClosedInv, RepliedInv, AtRest,
            procVars, loopVars, routeVars, toolVars, nestVars
<1>0. None \notin Calls
  BY DEF BridgeAssumption
<1>1. CASE Register(c)
  <2>1. CASE closed
    <3>1. call' = [call EXCEPT ![c] = "failed"] /\ pending' = {} /\ pending = {}
      BY <1>1, <2>1 DEF Register
    <3>2. UNCHANGED <<failing, routing, mailbox, closed, written, replied, inbox>>
      BY <1>1 DEF Register
    <3>3. RestInv' /\ ReachInv'
      BY <1>0, <3>1, <3>2
    <3> QED
      BY <3>1, <3>2, <3>3
  <2>2. CASE ~ closed
    <3>1. /\ call[c] = "called" /\ call' = [call EXCEPT ![c] = "parked"]
          /\ pending' = pending \cup {c}
      BY <1>1, <2>2 DEF Register
    <3>2. UNCHANGED <<failing, routing, mailbox, closed, written, replied, inbox>>
      BY <1>1 DEF Register
    <3>3. DeliveredOnce'
      BY <1>0, <3>1, <3>2
    <3>4. RestInv' /\ ReachInv'
      BY <1>0, <3>1, <3>2
    <3> QED
      BY <2>2, <3>1, <3>2, <3>3, <3>4
  <2> QED
    BY <2>1, <2>2
<1>2. CASE Write(c)
  BY <1>0, <1>2 DEF Write
<1>3. CASE WriteFails(c)
  BY <1>0, <1>3 DEF WriteFails
<1>4. CASE Receive(c)
  BY <1>0, <1>4 DEF Receive
<1>5. CASE Cancel(c)
  BY <1>0, <1>5 DEF Cancel, GiveUp
<1>6. CASE TimeOut(c)
  BY <1>0, <1>6 DEF TimeOut, TimerRuns, GiveUp
<1>7. CASE Extend(c)
  BY <1>7, ChannelsUntouched DEF Extend, ChannelVars
<1>8. CASE Return(c)
  BY <1>8, ChannelsUntouched DEF Return, ChannelVars, callVars
<1> QED
  BY <1>1, <1>2, <1>3, <1>4, <1>5, <1>6, <1>7, <1>8 DEF Caller

\* The reader's and Run's steps keep the invariant.
LEMMA LoopKeeps ==
  ASSUME BridgeAssumption, IInv, TypeOK', Reader \/ Run \/ Leave
  PROVE  IInv'
<1> USE DEF IInv, TypeOK, DeliveredOnce, RestInv, ReachInv, ClosedInv, RepliedInv, AtRest,
            procVars, loopVars, routeVars, callVars, toolVars, nestVars
<1>0. None \notin Calls
  BY DEF BridgeAssumption
<1>1. ASSUME Read("response") \/ Read("request") \/ Read("chatter") \/ Read("end"),
             inbox' = Tail(inbox), replied' = replied
      PROVE  \A k \in 1 .. Len(inbox)' : inbox'[k].type = "response" => inbox'[k].of \in replied'
  BY <1>1, HeadReplied DEF Read
<1>2. CASE ReadResponse
  <2> DEFINE c == Head(inbox).of
  <2>1. c \in replied
    BY <1>2, HeadReplied DEF ReadResponse, RouteTo, Read
  <2>2. /\ routing = None /\ routing' = (IF c \in pending THEN c ELSE None)
        /\ pending' = pending \ {c} /\ inbox' = Tail(inbox) /\ Read("response")
        /\ UNCHANGED <<failing, mailbox, closed, call, written, replied>>
    BY <1>2 DEF ReadResponse, RouteTo, Read
  <2>3. RepliedInv'
    BY <1>1, <2>1, <2>2
  <2> HIDE DEF c
  <2>4. CASE c \in pending
    <3>1. routing' = c /\ c # None
      BY <1>0, <2>2, <2>4
    <3>2. DeliveredOnce'
      BY <2>2, <2>4, <3>1
    <3>3. RestInv'
      BY <2>2, <2>4, <3>1
    <3> QED
      BY <2>2, <2>3, <2>4, <3>1, <3>2, <3>3
  <2>5. CASE c \notin pending
    BY <1>0, <2>2, <2>3, <2>5
  <2> QED
    BY <2>4, <2>5
<1>3. CASE Deliver
  BY <1>0, <1>3 DEF Deliver
<1>4. CASE ReadRequest \/ ReadNotification
  <2>1. RepliedInv'
    BY <1>1, <1>4 DEF ReadRequest, ReadNotification
  <2> QED
    BY <1>4, <2>1 DEF ReadRequest, ReadNotification
<1>5. CASE ReadFails \/ CloseStdin \/ Leave
  BY <1>5, ChannelsUntouched DEF ReadFails, CloseStdin, Leave, ChannelVars
<1>6. CASE FailAllPending
  BY <1>0, <1>6 DEF FailAllPending
<1>7. ASSUME NEW c \in Calls, FailOne(c) PROVE IInv'
  BY <1>0, <1>7 DEF FailOne
<1> QED
  BY <1>2, <1>3, <1>4, <1>5, <1>6, <1>7 DEF Reader, Run

\* The extension's steps keep the invariant.
LEMMA ExtensionKeeps ==
  ASSUME BridgeAssumption, IInv, TypeOK', Extension
  PROVE  IInv'
<1> USE DEF procVars, loopVars, routeVars, callVars, toolVars, nestVars
<1>1. ASSUME NEW msg \in Messages, Send(msg), UNCHANGED replied \/ replied' = replied \cup {msg.of},
             msg.type = "response" => msg.of \in replied'
      PROVE  IInv'
  <2>1. inbox' = Append(inbox, msg) /\ inbox \in Seq(Messages)
    BY <1>1 DEF Send, IInv, TypeOK
  <2>2. \A k \in 1 .. Len(inbox)' : inbox'[k] = IF k = Len(inbox) + 1 THEN msg ELSE inbox[k]
    BY <2>1
  <2>3. \A k \in 1 .. Len(inbox)' : k # Len(inbox) + 1 => k \in 1 .. Len(inbox)
    BY <2>1
  <2>4. \A k \in 1 .. Len(inbox)' : inbox'[k].type = "response" => inbox'[k].of \in replied'
    BY <1>1, <2>2, <2>3 DEF IInv, RepliedInv
  <2> QED
    BY <1>1, <2>4 DEF Send, IInv, DeliveredOnce, RestInv, ReachInv, ClosedInv, RepliedInv, AtRest
<1>2. ASSUME NEW c \in Calls, Reply(c) PROVE IInv'
  <2>1. [type |-> "response", of |-> c] \in Messages
    BY DEF Messages
  <2> QED
    BY <1>1, <1>2, <2>1 DEF Reply
<1>3. ASSUME NEW c \in Calls, NEW w \in Works, CallBack(c, w) PROVE IInv'
  <2>1. [type |-> "request", of |-> c] \in Messages
    BY DEF Messages
  <2> QED
    BY <1>1, <1>3, <2>1 DEF CallBack
<1>4. ASSUME NEW s \in StreamStarts, EndStream(s) PROVE IInv'
  <2>1. [type |-> "end", of |-> s] \in Messages
    BY DEF Messages, Calls
  <2> QED
    BY <1>1, <1>4, <2>1 DEF EndStream
<1>5. ASSUME NEW type \in {"chatter", "garbage"}, Say(type) PROVE IInv'
  <2>1. [type |-> type, of |-> None] \in Messages
    BY DEF Messages
  <2> QED
    BY <1>1, <1>5, <2>1 DEF Say
<1>6. CASE Die
  BY <1>6, ChannelsUntouched DEF Die, ChannelVars
<1> QED
  BY <1>2, <1>3, <1>4, <1>5, <1>6 DEF Extension

\* The call begins: nothing of it is under way yet.
LEMMA BeginKeeps ==
  ASSUME BridgeAssumption, IInv, TypeOK', NEW c \in Calls, NEW x, Begin(c, x)
  PROVE  IInv'
BY DEF Begin, IInv, TypeOK, DeliveredOnce, RestInv, ReachInv, ClosedInv, RepliedInv, AtRest,
       BridgeAssumption, procVars, loopVars, routeVars, nestVars

\* Every step keeps the invariant.
LEMMA StepKeeps ==
  ASSUME BridgeAssumption, IInv, Next
  PROVE  IInv'
<1>0. TypeOK'
  BY StepTyped DEF IInv
<1>1. ASSUME NEW c \in Calls, HostCalls(c) PROVE IInv'
  BY <1>0, <1>1, BeginKeeps DEF HostCalls
<1>2. ASSUME NEW c \in Calls, Abort(c) PROVE IInv'
  BY <1>0, <1>2, ChannelsUntouched DEF Abort, ChannelVars, procVars, routeVars, callVars
<1>3. ASSUME NEW c \in Calls, Handler(c) PROVE IInv'
  <2>1. CASE InnerCall(c)
    <3>1. inner[c] \in Calls
      BY <2>1 DEF InnerCall, Calls, IInv, TypeOK
    <3> QED
      BY <1>0, <2>1, <3>1, BeginKeeps DEF InnerCall
  <2>2. CASE HandleExec(c) \/ HandlerEnds(c)
    BY <1>0, <2>2, ChannelsUntouched
       DEF HandleExec, HandlerEnds, ChannelVars, procVars, routeVars, callVars
  <2>3. ASSUME NEW d \in ToolCalls \cup {None}, HandleCallTool(c, d) PROVE IInv'
    BY <1>0, <2>3, ChannelsUntouched
       DEF HandleCallTool, ChannelVars, procVars, routeVars, callVars
  <2> QED
    BY <1>3, <2>1, <2>2, <2>3 DEF Handler
<1>4. CASE Tick
  BY <1>0, <1>4, ChannelsUntouched DEF Tick, Passes, ChannelVars, procVars, routeVars
<1> QED
  BY <1>0, <1>1, <1>2, <1>3, <1>4, CallerKeeps, LoopKeeps, ExtensionKeeps DEF Next

\* The invariant holds throughout.
THEOREM Invariance == Spec => []IInv
<1>1. Init => IInv
  <2> SUFFICES ASSUME Init PROVE IInv
    OBVIOUS
  <2>1. TypeOK
    BY InitTyped
  <2>2. None \notin Calls
    BY BridgeAssumption DEF BridgeAssumption
  <2> QED
    BY <2>1, <2>2
       DEF Init, IInv, DeliveredOnce, RestInv, ReachInv, ClosedInv, RepliedInv, AtRest
<1>2. IInv /\ [Next]_vars => IInv'
  <2> SUFFICES ASSUME IInv, [Next]_vars PROVE IInv'
    OBVIOUS
  <2>1. CASE UNCHANGED vars
    <3>1. TypeOK'
      BY <2>1, StutterTyped DEF IInv
    <3> QED
      BY <2>1, <3>1, ChannelsUntouched
         DEF vars, ChannelVars, procVars, routeVars, callVars
  <2> QED
    BY <2>1, StepKeeps, BridgeAssumption
<1> QED
  BY <1>1, <1>2, PTL DEF Spec

\* No channel is ever filled twice: a call is in one of the places it can be
\* at most, so the sends of the reader and of failAllPending never block.
THEOREM NeverDeliveredTwice == Spec => []DeliveredOnce
BY Invariance, PTL DEF IInv

\* A caller that waits can be reached by a response or by the end of the loop.
THEOREM NobodyForgotten == Spec => []WaiterReachable
<1>1. IInv => WaiterReachable
  BY DEF IInv, ReachInv, ClosedInv, WaiterReachable
<1> QED
  BY <1>1, Invariance, PTL

\* Whoever waits is told, by one: the property the runs check.
THEOREM EveryWaiterToldOnce == Spec => []WaitersToldOnce
BY NeverDeliveredTwice, NobodyForgotten, PTL DEF WaitersToldOnce

-----------------------------------------------------------------------------
(* The bridge implements one-shot calls. *)

\* What OneShotCall sees of a step: nothing.
Unseen == UNCHANGED <<Outcome, replied, LinkLost>>

LEMMA OutcomeOf ==
  ASSUME NEW c \in Calls
  PROVE  /\ call[c] \in {"idle", "called"} => Outcome[c] = "none"
         /\ call[c] \in {"parked", "waiting"} => Outcome[c] = "open"
         /\ call[c] \in Ended => Outcome[c] = call[c]
BY DEF Outcome, Ended

LEMMA OutcomeOfNext ==
  ASSUME NEW c \in Calls
  PROVE  /\ call'[c] \in {"idle", "called"} => Outcome'[c] = "none"
         /\ call'[c] \in {"parked", "waiting"} => Outcome'[c] = "open"
         /\ call'[c] \in Ended => Outcome'[c] = call'[c]
BY DEF Outcome, Ended

\* One call's step is one call's step of the outcomes.
LEMMA OutcomeStep ==
  ASSUME TypeOK, NEW c \in Calls, NEW s, call' = [call EXCEPT ![c] = s]
  PROVE  Outcome' = [Outcome EXCEPT ![c] = Outcome'[c]]
BY DEF TypeOK, Outcome

\* A call ends as its step says.
LEMMA Ends ==
  ASSUME TypeOK, NEW c \in Calls, NEW how \in Ended,
         call[c] \in {"parked", "waiting"}, call' = [call EXCEPT ![c] = how],
         how = "answered" => c \in replied, how = "failed" => LinkLost,
         UNCHANGED <<replied, LinkLost>>
  PROVE  OneShot!Next
<1>1. Outcome[c] = "open" /\ call'[c] = how
  BY OutcomeOf DEF TypeOK
<1>2. Outcome'[c] = how
  BY <1>1, OutcomeOfNext
<1>3. Outcome' = [Outcome EXCEPT ![c] = how]
  BY <1>2, OutcomeStep
<1>4. OneShot!End(c, how)
  BY <1>1, <1>3 DEF OneShot!End
<1>5. how \in OneShot!Ended
  BY DEF Ended, OneShot!Ended
<1> QED
  BY <1>4, <1>5 DEF OneShot!Next

\* The connection goes, or was gone already.
LEMMA Loses ==
  ASSUME UNCHANGED <<call, replied>>, LinkLost => LinkLost'
  PROVE  OneShot!Next \/ Unseen
<1>1. Outcome' = Outcome
  BY DEF Outcome
<1> QED
  BY <1>1 DEF OneShot!Next, OneShot!Lose, Unseen, LinkLost

\* A caller's step opens, refuses or ends its call, or is not seen.
LEMMA CallerImplements ==
  ASSUME IInv, NEW c \in Calls, Caller(c)
  PROVE  OneShot!Next \/ Unseen
<1>0. TypeOK
  BY DEF IInv
<1>1. CASE Register(c)
  <2>1. call[c] = "called" /\ Outcome[c] = "none" /\ UNCHANGED <<replied, LinkLost>>
    BY <1>1, OutcomeOf DEF Register, procVars, LinkLost
  <2>2. CASE closed
    <3>1. call' = [call EXCEPT ![c] = "failed"] /\ LinkLost
      BY <1>1, <2>2 DEF Register, LinkLost
    <3>2. Outcome'[c] = "failed"
      BY <1>0, <3>1, OutcomeOfNext DEF TypeOK, Ended
    <3>3. Outcome' = [Outcome EXCEPT ![c] = "failed"]
      BY <1>0, <3>1, <3>2, OutcomeStep
    <3> QED
      BY <2>1, <3>1, <3>3 DEF OneShot!Next, OneShot!Refuse
  <2>3. CASE ~ closed
    <3>1. call' = [call EXCEPT ![c] = "parked"]
      BY <1>1, <2>3 DEF Register
    <3>2. Outcome'[c] = "open"
      BY <1>0, <3>1, OutcomeOfNext DEF TypeOK
    <3>3. Outcome' = [Outcome EXCEPT ![c] = "open"]
      BY <1>0, <3>1, <3>2, OutcomeStep
    <3> QED
      BY <2>1, <3>3 DEF OneShot!Next, OneShot!Open
  <2> QED
    BY <2>2, <2>3
<1>2. CASE Write(c)
  <2>1. call[c] = "parked" /\ call' = [call EXCEPT ![c] = "waiting"]
    BY <1>2 DEF Write
  <2>2. Outcome[c] = "open" /\ Outcome'[c] = "open"
    BY <1>0, <2>1, OutcomeOf, OutcomeOfNext DEF TypeOK
  <2>3. Outcome' = Outcome
    BY <1>0, <2>1, <2>2, OutcomeStep DEF Outcome
  <2> QED
    BY <1>2, <2>3 DEF Write, Unseen, LinkLost, routeVars
<1>3. CASE WriteFails(c)
  BY <1>0, <1>3, Ends DEF WriteFails, procVars, LinkLost, Ended
<1>4. CASE Receive(c)
  <2>1. CASE mailbox[c] = "answer"
    BY <1>0, <1>4, <2>1, Ends DEF Receive, procVars, LinkLost, Ended, IInv, RepliedInv
  <2>2. CASE mailbox[c] = "failure"
    BY <1>0, <1>4, <2>2, Ends DEF Receive, procVars, LinkLost, Ended, IInv, ClosedInv
  <2> QED
    BY <1>0, <1>4, <2>1, <2>2 DEF Receive, TypeOK
<1>5. CASE Cancel(c)
  BY <1>0, <1>5, Ends DEF Cancel, GiveUp, procVars, LinkLost, Ended
<1>6. CASE TimeOut(c)
  BY <1>0, <1>6, Ends DEF TimeOut, TimerRuns, GiveUp, procVars, LinkLost, Ended
<1>7. CASE Extend(c) \/ Return(c)
  BY <1>7 DEF Extend, Return, Unseen, Outcome, LinkLost, procVars, routeVars
<1> QED
  BY <1>1, <1>2, <1>3, <1>4, <1>5, <1>6, <1>7 DEF Caller

\* Every step is a step of OneShotCall, or is not seen.
LEMMA StepImplements ==
  ASSUME IInv, Next
  PROVE  OneShot!Next \/ Unseen
<1> USE DEF procVars, loopVars, routeVars, callVars, toolVars, nestVars
<1>0. TypeOK
  BY DEF IInv
<1>1. ASSUME NEW c \in Calls, NEW x, Begin(c, x) PROVE Unseen
  <2>1. call[c] = "idle" /\ call' = [call EXCEPT ![c] = "called"]
    BY <1>1 DEF Begin
  <2>2. Outcome[c] = "none" /\ Outcome'[c] = "none"
    BY <1>0, <2>1, OutcomeOf, OutcomeOfNext DEF TypeOK
  <2>3. Outcome' = Outcome
    BY <1>0, <2>1, <2>2, OutcomeStep DEF Outcome
  <2> QED
    BY <1>1, <2>3 DEF Begin, Unseen, LinkLost
<1>2. ASSUME NEW c \in Calls, HostCalls(c) PROVE Unseen
  BY <1>1, <1>2 DEF HostCalls
<1>3. ASSUME NEW c \in Calls, Abort(c) PROVE Unseen
  BY <1>3 DEF Abort, Unseen, Outcome, LinkLost
<1>4. ASSUME NEW c \in Calls, Handler(c) PROVE Unseen
  <2>1. CASE InnerCall(c)
    <3>1. inner[c] \in Calls
      BY <1>0, <2>1 DEF InnerCall, Calls, TypeOK
    <3> QED
      BY <1>1, <2>1, <3>1 DEF InnerCall
  <2>2. CASE HandleExec(c) \/ HandlerEnds(c)
    BY <2>2 DEF HandleExec, HandlerEnds, Unseen, Outcome, LinkLost
  <2>3. ASSUME NEW d \in ToolCalls \cup {None}, HandleCallTool(c, d) PROVE Unseen
    BY <2>3 DEF HandleCallTool, Unseen, Outcome, LinkLost
  <2> QED
    BY <1>4, <2>1, <2>2, <2>3 DEF Handler
<1>5. CASE Reader
  <2>1. UNCHANGED <<call, replied, alive, stdin, closed>>
    BY <1>5 DEF Reader, ReadResponse, RouteTo, Deliver, ReadRequest, ReadNotification, ReadFails
  <2> QED
    BY <2>1 DEF Unseen, Outcome, LinkLost
<1>6. CASE CloseStdin \/ FailAllPending \/ Die
  <2>1. UNCHANGED <<call, replied>> /\ (LinkLost => LinkLost')
    BY <1>6 DEF CloseStdin, FailAllPending, Die, LinkLost
  <2> QED
    BY <2>1, Loses
<1>7. ASSUME NEW c \in Calls, FailOne(c) PROVE Unseen
  BY <1>7 DEF FailOne, Unseen, Outcome, LinkLost
<1>8. CASE Leave \/ Tick
  BY <1>8 DEF Leave, Tick, Passes, Unseen, Outcome, LinkLost
<1>9. ASSUME NEW c \in Calls, Reply(c) PROVE OneShot!Next
  <2>1. /\ c \in written \ replied /\ replied' = replied \cup {c}
        /\ UNCHANGED <<call, alive, stdin, closed>>
    BY <1>9 DEF Reply, Send
  <2>2. Outcome[c] # "none"
    BY <1>0, <2>1, OutcomeOf DEF IInv, RestInv, AtRest, TypeOK, Ended
  <2>3. OneShot!Reply(c)
    BY <2>1, <2>2 DEF OneShot!Reply, Outcome, LinkLost
  <2> QED
    BY <2>3 DEF OneShot!Next
<1>10. ASSUME NEW msg, Send(msg), UNCHANGED replied PROVE Unseen
  BY <1>10 DEF Send, Unseen, Outcome, LinkLost
<1>11. CASE Extension
  BY <1>6, <1>9, <1>10, <1>11 DEF Extension, CallBack, EndStream, Say
<1> QED
  BY <1>2, <1>3, <1>4, <1>5, <1>6, <1>7, <1>8, <1>11, CallerImplements DEF Next, Run

\* The bridge keeps what OneShotCall promises to the callers of CallHook.
THEOREM Refinement == Spec => ImplementsOneShot
<1>1. Init => OneShot!Init
  BY DEF Init, OneShot!Init, Outcome, LinkLost
<1>2. IInv /\ [Next]_vars => [OneShot!Next]_(OneShot!vars)
  <2>1. CASE UNCHANGED vars
    BY <2>1 DEF vars, procVars, routeVars, callVars, OneShot!vars, Outcome, LinkLost
  <2>2. CASE Next /\ IInv
    BY <2>2, StepImplements DEF Unseen, OneShot!vars
  <2> QED
    BY <2>1, <2>2
<1> QED
  BY <1>1, <1>2, Invariance, PTL DEF Spec, OneShot!Spec, ImplementsOneShot
-----------------------------------------------------------------------------
(* Work of fir's own counts as hearing the extension. *)

\* From the moment the reader has a request until its call_tool is answered the
\* extension has been heard within the tick.
HeardInv == (Working \/ \E c \in Calls : nest[c] = "dispatched") => quiet = 0

\* A step that starts no work and hears nothing moves no clock.
LEMMA SilentKeeps ==
  ASSUME HeardInv, UNCHANGED <<nest, work>>, quiet' = quiet \/ quiet' = 0
  PROVE  HeardInv'
BY DEF HeardInv, Working

LEMMA StepHeard ==
  ASSUME TypeOK, HeardInv, Next
  PROVE  HeardInv'
<1> USE DEF procVars, loopVars, routeVars, callVars, toolVars, nestVars
<1>1. ASSUME NEW c \in Calls, HostCalls(c) \/ Abort(c) PROVE HeardInv'
  BY <1>1, SilentKeeps DEF HostCalls, Begin, Abort
<1>2. ASSUME NEW c \in Calls, Caller(c) PROVE HeardInv'
  BY <1>2, SilentKeeps
     DEF Caller, Register, Write, WriteFails, Receive, Cancel, Extend, TimeOut, Return, GiveUp
<1>3. ASSUME NEW c \in Calls, Handler(c) PROVE HeardInv'
  <2>1. CASE InnerCall(c)
    BY <2>1, SilentKeeps DEF InnerCall, Begin
  <2>2. CASE HandlerEnds(c)
    BY <2>2 DEF HandlerEnds, HeardInv, Working, TypeOK
  <2>3. CASE HandleExec(c) \/ \E d \in (ToolCalls \ {c}) \cup {None} : HandleCallTool(c, d)
    <3>1. /\ nest[c] = "dispatched" /\ nest' = [nest EXCEPT ![c] = "running"]
          /\ UNCHANGED <<work, quiet>>
      BY <2>3 DEF HandleExec, HandleCallTool
    <3> QED
      BY <3>1 DEF HeardInv
  <2> QED
    BY <1>3, <2>1, <2>2, <2>3 DEF Handler
<1>4. CASE Reader
  <2>1. CASE ReadRequest
    BY <2>1 DEF ReadRequest, HeardInv
  <2>2. CASE ReadResponse \/ Deliver \/ ReadNotification \/ ReadFails
    BY <2>2, SilentKeeps DEF ReadResponse, RouteTo, Deliver, ReadNotification, ReadFails
  <2> QED
    BY <1>4, <2>1, <2>2 DEF Reader
<1>5. CASE Run \/ Leave
  BY <1>5, SilentKeeps DEF Run, CloseStdin, FailAllPending, FailOne, Leave
<1>6. CASE Extension
  <2>1. ASSUME NEW c \in Calls, NEW w \in Works, CallBack(c, w) PROVE HeardInv'
    BY <2>1 DEF CallBack, Send, HeardInv, Working, TypeOK
  <2>2. ASSUME UNCHANGED <<nest, work, quiet>> PROVE HeardInv'
    BY <2>2, SilentKeeps
  <2> QED
    BY <1>6, <2>1, <2>2 DEF Extension, Reply, EndStream, Say, Send, Die
<1>7. CASE Tick
  BY <1>7 DEF Tick, Passes, HeardInv, Working
<1> QED
  BY <1>1, <1>2, <1>3, <1>4, <1>5, <1>6, <1>7 DEF Next

\* CallHook: "an extension that stays busy ... is never clipped mid-work": a call
\* times out only after a tick without a word, and there is none while fir works.
THEOREM BusyIsNotClipped == Spec => NotClippedMidWork
<1>1. Init => HeardInv
  BY DEF Init, HeardInv
<1>2. TypeOK /\ HeardInv /\ [Next]_vars => HeardInv'
  <2>1. ASSUME HeardInv, UNCHANGED vars PROVE HeardInv'
    BY <2>1 DEF HeardInv, Working, vars, nestVars
  <2> QED
    BY <2>1, StepHeard
<1>3. TypeOK /\ HeardInv /\ [Next]_vars
        => \A c \in Calls : call[c] # "timedOut" /\ call'[c] = "timedOut" => ~ Working
  <2> SUFFICES ASSUME TypeOK, HeardInv, [Next]_vars, NEW c \in Calls,
                      call[c] # "timedOut", call'[c] = "timedOut"
               PROVE  ~ Working
    OBVIOUS
  <2>1. TimeOut(c)
    <3> USE DEF procVars, loopVars, routeVars, callVars, toolVars, nestVars
    <3>1. call' # call
      OBVIOUS
    <3>2. PICK d \in Calls : Caller(d) \/ HostCalls(d) \/ InnerCall(d)
      BY <3>1 DEF vars, Next, Abort, Handler, HandleCallTool, HandleExec, HandlerEnds, Reader,
         ReadResponse, RouteTo, Deliver, ReadRequest, ReadNotification, ReadFails, Run,
         CloseStdin, FailAllPending, FailOne, Leave, Extension, Reply, CallBack, EndStream, Say,
         Send, Die, Tick, Passes
    <3>3. ASSUME NEW e, NEW x, Begin(e, x) PROVE FALSE
      BY <3>3 DEF Begin, TypeOK
    <3>4. Caller(d)
      BY <3>2, <3>3 DEF HostCalls, InnerCall
    <3> QED
      BY <3>4 DEF Caller, Register, Write, WriteFails, Receive, Cancel, Extend, TimeOut, Return,
         GiveUp, TypeOK
  <2>2. Timeout[c] > 0 /\ quiet >= Timeout[c] /\ Timeout[c] \in Nat
    BY <2>1, BridgeAssumption DEF TimeOut, TimerRuns, BridgeAssumption
  <2> QED
    BY <2>2 DEF HeardInv, TypeOK
<1> QED
  BY <1>1, <1>2, <1>3, TypeCorrect, PTL DEF Spec, NotClippedMidWork
=============================================================================
