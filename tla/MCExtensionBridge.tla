------------------------- MODULE MCExtensionBridge -------------------------
EXTENDS ExtensionBridge, TLC

CONSTANTS t1, t2, e1, s1

\* One tool with a deadline, one without; an event and a stream with one.
Deadlines == t1 :> 1 @@ t2 :> 0 @@ e1 :> 1 @@ s1 :> 1
CallDeadlines == [c \in ToolCalls \cup EventAcks \cup StreamStarts |-> Deadlines[c]]
=============================================================================
