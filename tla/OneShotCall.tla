---------------------------- MODULE OneShotCall ----------------------------
(***************************************************************************)
(* What a caller may rely on when it calls a peer over a connection that   *)
(* can be lost: a call is opened once and ends once, and how it ended is   *)
(* never revised.  It ends "answered" only if the peer replied to it, and  *)
(* "failed" only if the connection was lost.  A connection that is lost    *)
(* stays lost.                                                             *)
(*                                                                         *)
(* pkg/extension's Bridge promises this to the callers of CallHook; module *)
(* ExtensionBridge implements it.                                          *)
(***************************************************************************)
CONSTANT Calls

VARIABLES
  outcome,   \* outcome[c]: how call c stands
  replied,   \* the calls the peer has replied to
  lost       \* the connection is gone

vars == <<outcome, replied, lost>>

Ended == {"answered", "failed", "cancelled", "timedOut"}

TypeOK ==
  /\ outcome \in [Calls -> {"none", "open"} \cup Ended]
  /\ replied \in SUBSET Calls
  /\ lost \in BOOLEAN

Init ==
  /\ outcome = [c \in Calls |-> "none"]
  /\ replied = {}
  /\ lost = FALSE

Open(c) ==
  /\ outcome[c] = "none"
  /\ outcome' = [outcome EXCEPT ![c] = "open"]
  /\ UNCHANGED <<replied, lost>>

\* A call made on a lost connection is refused at once.
Refuse(c) ==
  /\ outcome[c] = "none" /\ lost
  /\ outcome' = [outcome EXCEPT ![c] = "failed"]
  /\ UNCHANGED <<replied, lost>>

\* The peer replies once to a call it was sent, even to one given up meanwhile.
Reply(c) ==
  /\ outcome[c] # "none" /\ c \notin replied
  /\ replied' = replied \cup {c}
  /\ UNCHANGED <<outcome, lost>>

Lose ==
  /\ ~ lost
  /\ lost' = TRUE
  /\ UNCHANGED <<outcome, replied>>

End(c, how) ==
  /\ outcome[c] = "open"
  /\ how = "answered" => c \in replied
  /\ how = "failed" => lost
  /\ outcome' = [outcome EXCEPT ![c] = how]
  /\ UNCHANGED <<replied, lost>>

Next ==
  \/ Lose
  \/ \E c \in Calls :
       \/ Open(c) \/ Refuse(c) \/ Reply(c)
       \/ \E how \in Ended : End(c, how)

Spec == Init /\ [][Next]_vars
=============================================================================
