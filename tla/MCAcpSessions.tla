--------------------------- MODULE MCAcpSessions ---------------------------
EXTENDS AcpSessions, TLC

\* Prompts are alike, and so are firSessions and the paths of new transcripts.
Symmetry ==
  UNION {{f @@ g @@ h : f \in Permutations(Prompts), g \in Permutations(Entry)}
           : h \in Permutations(Transcript \ {First})}

\* Bound: a history with a race goes on in one server, with no other process.
RacedInOneServer ==
  raced => /\ crashes = 0 /\ pc[Closer] = "idle"
           /\ \A t \in Transcript : holder[t] # Outsider
=============================================================================
