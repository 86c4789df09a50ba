---------------------------- MODULE MCAgentJobs ----------------------------
(***************************************************************************)
(* Instances of AgentJobs for TLC.                                         *)
(***************************************************************************)
EXTENDS AgentJobs

CONSTANTS w1, w2, s1, s2, k1, k2

\* All jobs of one conversation.
OneSession == [j \in Jobs |-> s1]
OneKey == [j \in Jobs |-> k1]

\* Two users with a conversation each, the jobs alternate between them.
TwoSessions == [j \in Jobs |-> IF j % 2 = 1 THEN s1 ELSE s2]
TwoKeys == [j \in Jobs |-> IF j % 2 = 1 THEN k1 ELSE k2]

\* Every worker coroutine runs the same code.
WorkerSymmetry == Permutations(Workers)
=============================================================================
