---------------------------- MODULE PromptQueue ----------------------------
(***************************************************************************)
(* What a run's prompt queue promises, without connections, drains or      *)
(* statuses: prompts are numbered in the order they are submitted, they    *)
(* are taken oldest first and one at a time, a taken prompt is closed      *)
(* exactly once, and only a restart of the service puts a taken prompt     *)
(* back.  AgentLoop implements this specification.                         *)
(***************************************************************************)
EXTENDS Integers

CONSTANT Prompts    \* the numbers prompts may get, in submission order

VARIABLES
  prompt,           \* prompt[p]: "absent", "queued", "running" or "closed"
  submitted         \* the number of the latest prompt submitted

queueVars == <<prompt, submitted>>

PromptState == {"absent", "queued", "running", "closed"}

QueueInit ==
  /\ prompt = [p \in Prompts |-> "absent"]
  /\ submitted = 0

Queued  == {p \in Prompts : prompt[p] = "queued"}
Running == {p \in Prompts : prompt[p] = "running"}

Submit ==
  /\ submitted + 1 \in Prompts
  /\ submitted' = submitted + 1
  /\ prompt' = [prompt EXCEPT ![submitted + 1] = "queued"]

Take(p) ==
  /\ Running = {}
  /\ p \in Queued
  /\ \A q \in Queued : p <= q
  /\ prompt' = [prompt EXCEPT ![p] = "running"]
  /\ UNCHANGED submitted

Close(p) ==
  /\ p \in Running
  /\ prompt' = [prompt EXCEPT ![p] = "closed"]
  /\ UNCHANGED submitted

Restart ==
  /\ prompt' = [p \in Prompts |-> IF p \in Running THEN "queued" ELSE prompt[p]]
  /\ UNCHANGED submitted

QueueNext ==
  \/ Submit
  \/ \E p \in Prompts : Take(p) \/ Close(p)
  \/ Restart

QueueSpec == QueueInit /\ [][QueueNext]_queueVars
=============================================================================
