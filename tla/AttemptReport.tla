---------------------------- MODULE AttemptReport ----------------------------
(***************************************************************************)
(* What an attempt promises to the worker that makes it: it spawns one     *)
(* agent and reports turns, each with its start before its end, one at a   *)
(* time and none after one that did not complete; and it returns once,     *)
(* with a result that agrees with what it reported, when its agent is gone *)
(* or, if the worker was aborted, told to go.                              *)
(***************************************************************************)
EXTENDS Naturals

CONSTANT MaxTurns

VARIABLES
    started,    \* turns reported as started
    completed,  \* turns reported as completed
    agent,      \* "none", "running", "killed", "ended"
    result      \* what the attempt returned, "none" while it goes on

reportVars == <<started, completed, agent, result>>

Broken == {"failed", "cancelled", "input"}

ReportInit == started = 0 /\ completed = 0 /\ agent = "none" /\ result = "none"

Spawn ==
    /\ agent = "none" /\ result = "none"
    /\ agent' = "running"
    /\ UNCHANGED <<started, completed, result>>

TellStarted ==
    /\ result = "none" /\ agent # "none"
    /\ started = completed /\ started < MaxTurns
    /\ started' = started + 1
    /\ UNCHANGED <<completed, agent, result>>

TellCompleted ==
    /\ result = "none" /\ started = completed + 1
    /\ completed' = completed + 1
    /\ UNCHANGED <<started, agent, result>>

Kill ==
    /\ agent = "running" /\ result = "none"
    /\ agent' = "killed"
    /\ UNCHANGED <<started, completed, result>>

AgentEnds ==
    /\ agent \in {"running", "killed"}
    /\ agent' = "ended"
    /\ UNCHANGED <<started, completed, result>>

\* An attempt that never had an agent can only fail.
Return(o) ==
    /\ result = "none"
    /\ agent = "ended" \/ (agent = "none" /\ o = "error")
    /\ o = "completed" => completed = started /\ completed > 0
    /\ o \in Broken => started = completed + 1
    /\ result' = o
    /\ UNCHANGED <<started, completed, agent>>

Aborted ==
    /\ result = "none" /\ agent # "none"
    /\ result' = "aborted"
    /\ agent' = IF agent = "running" THEN "killed" ELSE agent
    /\ UNCHANGED <<started, completed>>

ReportNext == \/ Spawn \/ TellStarted \/ TellCompleted \/ Kill \/ AgentEnds \/ Aborted
              \/ \E o \in Broken \cup {"completed", "error"} : Return(o)

ReportSpec == ReportInit /\ [][ReportNext]_reportVars
=============================================================================
