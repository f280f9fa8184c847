---------------------------- MODULE AgentAttempt ----------------------------
(***************************************************************************)
(* One instance of the legacy agent lane (external_agent_adapter.py,       *)
(* run_external_agent_instance): an agent CLI is given its own output      *)
(* directory; what it prints is captured beside that directory, checked,   *)
(* and never scored.                                                       *)
(***************************************************************************)
EXTENDS AttemptFrame

AgentDirs   == {"instance", "capture"}
AgentThings == AgentDirs \cup {"logs", "failure_log"}

\* Version 0 of a directory is a link or a file in its place.
AgentVersions ==
    {v \in [AgentThings -> {Absent, 0, Pinned}] :
        /\ v["logs"] = Absent /\ v["failure_log"] = Absent
        /\ \A d \in AgentDirs : v[d] # Absent}

AgentQuiet == UNCHANGED <<lane, seen, disturbs, spent, truth>>

\* _open_instance_dir_fd, _open_capture_dir_fd: both or none.
AgentPin ==
    /\ At("agent", "start")
    /\ IF Genuine(AgentDirs) THEN Pin(AgentDirs) /\ Goto("command")
                             ELSE Stop("refused", 0) /\ UNCHANGED cap
    /\ UNCHANGED <<ver, found>> /\ AgentQuiet

\* build_external_agent_command: only the CLI of an external agent.
AgentCommand ==
    /\ At("agent", "command")
    /\ Goto("launch") \/ Stop("refused", 0)
    /\ UNCHANGED <<ver, cap, found>> /\ AgentQuiet

AgentLaunch ==
    /\ At("agent", "launch")
    /\ Use({"instance"}) /\ Goto("running")
    /\ UNCHANGED <<lane, ver, cap, disturbs, spent, truth, found>>

\* The agent ends; where its output directory has been swapped it writes there.
AgentFinish ==
    /\ At("agent", "running")
    /\ truth' \in [kind : {"ran"}, rc : {0, 1}]
    /\ spent' \in 1..Wall
    /\ Goto("write")
    /\ UNCHANGED <<lane, things, found>>

\* The failure path of the attempt: what happened is logged in the capture
\* directory, opened again by its path, when that is not a link.
AgentFail(label, latency) ==
    /\ Stop(label, latency)
    /\ \/ ver["capture"] # Absent /\ ver' = [ver EXCEPT !["failure_log"] = Pinned]
       \/ UNCHANGED ver

\* _default_process_runner
AgentCut ==
    /\ At("agent", "running")
    /\ \/ spent' = Wall /\ AgentFail("runtime_budget_exceeded", Wall)
       \/ UNCHANGED spent /\ AgentFail("runtime_launch_failure", 0)
    /\ UNCHANGED <<lane, cap, seen, disturbs, truth, found>>

\* The output goes through the capture directory's descriptor; a failure is
\* remembered, which a directory that is gone explains.
AgentWrite ==
    /\ At("agent", "write")
    /\ \/ /\ found' = [kind |-> "written"]
          /\ ver' = [ver EXCEPT !["logs"] = Pinned] /\ cap' = [cap EXCEPT !["logs"] = Pinned]
       \/ found' = [kind |-> "unwritten"] /\ UNCHANGED <<ver, cap>>
    /\ Goto("identity")
    /\ AgentQuiet

\* Swapped directories come before a failed write.
AgentIdentity ==
    /\ At("agent", "identity")
    /\ CASE ~Same(AgentDirs) -> AgentFail("evidence_corrupt", spent)
         [] Same(AgentDirs) /\ found.kind = "unwritten" -> AgentFail("materialization_failure", spent)
         [] OTHER -> Goto("content") /\ UNCHANGED ver
    /\ UNCHANGED <<cap, found>> /\ AgentQuiet

\* An agent that exits well has passed nothing.
AgentLabel == IF truth.rc # 0 THEN "runtime_tool_failure" ELSE "harness_failure"

\* _capture_content_error, and the row, whose digests are of the output.
AgentContent ==
    /\ At("agent", "content")
    /\ IF Same({"logs"}) THEN Stop(AgentLabel, spent) /\ UNCHANGED ver
                         ELSE AgentFail("evidence_corrupt", spent)
    /\ UNCHANGED <<cap, found>> /\ AgentQuiet

AgentNext ==
    \/ AgentPin \/ AgentCommand \/ AgentLaunch \/ AgentFinish \/ AgentCut
    \/ AgentWrite \/ AgentIdentity \/ AgentContent

-----------------------------------------------------------------------------

\* The labels of a row that carries the captured output.
AgentCaptured == {"runtime_tool_failure", "harness_failure"}
AgentGuarded  == {"instance"}
AgentNamed    == {"logs"}
=============================================================================
