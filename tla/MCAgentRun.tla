----------------------------- MODULE MCAgentRun -----------------------------
EXTENDS AgentRun, TLC

CONSTANTS p, q

Exec == [tool |-> "exec", decodes |-> TRUE]
MCAnswers == {<<Exec>>, <<Exec, Exec>>, <<Exec, [Exec EXCEPT !.tool = "agent"]>>}

Plain == [authoring |-> FALSE, unnamed |-> FALSE, procs |-> {}, signals |-> {},
          faults |-> {}]
MCCasts ==
  {[Plain EXCEPT !.signals = s, !.procs = {x}, !.faults = f] :
     s \in {{"cancel"}, {"interrupt"}}, x \in {p, q},
     f \in {{"decision", "stop"}, {"tool"}}}
  \cup {[Plain EXCEPT !.authoring = TRUE, !.signals = s, !.faults = {f}] :
     s \in {{"cancel"}, {"interrupt"}}, f \in {"tool", "lost"}}
  \cup {[Plain EXCEPT !.signals = {"cancel", "interrupt"}],
        [Plain EXCEPT !.signals = {"cancel", "context"}],
        [Plain EXCEPT !.unnamed = TRUE, !.signals = {"interrupt"}]}
=============================================================================
