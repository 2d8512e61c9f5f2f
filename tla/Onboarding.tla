------------------------------ MODULE Onboarding ------------------------------
(***************************************************************************)
(* The onboarding of a project (internal/runtime/activities/onboarding.go  *)
(* and the onboarding_state row of the store).  Every task of the project  *)
(* prepares it before it asks the model and finalizes it after the last    *)
(* answer; both read the row and write it in a second statement, and both  *)
(* are activities that are retried until an answer of theirs arrives.      *)
(***************************************************************************)
EXTENDS Naturals, FiniteSets

CONSTANTS
  Task,    \* tasks of the project
  Faults   \* which faults happen

\* store: a statement fails; lost: the answer of an activity is lost and it is
\* run again; embedder: the embedding service fails
ASSUME FaultAssumption == Faults \subseteq {"store", "lost", "embedder"}

VARIABLES
  onboarding,  \* the status of the row, "none" when there is no row
  onb,         \* each task: its step, what was said, its source
  disturbed    \* history: two tasks overlapped, or an answer was lost

onboardingVars == <<onboarding, onb, disturbed>>

\* A skipped onboarding is asked for again (mutant of Terminal).
CompletedOnly == {"completed"}
Terminal == {"completed", "skipped"}
Said == {"text", "command", "inline", "scheduled"}
Fresh == [pc |-> "idle", said |-> "text", source |-> "none"]

OnboardingInit ==
  /\ onboarding = "none"
  /\ onb = [t \in Task |-> Fresh]
  /\ disturbed = FALSE

OnbAt(t, pc) == onb[t].pc = pc
Onboard(t, pc, source) ==
  onb' = [onb EXCEPT ![t].pc = pc, ![t].source = source]
Onboarding(t) == onb[t].pc \notin {"idle", "ended"}
\* An activity whose answer is lost runs again from its start.
Answer(t, pc, source, again) ==
  \/ Onboard(t, pc, source) /\ UNCHANGED disturbed
  \/ /\ "lost" \in Faults /\ ~disturbed
     /\ Onboard(t, again, onb[t].source)
     /\ disturbed' = TRUE

BeginOnboarding(t, said) ==
  /\ OnbAt(t, "idle")
  /\ onb' = [onb EXCEPT ![t].pc = "prepare", ![t].said = said]
  /\ disturbed' = (disturbed \/ \E u \in Task \ {t} : Onboarding(u))
  /\ UNCHANGED onboarding

\* The status is read: what a task does of it (PrepareOnboarding).
SourceOf(said, status) ==
  CASE said = "scheduled" -> "none"
    [] said \in {"command", "inline"} -> "command"
    [] said = "text" /\ status \in Terminal -> "none"
    [] said = "text" /\ status = "prompted" -> "answer"
    [] OTHER -> "automatic"

PrepareOnboarding(t) ==
  LET source == SourceOf(onb[t].said, onboarding)
  IN  /\ OnbAt(t, "prepare")
      /\ IF source \in {"command", "automatic"}
         THEN /\ Onboard(t, "prompt", source)
              /\ UNCHANGED disturbed
         ELSE Answer(t, "agent", source, "prepare")
      /\ UNCHANGED onboarding

\* A second statement marks the project prompted.
MarkPrompted(t) ==
  /\ OnbAt(t, "prompt")
  /\ \/ /\ onboarding' = "prompted"
        /\ Answer(t, "agent", onb[t].source, "prepare")
     \/ /\ "store" \in Faults
        /\ Onboard(t, "prepare", "none")
        /\ UNCHANGED <<onboarding, disturbed>>

\* The task ends with an answer of the model, or it fails.
Concludes(t) == onb[t].source = "answer" \/ onb[t].said = "inline"
EndTask(t) ==
  /\ OnbAt(t, "agent")
  /\ \/ Onboard(t, IF Concludes(t) THEN "finalize" ELSE "ended", onb[t].source)
     \/ Onboard(t, "ended", onb[t].source)
  /\ UNCHANGED <<onboarding, disturbed>>

\* Whatever the status is, it becomes skipped (mutant of FinalizeOnboarding).
FinalizeUnread(t) ==
  /\ OnbAt(t, "finalize")
  /\ Onboard(t, "skip", onb[t].source)
  /\ UNCHANGED <<onboarding, disturbed>>
FinalizeOnboarding(t) ==
  /\ OnbAt(t, "finalize")
  /\ IF onboarding = "prompted"
     THEN Onboard(t, "skip", onb[t].source)
     ELSE Onboard(t, "ended", onb[t].source)
  /\ UNCHANGED <<onboarding, disturbed>>

MarkSkipped(t) ==
  /\ OnbAt(t, "skip")
  /\ \/ /\ onboarding' = "skipped"
        /\ Answer(t, "ended", onb[t].source, "finalize")
     \/ /\ "store" \in Faults
        /\ Onboard(t, "finalize", onb[t].source)
        /\ UNCHANGED <<onboarding, disturbed>>

\* The memory tool stores an answer of the onboarding (MemoryStore).
MarkCompleted == onboarding' = "completed"

OnboardingStep(t) ==
  \/ \E said \in Said : BeginOnboarding(t, said)
  \/ PrepareOnboarding(t)
  \/ MarkPrompted(t)
  \/ EndTask(t)
  \/ FinalizeOnboarding(t)
  \/ MarkSkipped(t)
-----------------------------------------------------------------------------
\* As long as tasks come one after the other and no answer is lost, a project
\* is prompted by itself at most once, and what a task takes for the answer
\* was written after another task asked and ended (onboarding.go:38-75).
AnswersFollowQuestions ==
  ~disturbed =>
    /\ Cardinality({t \in Task : onb[t].source = "automatic"}) <= 1
    /\ \A t \in Task : onb[t].source = "answer" =>
         \E u \in Task \ {t} : /\ onb[u].source \in {"automatic", "command"}
                               /\ onb[u].pc = "ended"

\* A stored answer completes the onboarding for good: without overlap only
\* the command opens it again (onboarding.go:48-75, 100-107).
CompletedStays ==
  [][/\ onboarding = "completed" /\ ~disturbed
     /\ onboarding' # "completed"
     => \E t \in Task : onb[t].source = "command" /\ OnbAt(t, "prompt")]_onboardingVars

\* A project asks once, takes only an answer for an answer, and has asked for
\* the last time when it has one (onboarding.go).
OnboardedOnce == []AnswersFollowQuestions /\ CompletedStays

=============================================================================
