------------------------------ MODULE TurnLoop ------------------------------
(***************************************************************************)
(* The query loop of one turn (core/runtime_engine/query_loop.py): model   *)
(* call, tools, evidence, and again, until the model gives an answer that  *)
(* the recovery goals accept, the user cancels, the provider refuses, or a *)
(* tool is suspended for an external decision.  _finish_turn then projects *)
(* what happened into an error, a response outcome and an execution        *)
(* outcome, from which the task state takes its status.                    *)
(*                                                                         *)
(* Of the tool results the loop keeps only what these projections read: is *)
(* there a success, is there a failure, which writes may still be running, *)
(* and what was claimed about each piece of required evidence.             *)
(***************************************************************************)
EXTENDS Naturals, FiniteSets

CONSTANTS
    LoopGoals,     \* pieces of evidence a handler may require after a failure
    LoopWrites,    \* external writes, each on a connection of its own
    NoWrite,       \* no write
    LoopBounded,   \* may max_query_loop_iterations be positive, zero, or either?
    MaxLoopCalls,  \* bound: tool calls of the model in the turn
    LoopFaults     \* which of "cancel", "environment", "archive" may happen

ASSUME LoopAssumption ==
    /\ NoWrite \notin LoopWrites
    /\ LoopBounded \subseteq BOOLEAN
    /\ MaxLoopCalls \in Nat
    /\ LoopFaults \subseteq {"cancel", "environment", "archive"}

VARIABLES
    qpc,          \* where the loop is
    qbounded,     \* max_query_loop_iterations is positive
    qcancel,      \* has the user cancelled?
    qcalls,       \* tool calls so far
    qok, qbad,    \* did a call succeed, did one fail?
    qopen,        \* writes whose execution_may_continue
    qunknown,     \* unknown_outcome: the write it names
    qread,        \* writes of whose connection evidence was collected
    qgoal,        \* recovery_goals: the status of each
    qclaim,       \* evidence_claims about each
    qnudged,      \* recovery_final_nudge_pending
    qwaiting,     \* external_interruptions of the round
    qresponse,    \* response_outcome
    qsynth,       \* attempts of _recover_final_synthesis
    qout,         \* the result of the turn
    qrejected     \* history: finals rejected since the last tool round

loopEvidence == <<qbounded, qcalls, qok, qbad, qopen, qunknown, qread,
                  qclaim>>
loopVars == <<qpc, qcancel, loopEvidence, qgoal, qnudged, qwaiting, qresponse, qsynth,
              qout, qrejected>>

NoResult == [error |-> "running", response |-> "none", execution |-> "none",
             task |-> "none"]

LoopInit ==
    /\ qpc = "top" /\ qcancel = FALSE
    /\ qbounded \in LoopBounded
    /\ qcalls = 0 /\ qok = FALSE /\ qbad = FALSE
    /\ qopen = {} /\ qunknown = NoWrite /\ qread = {}
    /\ qgoal = [g \in LoopGoals |-> "none"]
    /\ qclaim = [g \in LoopGoals |-> {}]
    /\ qnudged = FALSE /\ qwaiting = FALSE
    /\ qresponse = "complete"
    /\ qsynth = 0
    /\ qout = NoResult
    /\ qrejected = 0

HasResults == qok \/ qbad

-----------------------------------------------------------------------------
(* The terminal projection.                                                *)

\* evaluate_goal_assertions over the evidence the recovery goals require.
Installed == {g \in LoopGoals : qgoal[g] # "none"}

ClaimStatus(g) ==
    CASE "observed" \in qclaim[g] -> "passed"
      [] "unavailable" \in qclaim[g] -> "failed"
      [] OTHER -> "unknown"

Assertions ==
    LET statuses == {ClaimStatus(g) : g \in Installed}
    IN  CASE statuses \subseteq {"passed"} -> "passed"
          [] "unknown" \in statuses -> "unknown"
          [] OTHER -> "failed"

\* derive_execution_outcome
Derived(error) ==
    CASE qopen # {} -> "unknown"
      [] Assertions = "unknown" -> "unknown"
      [] Assertions = "failed" -> "partial"
      [] error # "none" -> IF qok THEN "partial" ELSE "failed"
      [] qbad /\ ~qok -> "failed"
      [] OTHER -> "complete"

\* _has_late_network_readback goes over all results, those before the write too.
LateReadback == qunknown \in qread

\* _finish_turn's execution_outcome; metric is what the exit passed as one.
Execution(error, metric) ==
    CASE metric = "completion" -> "unknown"
      [] LateReadback -> "complete"
      [] metric = "unknown" -> "unknown"
      [] OTHER -> Derived(error)

\* The run's ok, and _derive_status of the task state.
TaskStatus(error, execution) ==
    CASE error = "cancelled" -> "cancelled"
      [] execution = "waiting" -> "waiting_user"
      [] execution = "unknown" \/ error # "none" \/ (qbad /\ ~qok) -> "failed"
      [] Assertions # "passed" -> "replan_required"
      [] OTHER -> "completed"

\* An unmet assertion becomes the error, or a partial response.
Unmet_silent(error, given, response) == <<error, response>>

Unmet(error, given, response) ==
    IF Assertions = "passed" THEN <<error, response>>
    ELSE IF Assertions = "failed" /\ qok THEN <<error, "partial">>
    ELSE <<IF given THEN error ELSE "assertion", response>>

\* Every exit: error with which it is called, "none" passed explicitly or left
\* out, the response outcome and the execution outcome it brings.
FinishTurn(error, explicit, response, metric) ==
    \E archived \in {TRUE} \cup (IF "archive" \in LoopFaults THEN {FALSE} ELSE {}) :
        LET first  == IF error = "none" /\ ~archived THEN "archive" ELSE error
            given  == explicit \/ first # "none"
            reply  == IF error = "cancelled" THEN "cancelled" ELSE response
            unmet  == Unmet(first, given, reply)
            result == Execution(unmet[1], metric)
        IN  /\ qpc' = "done"
            /\ qout' = [error |-> unmet[1], response |-> unmet[2],
                        execution |-> result, task |-> TaskStatus(unmet[1], result)]

Exit(error, response, metric) ==
    /\ FinishTurn(error, FALSE, response, metric)
    /\ UNCHANGED <<qcancel, loopEvidence, qgoal, qnudged, qwaiting, qresponse, qsynth,
                   qrejected>>

To(point) == qpc' = point /\ UNCHANGED qout

-----------------------------------------------------------------------------
(* An iteration up to the answer of the model.                             *)

\* The checks before a model call: cancellation, then the environment.
LoopTop ==
    /\ qpc = "top"
    /\ IF qcancel
       THEN Exit("cancelled", "cancelled", "none")
       ELSE /\ To("model")
            /\ UNCHANGED <<qcancel, loopEvidence, qgoal, qnudged, qwaiting, qresponse,
                           qsynth, qrejected>>

\* observe_execution_readiness, before the call and after it.
LoopUnready ==
    /\ "environment" \in LoopFaults
    /\ qpc \in {"top", "answer"} /\ ~qcancel
    /\ \E metric \in {"none", "unknown"} :
          Exit("environment", "execution_environment_unavailable", metric)

\* The model call returns; only then is its answer looked at.
LoopModel ==
    /\ qpc = "model"
    /\ To("answer")
    /\ UNCHANGED <<qcancel, loopEvidence, qgoal, qnudged, qwaiting, qresponse, qsynth,
                   qrejected>>

\* A cancellation that came during the call wins over the answer.
Overtaken == qcancel

LoopOvertaken ==
    /\ qpc = "answer" /\ Overtaken
    /\ Exit("cancelled", "cancelled", "none")

LoopAnswers == qpc = "answer" /\ ~Overtaken

\* A truncated answer, a plan that must be split or a call that fails validation
\* goes back to the model; the last is a failed result.
LoopAgain ==
    /\ LoopAnswers
    /\ qbad' \in {qbad, TRUE}
    /\ To("top")
    /\ UNCHANGED <<qcancel, qbounded, qcalls, qok, qopen, qunknown, qread, qclaim, qgoal,
                   qnudged, qwaiting, qresponse, qsynth, qrejected>>

\* The provider fails: for good, or so that it is tried again.  With a bound on
\* the iterations there is no second try, and results are still summarized.
LoopProviderFails ==
    /\ LoopAnswers
    /\ \/ Exit("provider", "llm_configuration_unavailable", "none")
       \/ /\ ~qbounded
          /\ To("top")
          /\ UNCHANGED <<qcancel, loopEvidence, qgoal, qnudged, qwaiting, qresponse,
                         qsynth, qrejected>>
       \/ /\ qbounded /\ HasResults
          /\ To("summary")
          /\ UNCHANGED <<qcancel, loopEvidence, qgoal, qnudged, qwaiting, qresponse,
                         qsynth, qrejected>>
       \/ /\ qbounded /\ ~HasResults
          /\ Exit("provider", "deterministic_fallback", "none")

-----------------------------------------------------------------------------
(* A round of tools.                                                       *)

LoopCalls ==
    /\ LoopAnswers /\ qcalls < MaxLoopCalls
    /\ To("tools")
    /\ UNCHANGED <<qcancel, loopEvidence, qgoal, qnudged, qwaiting, qresponse, qsynth,
                   qrejected>>

Called ==
    /\ qpc \in {"tools", "more"} /\ qcalls < MaxLoopCalls
    /\ qcalls' = qcalls + 1
    /\ UNCHANGED qbounded

\* A call that settles, with no bearing on the goals.
CallSettles(ok) ==
    /\ Called
    /\ qok' = (qok \/ ok) /\ qbad' = (qbad \/ ~ok)
    /\ To("more")
    /\ UNCHANGED <<qcancel, qopen, qunknown, qread, qclaim, qgoal, qnudged,
                   qwaiting, qresponse, qsynth, qrejected>>

\* _mark_unknown_write_outcome: only the first one is remembered.
CallUncertain(w) ==
    /\ Called
    /\ w \notin qopen
    /\ qopen' = qopen \cup {w}
    /\ qunknown' = IF qunknown = NoWrite THEN w ELSE qunknown
    /\ qbad' = TRUE
    /\ To("more")
    /\ UNCHANGED <<qcancel, qok, qread, qclaim, qgoal, qnudged, qwaiting,
                   qresponse, qsynth, qrejected>>

\* Evidence is collected over the connection of w.  If it is live and complete and
\* w is the one remembered, w is reconciled at once, else by the scan at the end.
\* The result of w stays open: it is the execution outcome that changes.
CallReadsBack(w) ==
    /\ Called
    /\ qread' = qread \cup {w}
    /\ qok' = TRUE
    /\ To("more")
    /\ UNCHANGED <<qcancel, qbad, qopen, qunknown, qclaim, qgoal, qnudged, qwaiting,
                   qresponse, qsynth, qrejected>>

\* A read of required evidence: it is observed, or the handler asks for g and
\* _execute_safe_read_recovery installs the goal and tries the fallbacks; they
\* may be refused, fail, or claim the evidence or its absence.
CallRequires(g, got, ok) ==
    /\ Called
    /\ "observed" \in got => ok
    /\ qgoal' = [qgoal EXCEPT ![g] = IF @ = "none" THEN "pending" ELSE @]
    /\ qclaim' = [qclaim EXCEPT ![g] = @ \cup got]
    /\ qok' = (qok \/ ok) /\ qbad' = TRUE
    /\ To("more")
    /\ UNCHANGED <<qcancel, qopen, qunknown, qread, qnudged, qwaiting, qresponse,
                   qsynth, qrejected>>

CallObserves(g) ==
    /\ Called
    /\ qclaim' = [qclaim EXCEPT ![g] = @ \cup {"observed"}]
    /\ qok' = TRUE
    /\ To("more")
    /\ UNCHANGED <<qcancel, qbad, qopen, qunknown, qread, qgoal, qnudged, qwaiting,
                   qresponse, qsynth, qrejected>>

\* before_tool_execution defers a write: its result says ok, nothing was run.
CallDeferred ==
    /\ Called
    /\ qwaiting' = TRUE
    /\ qok' = TRUE
    /\ To("more")
    /\ UNCHANGED <<qcancel, qbad, qopen, qunknown, qread, qclaim, qgoal, qnudged,
                   qresponse, qsynth, qrejected>>

\* The round ends.  With a deferred call the turn ends too, on a checkpoint
\* that is saved or not; the execution outcome it notes in ctx.extras is not
\* among the metrics it passes on.
WaitingMetric == "none"

LoopRoundEnds ==
    /\ qpc = "more"
    /\ IF qwaiting
       THEN /\ \/ FinishTurn("none", FALSE, "waiting_external_input", WaitingMetric)
               \/ FinishTurn("checkpoint", FALSE, "waiting_external_input", "none")
            /\ UNCHANGED <<qnudged, qrejected>>
       ELSE /\ To("top")
            /\ qnudged' = FALSE
            /\ qrejected' = 0
    /\ UNCHANGED <<qcancel, loopEvidence, qgoal, qwaiting, qresponse, qsynth>>

-----------------------------------------------------------------------------
(* A proposed final answer.                                                *)

\* recovery_final_gate: what the claims make of the goals.
Projected ==
    [g \in LoopGoals |->
        IF qgoal[g] # "pending" THEN qgoal[g]
        ELSE CASE ClaimStatus(g) = "passed" -> "passed"
               [] ClaimStatus(g) = "failed" -> "blocked"
               [] OTHER -> "pending"]

OpenGoals == {g \in LoopGoals : Projected[g] = "pending"}

\* block_unresolved_recovery_goals
Blocked ==
    [g \in LoopGoals |-> IF g \in OpenGoals THEN "blocked" ELSE Projected[g]]

\* The first such answer is rejected with a nudge; the second, with no tool
\* round in between, blocks the goals and passes.
LoopFinal ==
    /\ LoopAnswers
    /\ LET goals == IF qnudged THEN Blocked ELSE Projected
           open  == {g \in LoopGoals : goals[g] = "pending"}
       IN  /\ qgoal' = goals
           /\ IF open # {}
              THEN /\ qnudged' = TRUE
                   /\ qrejected' = qrejected + 1
                   /\ To("top")
              ELSE /\ To("completion")
                   /\ UNCHANGED <<qnudged, qrejected>>
           /\ qresponse' = IF qnudged /\ OpenGoals # {}
                           THEN "blocked_no_recovery_action" ELSE qresponse
    /\ UNCHANGED <<qcancel, loopEvidence, qwaiting, qsynth>>

\* observe_completion, and the text of the answer.
LoopCompletion ==
    /\ qpc = "completion"
    /\ \/ Exit("completion", qresponse, "none")
       \/ Exit("completion", qresponse, "completion")
       \/ Exit("none", qresponse, "none")
       \/ ~HasResults /\ Exit("none", "failed", "none")
       \/ /\ HasResults
          /\ To("synthesis")
          /\ UNCHANGED <<qcancel, loopEvidence, qgoal, qnudged, qwaiting, qresponse,
                         qsynth, qrejected>>

\* _recover_final_synthesis, from an empty answer or from a provider failure of
\* the bounded loop, which passes "no error" explicitly: two tries, cancelled
\* before the first or after either.
LoopSynthesis ==
    /\ qpc \in {"synthesis", "summary"}
    /\ \/ /\ qcancel
          /\ FinishTurn("cancelled", TRUE, "cancelled", "none")
          /\ UNCHANGED qsynth
       \/ /\ ~qcancel
          /\ FinishTurn("none", qpc = "summary", "recovered", "none")
          /\ UNCHANGED qsynth
       \/ /\ ~qcancel
          /\ qsynth' = qsynth + 1
          /\ IF qsynth' < 2
             THEN To(qpc)
             ELSE FinishTurn("none", qpc = "summary", "deterministic_fallback", "none")
    /\ UNCHANGED <<qcancel, loopEvidence, qgoal, qnudged, qwaiting, qresponse, qrejected>>

-----------------------------------------------------------------------------
LoopCancel ==
    /\ "cancel" \in LoopFaults
    /\ ~qcancel /\ qpc # "done"
    /\ qcancel' = TRUE
    /\ UNCHANGED <<qpc, loopEvidence, qgoal, qnudged, qwaiting, qresponse, qsynth, qout,
                   qrejected>>

LoopTool ==
    \/ \E ok \in BOOLEAN : CallSettles(ok)
    \/ \E w \in LoopWrites : CallUncertain(w) \/ CallReadsBack(w)
    \/ \E g \in LoopGoals : \/ CallObserves(g)
                            \/ \E got \in SUBSET {"observed", "unavailable"} :
                                  \E ok \in BOOLEAN : CallRequires(g, got, ok)
    \/ CallDeferred

LoopStep ==
    \/ LoopTop \/ LoopUnready \/ LoopModel \/ LoopOvertaken \/ LoopAgain
    \/ LoopProviderFails \/ LoopCalls \/ LoopTool \/ LoopRoundEnds
    \/ LoopFinal \/ LoopCompletion \/ LoopSynthesis

LoopNext == LoopStep \/ LoopCancel

LoopSpec == LoopInit /\ [][LoopNext]_loopVars

\* Model and tool calls return or time out, and a wait for the provider ends.
LoopFairness == WF_loopVars(LoopStep)

-----------------------------------------------------------------------------
\* Values of the state.
LoopTypeOK ==
    /\ qpc \in {"top", "model", "answer", "tools", "more", "completion", "synthesis",
                "summary", "done"}
    /\ {qcancel, qbounded, qok, qbad, qnudged, qwaiting} \subseteq BOOLEAN
    /\ qcalls \in 0..MaxLoopCalls /\ qsynth \in 0..2 /\ qrejected \in 0..1
    /\ {qopen, qread} \subseteq SUBSET LoopWrites /\ qunknown \in LoopWrites \cup {NoWrite}
    /\ qgoal \in [LoopGoals -> {"none", "pending", "passed", "blocked"}]
    /\ qclaim \in [LoopGoals -> SUBSET {"observed", "unavailable"}]
    /\ qresponse \in {"complete", "blocked_no_recovery_action"}
    /\ (qout = NoResult) = (qpc # "done")
    /\ qout.execution \in {"none", "unknown", "complete", "partial", "failed"}

\* "a model response is not completion while a registered recovery goal still
\* lacks matching evidence": a turn that is reported without error, with a
\* complete response, has observed every piece of evidence it came to require,
\* whichever exit it took and however often the model insisted.  And a turn whose
\* first write of unknown outcome is still open is reported as completely executed
\* only with evidence from the connection of that write.
OutcomeIsEvidenced ==
    /\ qout.error = "none" /\ qout.response = "complete"
          => \A g \in Installed : "observed" \in qclaim[g]
    /\ qout.execution = "complete" => qunknown = NoWrite \/ qunknown \in qread

\* A cancelled turn that has not ended; "user cancellation remains the escape
\* hatch" whatever the provider, the model and the tools do.
CancelWaits == qcancel /\ qpc # "done"

\* A turn that was suspended for an external decision leaves a waiting task.
WaitingIsNotCompleted ==
    qwaiting /\ qpc = "done" => qout.task # "completed"
=============================================================================
