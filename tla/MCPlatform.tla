----------------------------- MODULE MCPlatform -----------------------------
(***************************************************************************)
(* One instance for TLC of the components that share no state.  A          *)
(* behaviour is a behaviour of one of them; the others stay as they began. *)
(***************************************************************************)
EXTENDS JobQueue, OperationLedger, SessionTurn, Subagent, TurnLoop, TaskState, TLC

CONSTANTS s1, s2    \* two tasks of a team

VARIABLE component  \* the one that moves

SubDeps == s1 :> {} @@ s2 :> {s1}

Components == {"jobs", "ledger", "session", "subagent", "loop", "task"}

platformVars == <<component, vars, ledgerVars, sessionVars, subVars, loopVars, tskVars>>

PlatformInit ==
    /\ component \in Components
    /\ Init /\ LedgerInit /\ SessionInit /\ SubInit /\ LoopInit /\ TaskInit
    /\ qbounded => component = "loop"

\* Everyone but the jobs may come to rest.
Rest == component # "jobs" /\ UNCHANGED platformVars

PlatformStep ==
    /\ IF component = "jobs" THEN Next ELSE UNCHANGED vars
    /\ IF component = "ledger" THEN LedgerNext ELSE UNCHANGED ledgerVars
    /\ IF component = "session" THEN SessionNext ELSE UNCHANGED sessionVars
    /\ IF component = "subagent" THEN SubNext ELSE UNCHANGED subVars
    /\ IF component = "loop" THEN LoopNext ELSE UNCHANGED loopVars
    /\ IF component = "task" THEN TaskNext ELSE UNCHANGED tskVars
    /\ UNCHANGED component

PlatformNext == PlatformStep \/ Rest

\* The fairness of each component, while it is the one that moves.
PlatformFairness ==
    /\ \A w \in Workers : /\ WF_vars(component = "jobs" /\ WorkerStep(w))
                          /\ WF_vars(component = "jobs" /\ HeartbeatStep(w))
    /\ \A c \in Clients : WF_vars(component = "jobs" /\ ClientWrite(c))
    /\ WF_vars(component = "jobs" /\ LeaseStep)
    /\ \A t \in Turns : /\ WF_ledgerVars(component = "ledger" /\ Start(t))
                        /\ WF_ledgerVars(component = "ledger" /\ Finish(t))
    /\ \A o \in Ops : /\ WF_ledgerVars(component = "ledger" /\ NodeSettles(o))
                      /\ WF_ledgerVars(component = "ledger" /\ BudgetSettles(o))
    /\ WF_ledgerVars(component = "ledger" /\ ListForStartup)
    /\ WF_ledgerVars(component = "ledger"
                     /\ \E s \in lscan["startup"] : Reconcile("startup", s))
    /\ \A h \in SessionHandlers :
          /\ SF_sessionVars(component = "session" /\ SessionTurnStep(h))
          /\ WF_sessionVars(component = "session" /\ StageWrite(h))
    /\ \A r \in SessionRequests :
          SF_sessionVars(component = "session" /\ CloseTurn(r))
    /\ WF_sessionVars(component = "session" /\ (CloseJob \/ StartupReconcile))
    /\ WF_subVars(component = "subagent" /\ SubProgress)
    /\ WF_loopVars(component = "loop" /\ LoopStep)
    /\ WF_tskVars(component = "task" /\ (PublishTask \/ PublishTaskFails))
    /\ WF_tskVars(component = "task" /\ ReconcileTasks)

PlatformSpec == PlatformInit /\ [][PlatformNext]_platformVars /\ PlatformFairness

\* The type invariants of the components, in one.
PlatformTypeOK ==
    /\ TypeOK /\ LedgerTypeOK /\ SessionTypeOK /\ SubTypeOK /\ LoopTypeOK /\ TaskTypeOK

\* Nothing that someone waits for is left undone: a queued or running job, an
\* operation whose turn died with the backend and left no resource, a busy
\* session, a dependent that may start, a cancelled turn, the task of a run that
\* died.  A behaviour moves one component, so this is one leads-to for each.
EveryWaitEnds ==
    LET Waits == \/ component = "jobs" /\ JobWaits
                 \/ component = "ledger" /\ RecordWaits
                 \/ component = "session" /\ SessionWaits
                 \/ component = "subagent" /\ DependentWaits
                 \/ component = "loop" /\ CancelWaits
                 \/ component = "task" /\ OrphanWaits
    IN  Waits ~> ~Waits
=============================================================================
