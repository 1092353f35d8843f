----------------------- MODULE InstanceLifecycleProofs -----------------------
(***************************************************************************)
(* Proofs that InstanceLifecycle's invariants and action properties hold   *)
(* for every number of handlers in flight, requests, deaths, crashes and   *)
(* failing calls.  Each *Step lemma shows that one conjunct of IInv is     *)
(* preserved by every action; Inductive puts them together, and the        *)
(* theorems after it follow from it.  The last part is about handlers that *)
(* do not overlap.                                                         *)
(***************************************************************************)
EXTENDS InstanceLifecycleInvariant, TLAPS

USE NullsAreDistinct, NullsAreNotRecords, FaultBound, OperationsKnown, Bounds
USE DEF Rows, Containers, Locals, InstanceIds, ContainerIds, TokenIds, Llms,
        Gemma, Byok, Statuses, Activities, AllOperations, Points, NoLocals,
        Goto, Finish, AfterStop, AfterStart, RowIs, Reads, AfterConfig,
        Found, Running, envVars, faultVars

-----------------------------------------------------------------------------
\* A call that succeeds or fails keeps the counters in their types.
LEMMA CallTyped ==
  ASSUME TypeOK, Succeeds \/ Fails
  PROVE  faults' \in 0..MaxFaults /\ mended' \in 0..MaxFaults
  BY DEF TypeOK, Succeeds, Fails

\* A write leaves the old row or the new one, and no update makes a row.
LEMMA WriteTyped ==
  ASSUME TypeOK, NEW new \in Rows \cup {NoRow}, Write(new)
  PROVE  /\ row' \in Rows \cup {NoRow}
         /\ faults' \in 0..MaxFaults /\ mended' \in 0..MaxFaults
  BY CallTyped DEF TypeOK, Write

LEMMA UpdateTyped ==
  ASSUME TypeOK, NEW new, row # NoRow => new \in Rows, Update(new)
  PROVE  /\ row' \in Rows \cup {NoRow}
         /\ faults' \in 0..MaxFaults /\ mended' \in 0..MaxFaults
  BY WriteTyped DEF TypeOK, Update

LEMMA UpdateByIdTyped ==
  ASSUME TypeOK, NEW iid, NEW new, row # NoRow => new \in Rows, UpdateById(iid, new)
  PROVE  /\ row' \in Rows \cup {NoRow}
         /\ faults' \in 0..MaxFaults /\ mended' \in 0..MaxFaults
  BY WriteTyped DEF TypeOK, UpdateById

-----------------------------------------------------------------------------
\* A step keeps every variable in its type.
LEMMA TypeStep == TypeOK /\ LocalsKnown /\ [Next]_vars => TypeOK'
  <1> SUFFICES ASSUME TypeOK /\ LocalsKnown, [Next]_vars PROVE TypeOK'
    OBVIOUS
  <1> USE DEF TypeOK, LocalsKnown, Preparing
  <1>1. ASSUME NEW s \in Slots, StopInspect(s), UNCHANGED envVars PROVE TypeOK'
    BY <1>1, CallTyped DEF StopInspect
  <1>2. ASSUME NEW s \in Slots, StopStop(s), UNCHANGED envVars PROVE TypeOK'
    BY <1>2, CallTyped DEF StopStop
  <1>3. ASSUME NEW s \in Slots, StopRemove(s), UNCHANGED envVars PROVE TypeOK'
    BY <1>3, CallTyped DEF StopRemove
  <1>4. ASSUME NEW s \in Slots, StopRevoke(s), UNCHANGED envVars PROVE TypeOK'
    <2>1. Revoked(loc[s].label) \in Rows \cup {NoRow}
      BY DEF Revoked
    <2>2. /\ row' \in Rows \cup {NoRow}
          /\ faults' \in 0..MaxFaults /\ mended' \in 0..MaxFaults
      BY <1>4, <2>1, WriteTyped DEF StopRevoke
    <2> QED
      BY <1>4, <2>2 DEF StopRevoke
  <1>5. ASSUME NEW s \in Slots, StartResolve(s), UNCHANGED envVars PROVE TypeOK'
    BY <1>5, CallTyped, SMTT(20) DEF StartResolve
  <1>6. ASSUME NEW s \in Slots, StartReadLlm(s), UNCHANGED envVars PROVE TypeOK'
    BY <1>6, CallTyped DEF StartReadLlm
  <1>7. ASSUME NEW s \in Slots, StartInspect(s), UNCHANGED envVars PROVE TypeOK'
    BY <1>7, CallTyped DEF StartInspect
  <1>8. ASSUME NEW s \in Slots, StartRemove(s), UNCHANGED envVars PROVE TypeOK'
    BY <1>8, CallTyped DEF StartRemove
  <1>9. ASSUME NEW s \in Slots, StartIssue(s), UNCHANGED envVars PROVE TypeOK'
    BY <1>9, CallTyped DEF StartIssue
  <1>10. ASSUME NEW s \in Slots, StartCreate(s), UNCHANGED envVars PROVE TypeOK'
    BY <1>10, CallTyped DEF StartCreate, Create
  <1>11. ASSUME NEW s \in Slots, StartStart(s), UNCHANGED envVars PROVE TypeOK'
    <2>1. /\ docker' \in {docker, [docker EXCEPT !.state = "running"]}
          /\ docker' # docker => docker # NoContainer
      BY <1>11 DEF StartStart
    <2>2. docker' \in Containers \cup {NoContainer}
      BY <2>1
    <2>3. faults' \in 0..MaxFaults /\ mended' \in 0..MaxFaults
      BY <1>11, CallTyped DEF StartStart
    <2>4. pc' \in [Slots -> Points] /\ loc' \in [Slots -> Locals]
      BY <1>11 DEF StartStart
    <2> QED
      BY <1>11, <2>2, <2>3, <2>4 DEF StartStart
  <1>12. ASSUME NEW s \in Slots, CreateInsert(s) PROVE TypeOK'
    BY <1>12, CallTyped, SMTT(20) DEF CreateInsert, Insert
  <1>13. ASSUME NEW s \in Slots, CreateStopped(s) PROVE TypeOK'
    <2>1. row # NoRow => [row EXCEPT !.status = "stopped"] \in Rows
      OBVIOUS
    <2>2. /\ row' \in Rows \cup {NoRow}
          /\ faults' \in 0..MaxFaults /\ mended' \in 0..MaxFaults
      BY <1>13, <2>1, UpdateByIdTyped DEF CreateStopped
    <2> QED
      BY <1>13, <2>2 DEF CreateStopped
  <1>14. ASSUME NEW s \in Slots, CreateKey(s) PROVE TypeOK'
    <2>1. row # NoRow => [row EXCEPT !.llm = Byok] \in Rows /\ [row EXCEPT !.status = "error"] \in Rows
      OBVIOUS
    <2>2. /\ row' \in Rows \cup {NoRow}
          /\ faults' \in 0..MaxFaults /\ mended' \in 0..MaxFaults
      BY <1>14, <2>1, UpdateByIdTyped DEF CreateKey
    <2> QED
      BY <1>14, <2>2 DEF CreateKey
  <1>15. ASSUME NEW s \in Slots, RestartCreating(s) PROVE TypeOK'
    <2>1. row # NoRow => [row EXCEPT !.status = "creating", !.cid = NoRef] \in Rows
      OBVIOUS
    <2>2. /\ row' \in Rows \cup {NoRow}
          /\ faults' \in 0..MaxFaults /\ mended' \in 0..MaxFaults
      BY <1>15, <2>1, UpdateTyped DEF RestartCreating
    <2> QED
      BY <1>15, <2>2 DEF RestartCreating
  <1>16. ASSUME NEW s \in Slots, RestartRunning(s) PROVE TypeOK'
    <2>1. row # NoRow => [row EXCEPT !.status = "running", !.cid = loc[s].ref] \in Rows
      OBVIOUS
    <2>2. /\ row' \in Rows \cup {NoRow}
          /\ faults' \in 0..MaxFaults /\ mended' \in 0..MaxFaults
      BY <1>16, <2>1, UpdateTyped DEF RestartRunning
    <2> QED
      BY <1>16, <2>2 DEF RestartRunning
  <1>17. ASSUME NEW s \in Slots, DeleteRow(s) PROVE TypeOK'
    <2>1. /\ row' \in Rows \cup {NoRow}
          /\ faults' \in 0..MaxFaults /\ mended' \in 0..MaxFaults
      BY <1>17, WriteTyped DEF DeleteRow
    <2> QED
      BY <1>17, <2>1 DEF DeleteRow
  <1>18. ASSUME NEW s \in Slots, ConfigLlm(s) PROVE TypeOK'
    <2>1. \A llm \in Llms : row # NoRow => [row EXCEPT !.llm = llm] \in Rows
      OBVIOUS
    <2>2. /\ row' \in Rows \cup {NoRow}
          /\ faults' \in 0..MaxFaults /\ mended' \in 0..MaxFaults
      BY <1>18, <2>1, UpdateTyped, CallTyped DEF ConfigLlm
    <2> QED
      BY <1>18, <2>2 DEF ConfigLlm
  <1>19. ASSUME NEW s \in Slots, ConfigRunning(s) PROVE TypeOK'
    <2>1. row # NoRow => [row EXCEPT !.status = "running", !.cid = loc[s].ref] \in Rows
      OBVIOUS
    <2>2. /\ row' \in Rows \cup {NoRow}
          /\ faults' \in 0..MaxFaults /\ mended' \in 0..MaxFaults
      BY <1>19, <2>1, UpdateTyped DEF ConfigRunning
    <2> QED
      BY <1>19, <2>2 DEF ConfigRunning
  <1>20. ASSUME NEW s \in Slots, DispatchRead(s) PROVE TypeOK'
    BY <1>20, CallTyped, SMTT(20) DEF DispatchRead
  <1>21. ASSUME NEW s \in Slots, DispatchAlive(s) PROVE TypeOK'
    BY <1>21, CallTyped DEF DispatchAlive
  <1>22. ASSUME NEW s \in Slots, DispatchLabel(s) PROVE TypeOK'
    BY <1>22, CallTyped DEF DispatchLabel
  <1>23. ASSUME NEW s \in Slots, DispatchUpdate(s) PROVE TypeOK'
    <2>1. row # NoRow => [row EXCEPT !.status = "running", !.cid = loc[s].ref, !.activity = "recent"] \in Rows
      OBVIOUS
    <2>2. /\ row' \in Rows \cup {NoRow}
          /\ faults' \in 0..MaxFaults /\ mended' \in 0..MaxFaults
      BY <1>23, <2>1, UpdateTyped DEF DispatchUpdate
    <2> QED
      BY <1>23, <2>2 DEF DispatchUpdate
  <1>24. ASSUME NEW s \in Slots, WebhookRunning(s) PROVE TypeOK'
    <2>1. row # NoRow => [row EXCEPT !.status = "running", !.cid = loc[s].ref, !.activity = "recent"] \in Rows
      OBVIOUS
    <2>2. /\ row' \in Rows \cup {NoRow}
          /\ faults' \in 0..MaxFaults /\ mended' \in 0..MaxFaults
      BY <1>24, <2>1, UpdateTyped DEF WebhookRunning
    <2> QED
      BY <1>24, <2>2 DEF WebhookRunning
  <1>25. ASSUME NEW s \in Slots, WebhookTouch(s) PROVE TypeOK'
    <2>1. row # NoRow => [row EXCEPT !.activity = "recent"] \in Rows
      OBVIOUS
    <2>2. /\ row' \in Rows \cup {NoRow}
          /\ faults' \in 0..MaxFaults /\ mended' \in 0..MaxFaults
      BY <1>25, <2>1, UpdateTyped DEF WebhookTouch
    <2> QED
      BY <1>25, <2>2 DEF WebhookTouch
  <1>26. ASSUME NEW s \in Slots, IdleNull(s) PROVE TypeOK'
    <2>1. row # NoRow => [row EXCEPT !.status = "stopped", !.cid = NoRef, !.activity = "recent"] \in Rows
      OBVIOUS
    <2>2. /\ row' \in Rows \cup {NoRow}
          /\ faults' \in 0..MaxFaults /\ mended' \in 0..MaxFaults
      BY <1>26, <2>1, UpdateTyped DEF IdleNull
    <2> QED
      BY <1>26, <2>2 DEF IdleNull
  <1>27. ASSUME NEW s \in Slots, MonitorCheck(s) PROVE TypeOK'
    BY <1>27, CallTyped DEF MonitorCheck
  <1>28. ASSUME NEW s \in Slots, MonitorNull(s) PROVE TypeOK'
    <2>1. row # NoRow => [row EXCEPT !.status = "stopped", !.cid = NoRef] \in Rows
      OBVIOUS
    <2>2. /\ row' \in Rows \cup {NoRow}
          /\ faults' \in 0..MaxFaults /\ mended' \in 0..MaxFaults
      BY <1>28, <2>1, UpdateByIdTyped DEF MonitorNull
    <2> QED
      BY <1>28, <2>2 DEF MonitorNull
  <1>29. ASSUME NEW s \in Slots, BeginCreate(s) PROVE TypeOK'
    BY <1>29, CallTyped DEF BeginCreate, Request, Cron, Enter
  <1>30. ASSUME NEW s \in Slots, BeginRestart(s) PROVE TypeOK'
    BY <1>30, CallTyped DEF BeginRestart, Request, Cron, Enter
  <1>31. ASSUME NEW s \in Slots, BeginDelete(s) PROVE TypeOK'
    BY <1>31, CallTyped DEF BeginDelete, Request, Cron, Enter
  <1>32. ASSUME NEW s \in Slots, BeginConfig(s) PROVE TypeOK'
    BY <1>32, CallTyped DEF BeginConfig, Request, Cron, Enter
  <1>33. ASSUME NEW s \in Slots, BeginSlack(s) PROVE TypeOK'
    <2>1. row # NoRow => [row EXCEPT !.activity = "recent"] \in Rows
      OBVIOUS
    <2>2. /\ row' \in Rows \cup {NoRow}
          /\ faults' \in 0..MaxFaults /\ mended' \in 0..MaxFaults
      BY <1>33, <2>1, WriteTyped DEF BeginSlack
    <2> QED
      BY <1>33, <2>2 DEF BeginSlack, Request, Cron, Enter
  <1>34. ASSUME NEW s \in Slots, BeginSchedule(s) PROVE TypeOK'
    BY <1>34, CallTyped DEF BeginSchedule, Request, Cron, Enter
  <1>35. ASSUME NEW s \in Slots, BeginWebhook(s) PROVE TypeOK'
    BY <1>35, CallTyped DEF BeginWebhook, Request, Cron, Enter
  <1>36. ASSUME NEW s \in Slots, BeginIdle(s) PROVE TypeOK'
    BY <1>36, CallTyped DEF BeginIdle, Request, Cron, Enter
  <1>37. ASSUME NEW s \in Slots, BeginMonitor(s) PROVE TypeOK'
    BY <1>37, CallTyped DEF BeginMonitor, Request, Cron, Enter
  <1>38. CASE ContainerDies
    BY <1>38 DEF ContainerDies
  <1>39. CASE TimePasses
    BY <1>39 DEF TimePasses
  <1>40. CASE OrchestratorCrashes
    BY <1>40 DEF OrchestratorCrashes
  <1>41. CASE UNCHANGED vars
    BY <1>41 DEF vars, cmVars
  <1> QED
    BY <1>1, <1>2, <1>3, <1>4, <1>5, <1>6, <1>7, <1>8, <1>9, <1>10, <1>11, <1>12, <1>13, <1>14,
       <1>15, <1>16, <1>17, <1>18, <1>19, <1>20, <1>21, <1>22, <1>23, <1>24, <1>25, <1>26, <1>27,
       <1>28, <1>29, <1>30, <1>31, <1>32, <1>33, <1>34, <1>35, <1>36, <1>37, <1>38, <1>39, <1>40,
       <1>41
       DEF Next, Begin, Step, ContainerStep, Environment

-----------------------------------------------------------------------------
\* A step keeps the locals a handler relies on.
LEMMA LocalsStep == TypeOK /\ LocalsKnown /\ RunningHasContainer /\ [Next]_vars => LocalsKnown'
  <1> SUFFICES ASSUME TypeOK /\ LocalsKnown /\ RunningHasContainer, [Next]_vars PROVE LocalsKnown'
    OBVIOUS
  <1> USE DEF TypeOK, LocalsKnown, Preparing, Unstopped, Started, RunningHasContainer
  <1>1. ASSUME NEW s \in Slots, StopInspect(s), UNCHANGED envVars PROVE LocalsKnown'
    BY <1>1 DEF StopInspect
  <1>2. ASSUME NEW s \in Slots, StopStop(s), UNCHANGED envVars PROVE LocalsKnown'
    BY <1>2 DEF StopStop
  <1>3. ASSUME NEW s \in Slots, StopRemove(s), UNCHANGED envVars PROVE LocalsKnown'
    BY <1>3 DEF StopRemove
  <1>4. ASSUME NEW s \in Slots, StopRevoke(s), UNCHANGED envVars PROVE LocalsKnown'
    BY <1>4 DEF StopRevoke
  <1>5. ASSUME NEW s \in Slots, StartResolve(s), UNCHANGED envVars PROVE LocalsKnown'
    BY <1>5 DEF StartResolve
  <1>6. ASSUME NEW s \in Slots, StartReadLlm(s), UNCHANGED envVars PROVE LocalsKnown'
    BY <1>6 DEF StartReadLlm
  <1>7. ASSUME NEW s \in Slots, StartInspect(s), UNCHANGED envVars PROVE LocalsKnown'
    BY <1>7 DEF StartInspect
  <1>8. ASSUME NEW s \in Slots, StartRemove(s), UNCHANGED envVars PROVE LocalsKnown'
    BY <1>8 DEF StartRemove
  <1>9. ASSUME NEW s \in Slots, StartIssue(s), UNCHANGED envVars PROVE LocalsKnown'
    BY <1>9 DEF StartIssue
  <1>10. ASSUME NEW s \in Slots, StartCreate(s), UNCHANGED envVars PROVE LocalsKnown'
    BY <1>10 DEF StartCreate, Create
  <1>11. ASSUME NEW s \in Slots, StartStart(s), UNCHANGED envVars PROVE LocalsKnown'
    BY <1>11 DEF StartStart
  <1>12. ASSUME NEW s \in Slots, CreateInsert(s) PROVE LocalsKnown'
    BY <1>12 DEF CreateInsert, Insert
  <1>13. ASSUME NEW s \in Slots, CreateStopped(s) PROVE LocalsKnown'
    BY <1>13 DEF CreateStopped
  <1>14. ASSUME NEW s \in Slots, CreateKey(s) PROVE LocalsKnown'
    BY <1>14 DEF CreateKey
  <1>15. ASSUME NEW s \in Slots, RestartCreating(s) PROVE LocalsKnown'
    BY <1>15 DEF RestartCreating
  <1>16. ASSUME NEW s \in Slots, RestartRunning(s) PROVE LocalsKnown'
    BY <1>16 DEF RestartRunning
  <1>17. ASSUME NEW s \in Slots, DeleteRow(s) PROVE LocalsKnown'
    BY <1>17 DEF DeleteRow
  <1>18. ASSUME NEW s \in Slots, ConfigLlm(s) PROVE LocalsKnown'
    BY <1>18 DEF ConfigLlm
  <1>19. ASSUME NEW s \in Slots, ConfigRunning(s) PROVE LocalsKnown'
    BY <1>19 DEF ConfigRunning
  <1>20. ASSUME NEW s \in Slots, DispatchRead(s) PROVE LocalsKnown'
    BY <1>20 DEF DispatchRead
  <1>21. ASSUME NEW s \in Slots, DispatchAlive(s) PROVE LocalsKnown'
    BY <1>21 DEF DispatchAlive
  <1>22. ASSUME NEW s \in Slots, DispatchLabel(s) PROVE LocalsKnown'
    BY <1>22 DEF DispatchLabel
  <1>23. ASSUME NEW s \in Slots, DispatchUpdate(s) PROVE LocalsKnown'
    BY <1>23 DEF DispatchUpdate
  <1>24. ASSUME NEW s \in Slots, WebhookRunning(s) PROVE LocalsKnown'
    BY <1>24 DEF WebhookRunning
  <1>25. ASSUME NEW s \in Slots, WebhookTouch(s) PROVE LocalsKnown'
    BY <1>25 DEF WebhookTouch
  <1>26. ASSUME NEW s \in Slots, IdleNull(s) PROVE LocalsKnown'
    BY <1>26 DEF IdleNull
  <1>27. ASSUME NEW s \in Slots, MonitorCheck(s) PROVE LocalsKnown'
    BY <1>27 DEF MonitorCheck
  <1>28. ASSUME NEW s \in Slots, MonitorNull(s) PROVE LocalsKnown'
    BY <1>28 DEF MonitorNull
  <1>29. ASSUME NEW s \in Slots, BeginCreate(s) PROVE LocalsKnown'
    BY <1>29 DEF BeginCreate, Request, Cron, Enter
  <1>30. ASSUME NEW s \in Slots, BeginRestart(s) PROVE LocalsKnown'
    BY <1>30 DEF BeginRestart, Request, Cron, Enter
  <1>31. ASSUME NEW s \in Slots, BeginDelete(s) PROVE LocalsKnown'
    BY <1>31 DEF BeginDelete, Request, Cron, Enter
  <1>32. ASSUME NEW s \in Slots, BeginConfig(s) PROVE LocalsKnown'
    BY <1>32 DEF BeginConfig, Request, Cron, Enter
  <1>33. ASSUME NEW s \in Slots, BeginSlack(s) PROVE LocalsKnown'
    BY <1>33 DEF BeginSlack, Request, Cron, Enter
  <1>34. ASSUME NEW s \in Slots, BeginSchedule(s) PROVE LocalsKnown'
    BY <1>34 DEF BeginSchedule, Request, Cron, Enter
  <1>35. ASSUME NEW s \in Slots, BeginWebhook(s) PROVE LocalsKnown'
    BY <1>35 DEF BeginWebhook, Request, Cron, Enter
  <1>36. ASSUME NEW s \in Slots, BeginIdle(s) PROVE LocalsKnown'
    BY <1>36 DEF BeginIdle, Request, Cron, Enter
  <1>37. ASSUME NEW s \in Slots, BeginMonitor(s) PROVE LocalsKnown'
    BY <1>37 DEF BeginMonitor, Request, Cron, Enter
  <1>38. CASE ContainerDies
    BY <1>38 DEF ContainerDies
  <1>39. CASE TimePasses
    BY <1>39 DEF TimePasses
  <1>40. CASE OrchestratorCrashes
    BY <1>40 DEF OrchestratorCrashes
  <1>41. CASE UNCHANGED vars
    BY <1>41 DEF vars, cmVars
  <1> QED
    BY <1>1, <1>2, <1>3, <1>4, <1>5, <1>6, <1>7, <1>8, <1>9, <1>10, <1>11, <1>12, <1>13, <1>14,
       <1>15, <1>16, <1>17, <1>18, <1>19, <1>20, <1>21, <1>22, <1>23, <1>24, <1>25, <1>26, <1>27,
       <1>28, <1>29, <1>30, <1>31, <1>32, <1>33, <1>34, <1>35, <1>36, <1>37, <1>38, <1>39, <1>40,
       <1>41
       DEF Next, Begin, Step, ContainerStep, Environment

-----------------------------------------------------------------------------
\* What a handler does leaves the place of every other handler alone.
LEMMA OtherSlotStays ==
  ASSUME TypeOK, NEW s \in Slots, NEW t \in Slots, s # t, Begin(t) \/ Step(t)
  PROVE  pc'[s] = pc[s] /\ loc'[s] = loc[s]
  <1> USE DEF TypeOK
  <1>1. CASE Begin(t)
    BY <1>1 DEF Begin, BeginCreate, BeginRestart, BeginDelete, BeginConfig, BeginSlack,
        BeginSchedule, BeginWebhook, BeginIdle, BeginMonitor, Request, Cron, Enter
  <1>2. CASE ContainerStep(t)
    BY <1>2 DEF ContainerStep, StopInspect, StopStop, StopRemove, StopRevoke, StartResolve,
        StartReadLlm, StartInspect, StartRemove, StartIssue, StartCreate, StartStart
  <1>3. CASE Step(t) /\ ~ContainerStep(t)
    BY <1>3 DEF Step, CreateInsert, CreateStopped, CreateKey, RestartCreating, RestartRunning,
        DeleteRow, ConfigLlm, ConfigRunning, DispatchRead, DispatchAlive, DispatchLabel,
        DispatchUpdate, WebhookRunning, WebhookTouch, IdleNull, MonitorCheck, MonitorNull
  <1> QED
    BY <1>1, <1>2, <1>3

\* A write that keeps the token of the row keeps the token the proxy takes.
LEMMA WriteKeepsToken ==
  ASSUME TypeOK, NEW new,
         row # NoRow => new \in Rows /\ new.jti = row.jti,
         Update(new) \/ (\E iid : UpdateById(iid, new))
  PROVE  LiveToken' = LiveToken
  BY NullsAreNotRecords DEF TypeOK, Update, UpdateById, Write, LiveToken

\* Only these calls touch the token on record, and only issue mints one.
Tokens(s) == StopRevoke(s) \/ StartIssue(s) \/ CreateInsert(s) \/ DeleteRow(s)

LEMMA TokenUntouched ==
  ASSUME TypeOK, NEW s \in Slots, Begin(s) \/ (Step(s) /\ ~Tokens(s))
  PROVE  LiveToken' = LiveToken /\ minted'.jti = minted.jti
  <1> USE DEF TypeOK, LiveToken
  <1>1. CASE Begin(s) /\ ~BeginSlack(s)
    BY <1>1 DEF Begin, BeginCreate, BeginRestart, BeginDelete, BeginConfig,
        BeginSchedule, BeginWebhook, BeginIdle, BeginMonitor, Request, Cron, Enter
  <1>2. CASE BeginSlack(s)
    <2>1. minted' = minted /\ row # NoRow /\ row' \in {row, [row EXCEPT !.activity = "recent"]}
      BY <1>2 DEF BeginSlack, Request, Enter, Write
    <2>2. row' \in Rows /\ row'.jti = row.jti
      BY <2>1
    <2> QED
      BY <2>1, <2>2
  <1>3. CASE ContainerStep(s) /\ ~Tokens(s)
    BY <1>3 DEF Tokens, ContainerStep, StopInspect, StopStop, StopRemove, StartResolve,
        StartReadLlm, StartInspect, StartRemove, StartCreate, Create, StartStart
  <1>4. CASE RestartCreating(s)
    <2>1. row # NoRow => /\ [row EXCEPT !.status = "creating", !.cid = NoRef] \in Rows
                         /\ [row EXCEPT !.status = "creating", !.cid = NoRef].jti = row.jti
      OBVIOUS
    <2>2. minted' = minted /\ Update([row EXCEPT !.status = "creating", !.cid = NoRef])
      BY <1>4 DEF RestartCreating
    <2> QED
      BY <2>1, <2>2, WriteKeepsToken
  <1>5. CASE RestartRunning(s)
    <2>1. row # NoRow => /\ [row EXCEPT !.status = "running", !.cid = loc[s].ref] \in Rows
                         /\ [row EXCEPT !.status = "running", !.cid = loc[s].ref].jti = row.jti
      OBVIOUS
    <2>2. minted' = minted /\ Update([row EXCEPT !.status = "running", !.cid = loc[s].ref])
      BY <1>5 DEF RestartRunning
    <2> QED
      BY <2>1, <2>2, WriteKeepsToken
  <1>6. CASE ConfigRunning(s)
    <2>1. row # NoRow => /\ [row EXCEPT !.status = "running", !.cid = loc[s].ref] \in Rows
                         /\ [row EXCEPT !.status = "running", !.cid = loc[s].ref].jti = row.jti
      OBVIOUS
    <2>2. minted' = minted /\ Update([row EXCEPT !.status = "running", !.cid = loc[s].ref])
      BY <1>6 DEF ConfigRunning
    <2> QED
      BY <2>1, <2>2, WriteKeepsToken
  <1>7. CASE DispatchUpdate(s)
    <2>1. row # NoRow => /\ [row EXCEPT !.status = "running", !.cid = loc[s].ref, !.activity = "recent"] \in Rows
                         /\ [row EXCEPT !.status = "running", !.cid = loc[s].ref, !.activity = "recent"].jti = row.jti
      OBVIOUS
    <2>2. minted' = minted /\ Update([row EXCEPT !.status = "running", !.cid = loc[s].ref, !.activity = "recent"])
      BY <1>7 DEF DispatchUpdate
    <2> QED
      BY <2>1, <2>2, WriteKeepsToken
  <1>8. CASE WebhookRunning(s)
    <2>1. row # NoRow => /\ [row EXCEPT !.status = "running", !.cid = loc[s].ref, !.activity = "recent"] \in Rows
                         /\ [row EXCEPT !.status = "running", !.cid = loc[s].ref, !.activity = "recent"].jti = row.jti
      OBVIOUS
    <2>2. minted' = minted /\ Update([row EXCEPT !.status = "running", !.cid = loc[s].ref, !.activity = "recent"])
      BY <1>8 DEF WebhookRunning
    <2> QED
      BY <2>1, <2>2, WriteKeepsToken
  <1>9. CASE WebhookTouch(s)
    <2>1. row # NoRow => /\ [row EXCEPT !.activity = "recent"] \in Rows
                         /\ [row EXCEPT !.activity = "recent"].jti = row.jti
      OBVIOUS
    <2>2. minted' = minted /\ Update([row EXCEPT !.activity = "recent"])
      BY <1>9 DEF WebhookTouch
    <2> QED
      BY <2>1, <2>2, WriteKeepsToken
  <1>10. CASE IdleNull(s)
    <2>1. row # NoRow => /\ [row EXCEPT !.status = "stopped", !.cid = NoRef, !.activity = "recent"] \in Rows
                         /\ [row EXCEPT !.status = "stopped", !.cid = NoRef, !.activity = "recent"].jti = row.jti
      OBVIOUS
    <2>2. minted' = minted /\ Update([row EXCEPT !.status = "stopped", !.cid = NoRef, !.activity = "recent"])
      BY <1>10 DEF IdleNull
    <2> QED
      BY <2>1, <2>2, WriteKeepsToken
  <1>11. CASE MonitorNull(s)
    <2>1. row # NoRow => /\ [row EXCEPT !.status = "stopped", !.cid = NoRef] \in Rows
                         /\ [row EXCEPT !.status = "stopped", !.cid = NoRef].jti = row.jti
      OBVIOUS
    <2>2. minted' = minted /\ UpdateById(loc[s].iid, [row EXCEPT !.status = "stopped", !.cid = NoRef])
      BY <1>11 DEF MonitorNull
    <2> QED
      BY <2>1, <2>2, WriteKeepsToken
  <1>12. CASE CreateStopped(s)
    <2>1. row # NoRow => /\ [row EXCEPT !.status = "stopped"] \in Rows
                         /\ [row EXCEPT !.status = "stopped"].jti = row.jti
      OBVIOUS
    <2>2. minted' = minted /\ UpdateById(loc[s].iid, [row EXCEPT !.status = "stopped"])
      BY <1>12 DEF CreateStopped
    <2> QED
      BY <2>1, <2>2, WriteKeepsToken
  <1>13. CASE CreateKey(s)
    <2>1. row # NoRow => /\ [row EXCEPT !.llm = Byok] \in Rows
                         /\ [row EXCEPT !.llm = Byok].jti = row.jti
                         /\ [row EXCEPT !.status = "error"] \in Rows
                         /\ [row EXCEPT !.status = "error"].jti = row.jti
      OBVIOUS
    <2>2. minted' = minted /\ (\/ UpdateById(loc[s].iid, [row EXCEPT !.llm = Byok])
                              \/ UpdateById(loc[s].iid, [row EXCEPT !.status = "error"]))
      BY <1>13 DEF CreateKey
    <2> QED
      BY <2>1, <2>2, WriteKeepsToken
  <1>14. CASE ConfigLlm(s)
    <2>1. ASSUME NEW llm \in Llms, Update([row EXCEPT !.llm = llm]) PROVE LiveToken' = LiveToken
      <3>1. row # NoRow => [row EXCEPT !.llm = llm] \in Rows /\ [row EXCEPT !.llm = llm].jti = row.jti
        OBVIOUS
      <3> QED
        BY <2>1, <3>1, WriteKeepsToken
    <2>2. minted' = minted /\ (row' = row \/ \E llm \in Llms : Update([row EXCEPT !.llm = llm]))
      BY <1>14 DEF ConfigLlm
    <2> QED
      BY <2>1, <2>2
  <1>15. CASE DispatchRead(s) \/ DispatchAlive(s) \/ DispatchLabel(s) \/ MonitorCheck(s)
    BY <1>15 DEF DispatchRead, DispatchAlive, DispatchLabel, MonitorCheck
  <1> QED
    BY <1>1, <1>2, <1>3, <1>4, <1>5, <1>6, <1>7, <1>8, <1>9, <1>10, <1>11, <1>12, <1>13, <1>14,
       <1>15 DEF Step, ContainerStep, Tokens

-----------------------------------------------------------------------------
\* A step records no token that was not minted.
LEMMA TokenStep == TypeOK /\ TokenMinted /\ [Next]_vars => TokenMinted'
  <1> SUFFICES ASSUME TypeOK /\ TokenMinted, [Next]_vars PROVE TokenMinted'
    OBVIOUS
  <1> USE DEF TypeOK, TokenMinted
  <1>1. ASSUME NEW s \in Slots, Begin(s) \/ (Step(s) /\ ~Tokens(s)) PROVE TokenMinted'
    BY <1>1, TokenUntouched
  <1>2. ASSUME NEW s \in Slots, StopRevoke(s) PROVE TokenMinted'
    BY <1>2 DEF StopRevoke, Write, Revoked, LiveToken
  <1>3. ASSUME NEW s \in Slots, StartIssue(s) PROVE TokenMinted'
    BY <1>3 DEF StartIssue, LiveToken
  <1>4. ASSUME NEW s \in Slots, CreateInsert(s) PROVE TokenMinted'
    BY <1>4 DEF CreateInsert, Insert, LiveToken
  <1>5. ASSUME NEW s \in Slots, DeleteRow(s) PROVE TokenMinted'
    BY <1>5 DEF DeleteRow, Write, LiveToken
  <1>6. CASE Environment \/ UNCHANGED vars
    BY <1>6 DEF Environment, ContainerDies, TimePasses, OrchestratorCrashes, vars, cmVars, LiveToken
  <1> QED
    BY <1>1, <1>2, <1>3, <1>4, <1>5, <1>6 DEF Next, Tokens

-----------------------------------------------------------------------------
\* A write that leaves a running row its container keeps RunningHasContainer.
LEMMA WriteKeepsRunning ==
  ASSUME TypeOK, RunningHasContainer, NEW new,
         row # NoRow => new \in Rows /\ (new.status = "running" => new.cid # NoRef),
         Update(new) \/ (\E iid : UpdateById(iid, new))
  PROVE  RunningHasContainer'
  BY NullsAreNotRecords DEF TypeOK, Update, UpdateById, Write, RunningHasContainer

\* A step leaves no row running without a container.
LEMMA RunningStep == TypeOK /\ LocalsKnown /\ RunningHasContainer /\ [Next]_vars => RunningHasContainer'
  <1> SUFFICES ASSUME TypeOK /\ LocalsKnown /\ RunningHasContainer, [Next]_vars PROVE RunningHasContainer'
    OBVIOUS
  <1> USE DEF TypeOK, LocalsKnown, Started, RunningHasContainer
  <1>1. ASSUME NEW s \in Slots, StopInspect(s), UNCHANGED envVars PROVE RunningHasContainer'
    BY <1>1 DEF StopInspect
  <1>2. ASSUME NEW s \in Slots, StopStop(s), UNCHANGED envVars PROVE RunningHasContainer'
    BY <1>2 DEF StopStop
  <1>3. ASSUME NEW s \in Slots, StopRemove(s), UNCHANGED envVars PROVE RunningHasContainer'
    BY <1>3 DEF StopRemove
  <1>4. ASSUME NEW s \in Slots, StopRevoke(s), UNCHANGED envVars PROVE RunningHasContainer'
    BY <1>4 DEF StopRevoke, Write, Revoked
  <1>5. ASSUME NEW s \in Slots, StartResolve(s), UNCHANGED envVars PROVE RunningHasContainer'
    BY <1>5 DEF StartResolve
  <1>6. ASSUME NEW s \in Slots, StartReadLlm(s), UNCHANGED envVars PROVE RunningHasContainer'
    BY <1>6 DEF StartReadLlm
  <1>7. ASSUME NEW s \in Slots, StartInspect(s), UNCHANGED envVars PROVE RunningHasContainer'
    BY <1>7 DEF StartInspect
  <1>8. ASSUME NEW s \in Slots, StartRemove(s), UNCHANGED envVars PROVE RunningHasContainer'
    BY <1>8 DEF StartRemove
  <1>9. ASSUME NEW s \in Slots, StartIssue(s), UNCHANGED envVars PROVE RunningHasContainer'
    BY <1>9 DEF StartIssue
  <1>10. ASSUME NEW s \in Slots, StartCreate(s), UNCHANGED envVars PROVE RunningHasContainer'
    BY <1>10 DEF StartCreate, Create
  <1>11. ASSUME NEW s \in Slots, StartStart(s), UNCHANGED envVars PROVE RunningHasContainer'
    BY <1>11 DEF StartStart
  <1>12. ASSUME NEW s \in Slots, CreateInsert(s) PROVE RunningHasContainer'
    BY <1>12 DEF CreateInsert, Insert
  <1>13. ASSUME NEW s \in Slots, CreateStopped(s) PROVE RunningHasContainer'
    <2>1. row # NoRow => /\ [row EXCEPT !.status = "stopped"] \in Rows
                         /\ [row EXCEPT !.status = "stopped"].status = "running" =>
                               [row EXCEPT !.status = "stopped"].cid # NoRef
      OBVIOUS
    <2>2. UpdateById(loc[s].iid, [row EXCEPT !.status = "stopped"])
      BY <1>13 DEF CreateStopped
    <2> QED
      BY <2>1, <2>2, WriteKeepsRunning
  <1>14. ASSUME NEW s \in Slots, CreateKey(s) PROVE RunningHasContainer'
    <2>1. row # NoRow => /\ [row EXCEPT !.llm = Byok] \in Rows
                         /\ [row EXCEPT !.llm = Byok].status = row.status
                         /\ [row EXCEPT !.llm = Byok].cid = row.cid
                         /\ [row EXCEPT !.status = "error"] \in Rows
                         /\ [row EXCEPT !.status = "error"].status = "error"
      OBVIOUS
    <2>2. \/ UpdateById(loc[s].iid, [row EXCEPT !.llm = Byok])
          \/ UpdateById(loc[s].iid, [row EXCEPT !.status = "error"])
      BY <1>14 DEF CreateKey
    <2> QED
      BY <2>1, <2>2, WriteKeepsRunning
  <1>15. ASSUME NEW s \in Slots, RestartCreating(s) PROVE RunningHasContainer'
    <2>1. row # NoRow => /\ [row EXCEPT !.status = "creating", !.cid = NoRef] \in Rows
                         /\ [row EXCEPT !.status = "creating", !.cid = NoRef].status = "running" =>
                               [row EXCEPT !.status = "creating", !.cid = NoRef].cid # NoRef
      OBVIOUS
    <2>2. Update([row EXCEPT !.status = "creating", !.cid = NoRef])
      BY <1>15 DEF RestartCreating
    <2> QED
      BY <2>1, <2>2, WriteKeepsRunning
  <1>16. ASSUME NEW s \in Slots, RestartRunning(s) PROVE RunningHasContainer'
    <2>0. loc[s].ref # NoRef
      BY <1>16 DEF RestartRunning
    <2>1. row # NoRow => /\ [row EXCEPT !.status = "running", !.cid = loc[s].ref] \in Rows
                         /\ [row EXCEPT !.status = "running", !.cid = loc[s].ref].status = "running" =>
                               [row EXCEPT !.status = "running", !.cid = loc[s].ref].cid # NoRef
      BY <2>0
    <2>2. Update([row EXCEPT !.status = "running", !.cid = loc[s].ref])
      BY <1>16 DEF RestartRunning
    <2> QED
      BY <2>1, <2>2, WriteKeepsRunning
  <1>17. ASSUME NEW s \in Slots, DeleteRow(s) PROVE RunningHasContainer'
    BY <1>17 DEF DeleteRow, Write
  <1>18. ASSUME NEW s \in Slots, ConfigLlm(s) PROVE RunningHasContainer'
    <2>1. ASSUME NEW llm \in Llms, Update([row EXCEPT !.llm = llm]) PROVE RunningHasContainer'
      <3>1. row # NoRow => /\ [row EXCEPT !.llm = llm] \in Rows
                           /\ [row EXCEPT !.llm = llm].status = row.status
                           /\ [row EXCEPT !.llm = llm].cid = row.cid
        OBVIOUS
      <3> QED
        BY <2>1, <3>1, WriteKeepsRunning
    <2>2. row' = row \/ \E llm \in Llms : Update([row EXCEPT !.llm = llm])
      BY <1>18 DEF ConfigLlm
    <2> QED
      BY <2>1, <2>2
  <1>19. ASSUME NEW s \in Slots, ConfigRunning(s) PROVE RunningHasContainer'
    <2>0. loc[s].ref # NoRef
      BY <1>19 DEF ConfigRunning
    <2>1. row # NoRow => /\ [row EXCEPT !.status = "running", !.cid = loc[s].ref] \in Rows
                         /\ [row EXCEPT !.status = "running", !.cid = loc[s].ref].status = "running" =>
                               [row EXCEPT !.status = "running", !.cid = loc[s].ref].cid # NoRef
      BY <2>0
    <2>2. Update([row EXCEPT !.status = "running", !.cid = loc[s].ref])
      BY <1>19 DEF ConfigRunning
    <2> QED
      BY <2>1, <2>2, WriteKeepsRunning
  <1>20. ASSUME NEW s \in Slots, DispatchRead(s) PROVE RunningHasContainer'
    BY <1>20 DEF DispatchRead
  <1>21. ASSUME NEW s \in Slots, DispatchAlive(s) PROVE RunningHasContainer'
    BY <1>21 DEF DispatchAlive
  <1>22. ASSUME NEW s \in Slots, DispatchLabel(s) PROVE RunningHasContainer'
    BY <1>22 DEF DispatchLabel
  <1>23. ASSUME NEW s \in Slots, DispatchUpdate(s) PROVE RunningHasContainer'
    <2>0. loc[s].ref # NoRef
      BY <1>23 DEF DispatchUpdate
    <2>1. row # NoRow => /\ [row EXCEPT !.status = "running", !.cid = loc[s].ref, !.activity = "recent"] \in Rows
                         /\ [row EXCEPT !.status = "running", !.cid = loc[s].ref, !.activity = "recent"].status = "running" =>
                               [row EXCEPT !.status = "running", !.cid = loc[s].ref, !.activity = "recent"].cid # NoRef
      BY <2>0
    <2>2. Update([row EXCEPT !.status = "running", !.cid = loc[s].ref, !.activity = "recent"])
      BY <1>23 DEF DispatchUpdate
    <2> QED
      BY <2>1, <2>2, WriteKeepsRunning
  <1>24. ASSUME NEW s \in Slots, WebhookRunning(s) PROVE RunningHasContainer'
    <2>0. loc[s].ref # NoRef
      BY <1>24 DEF WebhookRunning
    <2>1. row # NoRow => /\ [row EXCEPT !.status = "running", !.cid = loc[s].ref, !.activity = "recent"] \in Rows
                         /\ [row EXCEPT !.status = "running", !.cid = loc[s].ref, !.activity = "recent"].status = "running" =>
                               [row EXCEPT !.status = "running", !.cid = loc[s].ref, !.activity = "recent"].cid # NoRef
      BY <2>0
    <2>2. Update([row EXCEPT !.status = "running", !.cid = loc[s].ref, !.activity = "recent"])
      BY <1>24 DEF WebhookRunning
    <2> QED
      BY <2>1, <2>2, WriteKeepsRunning
  <1>25. ASSUME NEW s \in Slots, WebhookTouch(s) PROVE RunningHasContainer'
    <2>1. row # NoRow => /\ [row EXCEPT !.activity = "recent"] \in Rows
                         /\ [row EXCEPT !.activity = "recent"].status = "running" =>
                               [row EXCEPT !.activity = "recent"].cid # NoRef
      OBVIOUS
    <2>2. Update([row EXCEPT !.activity = "recent"])
      BY <1>25 DEF WebhookTouch
    <2> QED
      BY <2>1, <2>2, WriteKeepsRunning
  <1>26. ASSUME NEW s \in Slots, IdleNull(s) PROVE RunningHasContainer'
    <2>1. row # NoRow => /\ [row EXCEPT !.status = "stopped", !.cid = NoRef, !.activity = "recent"] \in Rows
                         /\ [row EXCEPT !.status = "stopped", !.cid = NoRef, !.activity = "recent"].status = "running" =>
                               [row EXCEPT !.status = "stopped", !.cid = NoRef, !.activity = "recent"].cid # NoRef
      OBVIOUS
    <2>2. Update([row EXCEPT !.status = "stopped", !.cid = NoRef, !.activity = "recent"])
      BY <1>26 DEF IdleNull
    <2> QED
      BY <2>1, <2>2, WriteKeepsRunning
  <1>27. ASSUME NEW s \in Slots, MonitorCheck(s) PROVE RunningHasContainer'
    BY <1>27 DEF MonitorCheck
  <1>28. ASSUME NEW s \in Slots, MonitorNull(s) PROVE RunningHasContainer'
    <2>1. row # NoRow => /\ [row EXCEPT !.status = "stopped", !.cid = NoRef] \in Rows
                         /\ [row EXCEPT !.status = "stopped", !.cid = NoRef].status = "running" =>
                               [row EXCEPT !.status = "stopped", !.cid = NoRef].cid # NoRef
      OBVIOUS
    <2>2. UpdateById(loc[s].iid, [row EXCEPT !.status = "stopped", !.cid = NoRef])
      BY <1>28 DEF MonitorNull
    <2> QED
      BY <2>1, <2>2, WriteKeepsRunning
  <1>29. ASSUME NEW s \in Slots, BeginCreate(s) PROVE RunningHasContainer'
    BY <1>29 DEF BeginCreate, Request, Cron, Enter
  <1>30. ASSUME NEW s \in Slots, BeginRestart(s) PROVE RunningHasContainer'
    BY <1>30 DEF BeginRestart, Request, Cron, Enter
  <1>31. ASSUME NEW s \in Slots, BeginDelete(s) PROVE RunningHasContainer'
    BY <1>31 DEF BeginDelete, Request, Cron, Enter
  <1>32. ASSUME NEW s \in Slots, BeginConfig(s) PROVE RunningHasContainer'
    BY <1>32 DEF BeginConfig, Request, Cron, Enter
  <1>33. ASSUME NEW s \in Slots, BeginSlack(s) PROVE RunningHasContainer'
    BY <1>33 DEF BeginSlack, Request, Enter, Write
  <1>34. ASSUME NEW s \in Slots, BeginSchedule(s) PROVE RunningHasContainer'
    BY <1>34 DEF BeginSchedule, Request, Cron, Enter
  <1>35. ASSUME NEW s \in Slots, BeginWebhook(s) PROVE RunningHasContainer'
    BY <1>35 DEF BeginWebhook, Request, Cron, Enter
  <1>36. ASSUME NEW s \in Slots, BeginIdle(s) PROVE RunningHasContainer'
    BY <1>36 DEF BeginIdle, Request, Cron, Enter
  <1>37. ASSUME NEW s \in Slots, BeginMonitor(s) PROVE RunningHasContainer'
    BY <1>37 DEF BeginMonitor, Request, Cron, Enter
  <1>38. CASE ContainerDies
    BY <1>38 DEF ContainerDies
  <1>39. CASE TimePasses
    BY <1>39 DEF TimePasses
  <1>40. CASE OrchestratorCrashes
    BY <1>40 DEF OrchestratorCrashes
  <1>41. CASE UNCHANGED vars
    BY <1>41 DEF vars, cmVars
  <1> QED
    BY <1>1, <1>2, <1>3, <1>4, <1>5, <1>6, <1>7, <1>8, <1>9, <1>10, <1>11, <1>12, <1>13, <1>14,
       <1>15, <1>16, <1>17, <1>18, <1>19, <1>20, <1>21, <1>22, <1>23, <1>24, <1>25, <1>26, <1>27,
       <1>28, <1>29, <1>30, <1>31, <1>32, <1>33, <1>34, <1>35, <1>36, <1>37, <1>38, <1>39, <1>40,
       <1>41
       DEF Next, Begin, Step, ContainerStep, Environment

-----------------------------------------------------------------------------
\* Handlers and history saw no failure that is still to come.
LEMMA FaultsStep == TypeOK /\ FaultsPast /\ [Next]_vars => FaultsPast'
  <1> SUFFICES ASSUME TypeOK /\ FaultsPast, [Next]_vars PROVE FaultsPast'
    OBVIOUS
  <1> USE DEF TypeOK, FaultsPast
  <1>1. ASSUME NEW s \in Slots, Begin(s) \/ Step(s),
               faults' \in {faults, faults + 1}, mended' \in {mended, loc[s].seen},
               loc'[s].seen \in {loc[s].seen, faults, 0}
        PROVE  FaultsPast'
    BY <1>1, OtherSlotStays
  <1>2. ASSUME NEW s \in Slots, Begin(s) PROVE FaultsPast'
    <2>1. /\ faults' \in {faults, faults + 1} /\ mended' = mended
          /\ loc'[s].seen = faults
      BY <1>2 DEF Begin, BeginCreate, BeginRestart, BeginDelete, BeginConfig, BeginSlack,
         BeginSchedule, BeginWebhook, BeginIdle, BeginMonitor, Request, Cron, Enter, Write,
         Succeeds, Fails
    <2> QED
      BY <1>1, <1>2, <2>1
  <1>3. ASSUME NEW s \in Slots, Step(s) PROVE FaultsPast'
    <2> USE DEF Succeeds, Fails, Write, Update, UpdateById
    <2>1. faults' \in {faults, faults + 1} /\ mended' \in {mended, loc[s].seen}
      BY <1>3, ZenonT(40) DEF Step, ContainerStep, StopInspect, StopStop, StopRemove, StopRevoke,
         StartResolve, StartReadLlm, StartInspect, StartRemove, StartIssue, StartCreate, StartStart,
         CreateInsert, CreateStopped, CreateKey, RestartCreating, RestartRunning,
         DeleteRow, ConfigLlm, ConfigRunning, DispatchRead, DispatchAlive, DispatchLabel,
         DispatchUpdate, WebhookRunning, WebhookTouch, IdleNull, MonitorCheck, MonitorNull
    <2>2. loc'[s].seen \in {loc[s].seen, 0}
      <3>1. CASE ContainerStep(s)
        BY <3>1 DEF ContainerStep, StopInspect, StopStop, StopRemove, StopRevoke,
           StartResolve, StartReadLlm, StartInspect, StartRemove, StartIssue, StartCreate, StartStart
      <3>2. CASE ~ContainerStep(s)
        BY <1>3, <3>2 DEF Step, CreateInsert, CreateStopped, CreateKey, RestartCreating, RestartRunning,
           DeleteRow, ConfigLlm, ConfigRunning, DispatchRead, DispatchAlive, DispatchLabel,
           DispatchUpdate, WebhookRunning, WebhookTouch, IdleNull, MonitorCheck, MonitorNull
      <3> QED
        BY <3>1, <3>2
    <2> QED
      BY <1>1, <1>3, <2>1, <2>2
  <1>4. CASE Environment \/ UNCHANGED vars
    BY <1>4 DEF Environment, ContainerDies, TimePasses, OrchestratorCrashes, vars, cmVars
  <1> QED
    BY <1>2, <1>3, <1>4 DEF Next

-----------------------------------------------------------------------------
\* Tokens stay apart while no handler gets one and no container another.
LEMMA ApartKept ==
  ASSUME TypeOK, TokensApart,
         \A s \in Slots : Awaiting(s)' => Awaiting(s) /\ loc'[s].tok = loc[s].tok,
         \/ docker' = NoContainer
         \/ docker # NoContainer /\ docker'.tok = docker.tok,
         minted'.jti = minted.jti
  PROVE  TokensApart'
  BY DEF TokensApart

\* A step that is neither issue nor create does neither.
LEMMA NothingHandedOut ==
  ASSUME TypeOK, NEW s \in Slots, Begin(s) \/ (Step(s) /\ ~StartIssue(s) /\ ~StartCreate(s))
  PROVE  /\ pc[s] # "start_create" /\ pc'[s] # "start_create"
         /\ docker' = NoContainer \/ (docker # NoContainer /\ docker'.tok = docker.tok)
         /\ minted'.jti = minted.jti
  <1> USE DEF TypeOK
  <1>1. CASE Begin(s)
    BY <1>1 DEF Begin, BeginCreate, BeginRestart, BeginDelete, BeginConfig, BeginSlack,
       BeginSchedule, BeginWebhook, BeginIdle, BeginMonitor, Request, Cron, Enter
  <1>2. CASE ContainerStep(s) /\ ~StartIssue(s) /\ ~StartCreate(s)
    BY <1>2 DEF ContainerStep, StopInspect, StopStop, StopRemove, StopRevoke,
       StartResolve, StartReadLlm, StartInspect, StartRemove, StartStart
  <1>3. CASE Step(s) /\ ~ContainerStep(s)
    BY <1>3 DEF Step, CreateInsert, Insert, CreateStopped, CreateKey, RestartCreating, RestartRunning,
       DeleteRow, ConfigLlm, ConfigRunning, DispatchRead, DispatchAlive, DispatchLabel,
       DispatchUpdate, WebhookRunning, WebhookTouch, IdleNull, MonitorCheck, MonitorNull
  <1> QED
    BY <1>1, <1>2, <1>3 DEF Step, ContainerStep

\* A token that is to be given to a container is for that one alone.
LEMMA ApartStep == TypeOK /\ TokensApart /\ [Next]_vars => TokensApart'
  <1> SUFFICES ASSUME TypeOK /\ TokensApart, [Next]_vars PROVE TokensApart'
    OBVIOUS
  <1> USE DEF TypeOK, Awaiting
  <1>1. ASSUME NEW s \in Slots, Begin(s) \/ (Step(s) /\ ~StartIssue(s) /\ ~StartCreate(s))
        PROVE  TokensApart'
    <2>1. \A t \in Slots : Awaiting(t)' => Awaiting(t) /\ loc'[t].tok = loc[t].tok
      BY <1>1, NothingHandedOut, OtherSlotStays
    <2> QED
      BY <1>1, <2>1, NothingHandedOut, ApartKept
  <1>2. ASSUME NEW s \in Slots, StartIssue(s) PROVE TokensApart'
    <2>1. /\ minted'.jti = minted.jti + 1 /\ docker' = docker
          /\ pc'[s] = "start_create" => loc'[s].tok = minted.jti + 1
      BY <1>2 DEF StartIssue
    <2>2. \A t \in Slots \ {s} : pc'[t] = pc[t] /\ loc'[t] = loc[t]
      BY <1>2 DEF StartIssue
    <2>3. \A t \in Slots \ {s} : Awaiting(t)' => Awaiting(t) /\ loc'[t].tok = loc[t].tok
      BY <2>2
    <2>4. \A t \in Slots \ {s} : Awaiting(t)' => loc'[t].tok # NoToken /\ loc'[t].tok <= minted.jti
      BY <2>3 DEF TokensApart
    <2>5. minted.jti \in Nat
      OBVIOUS
    <2> HIDE DEF TypeOK, Awaiting
    <2>6. \A t, u \in Slots : Awaiting(t)' /\ Awaiting(u)' /\ loc'[t].tok = loc'[u].tok => t = u
      <3> SUFFICES ASSUME NEW t \in Slots, NEW u \in Slots, Awaiting(t)', Awaiting(u)',
                          loc'[t].tok = loc'[u].tok, t # u
                   PROVE  FALSE
        OBVIOUS
      <3>1. CASE t # s /\ u # s
        BY <2>3, <3>1 DEF TokensApart
      <3>2. CASE t = s \/ u = s
        BY <2>1, <2>4, <2>5, <3>2 DEF Awaiting
      <3> QED
        BY <3>1, <3>2
    <2>7. \A t \in Slots : Awaiting(t)' => loc'[t].tok # NoToken /\ loc'[t].tok <= minted'.jti
      <3> SUFFICES ASSUME NEW t \in Slots, Awaiting(t)'
                   PROVE  loc'[t].tok # NoToken /\ loc'[t].tok <= minted'.jti
        OBVIOUS
      <3>1. CASE t = s
        BY <2>1, <2>5, <3>1, NullsAreDistinct DEF Awaiting
      <3>2. CASE t # s
        <4>1. loc'[t].tok # NoToken /\ loc'[t].tok <= minted.jti /\ loc'[t].tok \in Nat
          BY <2>2, <2>4, <3>2 DEF TypeOK
        <4> QED
          BY <2>1, <2>5, <4>1
      <3> QED
        BY <3>1, <3>2
    <2>8. ASSUME docker' # NoContainer, docker'.tok # NoToken
          PROVE  docker'.tok <= minted'.jti /\ \A t \in Slots : Awaiting(t)' => loc'[t].tok # docker'.tok
      <3>1. docker.tok \in Nat /\ docker.tok <= minted.jti
        BY <2>1, <2>8 DEF TokensApart, TypeOK
      <3>2. ASSUME NEW t \in Slots, Awaiting(t)' PROVE loc'[t].tok # docker'.tok
        <4>1. CASE t = s
          BY <2>1, <2>5, <3>1, <3>2, <4>1 DEF Awaiting
        <4>2. CASE t # s
          BY <2>1, <2>3, <2>8, <3>2, <4>2 DEF TokensApart
        <4> QED
          BY <4>1, <4>2
      <3> QED
        BY <2>1, <2>5, <3>1, <3>2
    <2> QED
      BY <2>6, <2>7, <2>8 DEF TokensApart
  <1>3. ASSUME NEW s \in Slots, StartCreate(s) PROVE TokensApart'
    <2>1. /\ minted'.jti = minted.jti
          /\ pc[s] = "start_create" /\ pc'[s] # "start_create"
      BY <1>3 DEF StartCreate, Create
    <2>2. \A t \in Slots : Awaiting(t)' => t # s /\ Awaiting(t) /\ loc'[t].tok = loc[t].tok
      BY <1>3, <2>1 DEF StartCreate
    <2>3. CASE docker' = docker
      BY <2>1, <2>2, <2>3, ApartKept
    <2>4. CASE docker' # docker
      <3>1. docker'.tok \in {NoToken, loc[s].tok}
        BY <1>3, <2>4 DEF StartCreate, Create
      <3> QED
        BY <2>1, <2>2, <3>1 DEF TokensApart
    <2> QED
      BY <2>3, <2>4
  <1>4. CASE ContainerDies
    <2>1. docker # NoContainer /\ docker'.tok = docker.tok
      BY <1>4 DEF ContainerDies
    <2> QED
      BY <1>4, <2>1, ApartKept DEF ContainerDies
  <1>5. CASE TimePasses \/ OrchestratorCrashes \/ UNCHANGED vars
    BY <1>5 DEF TimePasses, OrchestratorCrashes, vars, cmVars, TokensApart
  <1> HIDE DEF TypeOK, Awaiting
  <1>6. ASSUME NEW s \in Slots, Begin(s) \/ Step(s) PROVE TokensApart'
    BY <1>1, <1>2, <1>3, <1>6
  <1> QED
    BY <1>4, <1>5, <1>6 DEF Next, Environment

-----------------------------------------------------------------------------
\* Where handlers enter.
Entry == {"create_insert", "stop_inspect", "restart_creating", "delete_row",
          "config_llm", "start_resolve", "dispatch_read", "webhook_touch",
          "idle_null", "monitor_check"}

\* A handler that enters an idle system is undisturbed.
LEMMA EnterUndisturbed ==
  ASSUME TypeOK, SoloInv, NEW s \in Slots, NEW op, NEW ref, NEW point \in Entry,
         Enter(s, op, ref, point)
  PROVE  SoloInv'
  <1> USE DEF TypeOK, SoloInv, Undisturbed, Preparing, LlmRead, Started, Stopped
  <1>1. SUFFICES ASSUME NEW u \in Slots, solo' = u PROVE Undisturbed(u)'
    OBVIOUS
  <1>2. u = s /\ Quiescent
    BY <1>1 DEF Enter
  <1>3. pc'[s] = point /\ loc'[s].label = NoInstance
    BY DEF Enter
  <1>4. \A t \in Slots \ {s} : pc'[t] = "free"
    BY <1>2 DEF Enter, Quiescent
  <1> QED
    BY <1>2, <1>3, <1>4 DEF Entry

\* A step in slot s need only be shown to keep slot s undisturbed.
LEMMA StepUndisturbed ==
  ASSUME SoloInv, NEW s \in Slots, pc[s] # "free", solo' = solo,
         (solo = s /\ Undisturbed(s)) => Undisturbed(s)'
  PROVE  SoloInv'
  BY DEF SoloInv, Undisturbed

\* Nothing is asked of a slot whose handler has ended.
LEMMA FreeUndisturbed ==
  ASSUME NEW s \in Slots, pc'[s] = "free", \A t \in Slots \ {s} : pc'[t] = "free"
  PROVE  Undisturbed(s)'
  BY DEF Undisturbed, Preparing, LlmRead, Started, Stopped

\* A step keeps the facts an undisturbed handler relies on.
LEMMA SoloStep == TypeOK /\ LocalsKnown /\ FaultsPast /\ SoloInv /\ [Next]_vars => SoloInv'
  <1> SUFFICES ASSUME TypeOK /\ LocalsKnown /\ FaultsPast /\ SoloInv, [Next]_vars PROVE SoloInv'
    OBVIOUS
  <1> USE DEF TypeOK, LocalsKnown, SoloInv, Undisturbed, Matches, Preparing, LlmRead, Started, Stopped, Unstopped,
              FaultsPast, Unfailing, Succeeds, Fails
  <1>1. ASSUME NEW s \in Slots, StopInspect(s), UNCHANGED envVars PROVE SoloInv'
    <2>1. pc[s] # "free" /\ solo' = solo
      BY <1>1 DEF StopInspect
    <2>2. ASSUME solo = s, Undisturbed(s) PROVE Undisturbed(s)'
      BY <1>1, <2>2 DEF StopInspect
    <2> QED
      BY <2>1, <2>2, StepUndisturbed
  <1>2. ASSUME NEW s \in Slots, StopStop(s), UNCHANGED envVars PROVE SoloInv'
    BY <1>2 DEF StopStop
  <1>3. ASSUME NEW s \in Slots, StopRemove(s), UNCHANGED envVars PROVE SoloInv'
    BY <1>3 DEF StopRemove
  <1>4. ASSUME NEW s \in Slots, StopRevoke(s), UNCHANGED envVars PROVE SoloInv'
    <2>1. pc[s] # "free" /\ solo' = solo
      BY <1>4 DEF StopRevoke
    <2>2. ASSUME solo = s, Undisturbed(s) PROVE Undisturbed(s)'
      <3>1. faults' \in {faults, faults + 1} /\ loc' = loc /\ docker' = docker
        BY <1>4 DEF StopRevoke, Write
      <3>2. Unfailing(s)' => Unfailing(s)
        BY <3>1
      <3>3. Unfailing(s) /\ loc[s].label # NoInstance => ~Running
        BY <1>4, <2>2 DEF StopRevoke
      <3>4. pc'[s] \in {"restart_creating", "delete_row", "idle_null", "start_resolve"}
        BY <1>4 DEF StopRevoke
      <3>5. \A t \in Slots \ {s} : pc'[t] = "free"
        BY <1>4, <2>2 DEF StopRevoke
      <3> QED
        BY <3>1, <3>2, <3>3, <3>4, <3>5
    <2> QED
      BY <2>1, <2>2, StepUndisturbed
  <1>5. ASSUME NEW s \in Slots, StartResolve(s), UNCHANGED envVars PROVE SoloInv'
    BY <1>5 DEF StartResolve
  <1>6. ASSUME NEW s \in Slots, StartReadLlm(s), UNCHANGED envVars PROVE SoloInv'
    BY <1>6 DEF StartReadLlm
  <1>7. ASSUME NEW s \in Slots, StartInspect(s), UNCHANGED envVars PROVE SoloInv'
    BY <1>7 DEF StartInspect
  <1>8. ASSUME NEW s \in Slots, StartRemove(s), UNCHANGED envVars PROVE SoloInv'
    BY <1>8 DEF StartRemove
  <1>9. ASSUME NEW s \in Slots, StartIssue(s), UNCHANGED envVars PROVE SoloInv'
    <2>1. pc[s] # "free" /\ solo' = solo
      BY <1>9 DEF StartIssue
    <2>2. ASSUME solo = s, Undisturbed(s) PROVE Undisturbed(s)'
      <3>1. \A t \in Slots \ {s} : pc'[t] = "free"
        BY <1>9, <2>2 DEF StartIssue
      <3>2. CASE pc'[s] = "free"
        BY <3>1, <3>2
      <3>3. CASE pc'[s] # "free"
        <4>1. /\ pc'[s] = "start_create" /\ docker' = docker /\ faults' = faults
              /\ loc'[s].tok = minted.jti + 1 /\ loc'[s].iid = loc[s].iid
              /\ loc'[s].llm = loc[s].llm /\ loc'[s].label = loc[s].label
              /\ loc'[s].seen = loc[s].seen
          BY <1>9, <3>3 DEF StartIssue
        <4>2. row # NoRow /\ row.iid = loc[s].iid
          BY <1>9, <2>2 DEF StartIssue
        <4>3. row' = [row EXCEPT !.jti = minted.jti + 1]
          BY <1>9, <3>3, <4>2 DEF StartIssue
        <4>4. row' # NoRow /\ row'.iid = row.iid /\ row'.llm = row.llm /\ row'.jti = minted.jti + 1
          BY <4>2, <4>3
        <4>5. Unfailing(s) => loc[s].llm = row.llm /\ (loc[s].label # NoInstance => ~Running)
          BY <1>9, <2>2 DEF StartIssue
        <4> QED
          BY <3>1, <4>1, <4>2, <4>4, <4>5
      <3> QED
        BY <3>2, <3>3
    <2> QED
      BY <2>1, <2>2, StepUndisturbed
  <1>10. ASSUME NEW s \in Slots, StartCreate(s), UNCHANGED envVars PROVE SoloInv'
    <2>1. pc[s] # "free" /\ solo' = solo
      BY <1>10 DEF StartCreate
    <2>2. ASSUME solo = s, Undisturbed(s) PROVE Undisturbed(s)'
      <3>1. \A t \in Slots \ {s} : pc'[t] = "free"
        BY <1>10, <2>2 DEF StartCreate
      <3>2. CASE pc'[s] = "free"
        BY <3>1, <3>2
      <3>3. CASE pc'[s] # "free"
        <4>1. /\ pc'[s] = "start_start" /\ row' = row /\ faults' = faults
              /\ loc'[s].ref = minted.cid + 1 /\ loc'[s].label = loc[s].label
              /\ loc'[s].seen = loc[s].seen
          BY <1>10, <3>3 DEF StartCreate
        <4>2. docker' = [id |-> minted.cid + 1, state |-> "created",
                         tok |-> IF loc[s].llm = Byok THEN loc[s].tok ELSE NoToken,
                         iid |-> loc[s].iid, llm |-> loc[s].llm]
          BY <1>10, <3>3 DEF StartCreate, Create
        <4>3. docker' \in Containers
          BY <1>10, <4>2 DEF StartCreate
        <4>4. docker' # NoContainer
          BY <4>3, NullsAreNotRecords
        <4>5. /\ docker'.id = minted.cid + 1 /\ docker'.state = "created"
              /\ docker'.tok \in {NoToken, loc[s].tok}
              /\ docker'.iid = loc[s].iid /\ docker'.llm = loc[s].llm
          BY <4>2
        <4>6. /\ row # NoRow /\ loc[s].iid = row.iid /\ loc[s].tok = row.jti
              /\ Unfailing(s) => loc[s].llm = row.llm
          BY <1>10, <2>2 DEF StartCreate
        <4> QED
          BY <3>1, <4>1, <4>4, <4>5, <4>6
      <3> QED
        BY <3>2, <3>3
    <2> QED
      BY <2>1, <2>2, StepUndisturbed
  <1>11. ASSUME NEW s \in Slots, StartStart(s), UNCHANGED envVars PROVE SoloInv'
    <2>1. pc[s] # "free" /\ solo' = solo
      BY <1>11 DEF StartStart
    <2>2. ASSUME solo = s, Undisturbed(s) PROVE Undisturbed(s)'
      <3>1. \A t \in Slots \ {s} : pc'[t] = "free"
        BY <1>11, <2>2 DEF StartStart
      <3>2. /\ row # NoRow /\ docker # NoContainer /\ Found(loc[s].ref)
            /\ Unfailing(s) => Matches
        BY <1>11, <2>2 DEF StartStart
      <3>3. CASE pc'[s] = "free"
        BY <3>1, <3>3
      <3>4. CASE pc'[s] # "free"
        <4>1. /\ pc'[s] \in Started /\ faults' = faults
              /\ docker' = [docker EXCEPT !.state = "running"]
              /\ row' = row /\ loc' = loc
          BY <1>11, <3>4 DEF StartStart
        <4>2. docker \in Containers
          BY <3>2
        <4>3. /\ docker'.state = "running" /\ docker'.id = docker.id
              /\ docker'.iid = docker.iid /\ docker'.llm = docker.llm /\ docker'.tok = docker.tok
          BY <4>1, <4>2
        <4>4. docker' \in Containers
          BY <4>1, <4>2
        <4>5. docker' # NoContainer
          BY <4>4, NullsAreNotRecords
        <4> QED
          BY <3>1, <3>2, <4>1, <4>3, <4>5
      <3> QED
        BY <3>3, <3>4
    <2> QED
      BY <2>1, <2>2, StepUndisturbed
  <1>12. ASSUME NEW s \in Slots, CreateInsert(s) PROVE SoloInv'
    BY <1>12 DEF CreateInsert, Insert
  <1>13. ASSUME NEW s \in Slots, CreateStopped(s) PROVE SoloInv'
    BY <1>13 DEF CreateStopped
  <1>14. ASSUME NEW s \in Slots, CreateKey(s) PROVE SoloInv'
    <2>1. pc[s] # "free" /\ pc'[s] = "free" /\ solo' = solo
      BY <1>14 DEF CreateKey
    <2>2. ASSUME solo = s, Undisturbed(s) PROVE Undisturbed(s)'
      <3>1. \A t \in Slots \ {s} : pc'[t] = "free"
        BY <1>14, <2>2 DEF CreateKey
      <3> QED
        BY <2>1, <3>1, FreeUndisturbed
    <2> QED
      BY <2>1, <2>2, StepUndisturbed
  <1>15. ASSUME NEW s \in Slots, RestartCreating(s) PROVE SoloInv'
    <2>1. pc[s] # "free" /\ solo' = solo
      BY <1>15 DEF RestartCreating
    <2>2. ASSUME solo = s, Undisturbed(s) PROVE Undisturbed(s)'
      <3>1. faults' \in {faults, faults + 1} /\ loc' = loc /\ docker' = docker
        BY <1>15 DEF RestartCreating, Update, Write
      <3>2. Unfailing(s)' => Unfailing(s)
        BY <3>1
      <3>3. Unfailing(s) /\ loc[s].label # NoInstance => ~Running
        BY <1>15, <2>2 DEF RestartCreating
      <3>4. pc'[s] = "start_resolve"
        BY <1>15 DEF RestartCreating
      <3>5. \A t \in Slots \ {s} : pc'[t] = "free"
        BY <1>15, <2>2 DEF RestartCreating
      <3> QED
        BY <3>1, <3>2, <3>3, <3>4, <3>5
    <2> QED
      BY <2>1, <2>2, StepUndisturbed
  <1>16. ASSUME NEW s \in Slots, RestartRunning(s) PROVE SoloInv'
    BY <1>16 DEF RestartRunning
  <1>17. ASSUME NEW s \in Slots, DeleteRow(s) PROVE SoloInv'
    BY <1>17 DEF DeleteRow
  <1>18. ASSUME NEW s \in Slots, ConfigLlm(s) PROVE SoloInv'
    BY <1>18 DEF ConfigLlm
  <1>19. ASSUME NEW s \in Slots, ConfigRunning(s) PROVE SoloInv'
    BY <1>19 DEF ConfigRunning
  <1>20. ASSUME NEW s \in Slots, DispatchRead(s) PROVE SoloInv'
    <2>1. pc[s] # "free" /\ solo' = solo
      BY <1>20 DEF DispatchRead
    <2>2. ASSUME solo = s, Undisturbed(s) PROVE Undisturbed(s)'
      BY <1>20, <2>2 DEF DispatchRead
    <2> QED
      BY <2>1, <2>2, StepUndisturbed
  <1>21. ASSUME NEW s \in Slots, DispatchAlive(s) PROVE SoloInv'
    <2>1. pc[s] # "free" /\ solo' = solo
      BY <1>21 DEF DispatchAlive
    <2>2. ASSUME solo = s, Undisturbed(s) PROVE Undisturbed(s)'
      BY <1>21, <2>2 DEF DispatchAlive
    <2> QED
      BY <2>1, <2>2, StepUndisturbed
  <1>22. ASSUME NEW s \in Slots, DispatchLabel(s) PROVE SoloInv'
    BY <1>22 DEF DispatchLabel
  <1>23. ASSUME NEW s \in Slots, DispatchUpdate(s) PROVE SoloInv'
    BY <1>23 DEF DispatchUpdate
  <1>24. ASSUME NEW s \in Slots, WebhookRunning(s) PROVE SoloInv'
    BY <1>24 DEF WebhookRunning
  <1>25. ASSUME NEW s \in Slots, WebhookTouch(s) PROVE SoloInv'
    BY <1>25 DEF WebhookTouch
  <1>26. ASSUME NEW s \in Slots, IdleNull(s) PROVE SoloInv'
    BY <1>26 DEF IdleNull
  <1>27. ASSUME NEW s \in Slots, MonitorCheck(s) PROVE SoloInv'
    BY <1>27 DEF MonitorCheck
  <1>28. ASSUME NEW s \in Slots, MonitorNull(s) PROVE SoloInv'
    BY <1>28 DEF MonitorNull
  <1>29. ASSUME NEW s \in Slots, BeginCreate(s) PROVE SoloInv'
    BY <1>29, EnterUndisturbed DEF BeginCreate, Request, Cron, Entry
  <1>30. ASSUME NEW s \in Slots, BeginRestart(s) PROVE SoloInv'
    BY <1>30, EnterUndisturbed DEF BeginRestart, Request, Cron, Entry
  <1>31. ASSUME NEW s \in Slots, BeginDelete(s) PROVE SoloInv'
    BY <1>31, EnterUndisturbed DEF BeginDelete, Request, Cron, Entry
  <1>32. ASSUME NEW s \in Slots, BeginConfig(s) PROVE SoloInv'
    BY <1>32, EnterUndisturbed DEF BeginConfig, Request, Cron, Entry
  <1>33. ASSUME NEW s \in Slots, BeginSlack(s) PROVE SoloInv'
    BY <1>33, EnterUndisturbed DEF BeginSlack, Request, Cron, Entry
  <1>34. ASSUME NEW s \in Slots, BeginSchedule(s) PROVE SoloInv'
    BY <1>34, EnterUndisturbed DEF BeginSchedule, Request, Cron, Entry
  <1>35. ASSUME NEW s \in Slots, BeginWebhook(s) PROVE SoloInv'
    BY <1>35, EnterUndisturbed DEF BeginWebhook, Request, Cron, Entry
  <1>36. ASSUME NEW s \in Slots, BeginIdle(s) PROVE SoloInv'
    BY <1>36, EnterUndisturbed DEF BeginIdle, Request, Cron, Entry
  <1>37. ASSUME NEW s \in Slots, BeginMonitor(s) PROVE SoloInv'
    BY <1>37, EnterUndisturbed DEF BeginMonitor, Request, Cron, Entry
  <1>38. CASE ContainerDies
    BY <1>38 DEF ContainerDies
  <1>39. CASE TimePasses
    BY <1>39 DEF TimePasses, Quiescent
  <1>40. CASE OrchestratorCrashes
    BY <1>40 DEF OrchestratorCrashes
  <1>41. CASE UNCHANGED vars
    BY <1>41 DEF vars, cmVars
  <1> QED
    BY <1>1, <1>2, <1>3, <1>4, <1>5, <1>6, <1>7, <1>8, <1>9, <1>10, <1>11, <1>12, <1>13, <1>14,
       <1>15, <1>16, <1>17, <1>18, <1>19, <1>20, <1>21, <1>22, <1>23, <1>24, <1>25, <1>26, <1>27,
       <1>28, <1>29, <1>30, <1>31, <1>32, <1>33, <1>34, <1>35, <1>36, <1>37, <1>38, <1>39, <1>40,
       <1>41
       DEF Next, Begin, Step, ContainerStep, Environment

-----------------------------------------------------------------------------
\* A handler that ends without a disturbance ended by a step of its own.
LEMMA OwnStepEnds ==
  ASSUME TypeOK, Next, NEW s \in Slots, solo' = s, pc[s] # "free", pc'[s] = "free"
  PROVE  Step(s)
  <1> USE DEF TypeOK
  <1>1. ~Environment
    BY DEF Environment, ContainerDies, TimePasses, OrchestratorCrashes
  <1>2. PICK t \in Slots : Begin(t) \/ Step(t)
    BY <1>1 DEF Next
  <1>3. t = s
    BY <1>2, OtherSlotStays
  <1>4. ~Begin(s)
    BY DEF Begin, BeginCreate, BeginRestart, BeginDelete, BeginConfig, BeginSlack,
        BeginSchedule, BeginWebhook, BeginIdle, BeginMonitor, Request, Cron, Enter
  <1> QED
    BY <1>2, <1>3, <1>4

-----------------------------------------------------------------------------
\* IInv holds initially and every step preserves it.
THEOREM Inductive == Spec => []IInv
  <1>1. Init => IInv
    BY DEF Init, IInv, TypeOK, LocalsKnown, TokenMinted, LiveToken, TokensApart, Awaiting,
        RunningHasContainer, FaultsPast, SoloInv, Preparing, Started, Unstopped
  <1>2. IInv /\ [Next]_vars => IInv'
    BY TypeStep, LocalsStep, TokenStep, RunningStep, FaultsStep, ApartStep, SoloStep DEF IInv
  <1> QED
    BY <1>1, <1>2, PTL DEF Spec

\* Every row, container and handler keeps to its type.
THEOREM TypeCorrect == Spec => []TypeOK
  <1>1. IInv => TypeOK
    BY DEF IInv
  <1> QED
    BY <1>1, Inductive, PTL

\* A row in status 'running' names a container, whatever interleaves.
THEOREM RunningRowsHaveContainers == Spec => []RunningHasContainer
  <1>1. IInv => RunningHasContainer
    BY DEF IInv
  <1> QED
    BY <1>1, Inductive, PTL

\* The token on record stays, is taken off it, or makes way for a fresh one.
LEMMA TokenMoves ==
  ASSUME TypeOK, [Next]_vars
  PROVE  LiveToken' \in {LiveToken, NoToken, minted.jti + 1}
  <1> USE DEF TypeOK
  <1>1. ASSUME NEW s \in Slots, Begin(s) \/ (Step(s) /\ ~Tokens(s))
        PROVE  LiveToken' = LiveToken
    BY <1>1, TokenUntouched
  <1>2. ASSUME NEW s \in Slots, StopRevoke(s) PROVE LiveToken' \in {LiveToken, NoToken}
    BY <1>2 DEF StopRevoke, Write, Revoked, LiveToken
  <1>3. ASSUME NEW s \in Slots, StartIssue(s) PROVE LiveToken' \in {LiveToken, minted.jti + 1}
    BY <1>3 DEF StartIssue, LiveToken
  <1>4. ASSUME NEW s \in Slots, CreateInsert(s) PROVE LiveToken' = LiveToken
    BY <1>4 DEF CreateInsert, Insert, LiveToken
  <1>5. ASSUME NEW s \in Slots, DeleteRow(s) PROVE LiveToken' \in {LiveToken, NoToken}
    BY <1>5 DEF DeleteRow, Write, LiveToken
  <1>6. CASE Environment \/ UNCHANGED vars
    BY <1>6 DEF Environment, ContainerDies, TimePasses, OrchestratorCrashes, vars, cmVars, LiveToken
  <1> QED
    BY <1>1, <1>2, <1>3, <1>4, <1>5, <1>6 DEF Next, Tokens

\* A token that is no longer on record is never on record again.
THEOREM RevocationIsFinal == Spec => TokensNeverRevive
  <1> DEFINE Dead == \A t \in 1..minted.jti : Live(t)' => Live(t)
  <1>1. IInv /\ [Next]_vars => [Dead]_vars
    <2> SUFFICES ASSUME IInv, [Next]_vars, NEW t \in 1..minted.jti, Live(t)' PROVE Live(t)
      OBVIOUS
    <2>1. minted.jti \in Nat /\ t # NoToken /\ t # minted.jti + 1
      BY NullsAreDistinct DEF IInv, TypeOK
    <2>2. LiveToken' = t
      BY DEF Live, LiveToken
    <2>3. LiveToken = t
      BY <2>1, <2>2, TokenMoves DEF IInv
    <2> QED
      BY <2>1, <2>3 DEF Live, LiveToken
  <1> QED
    BY <1>1, Inductive, PTL DEF Spec, TokensNeverRevive

-----------------------------------------------------------------------------
\* While nobody gets the good token, it stays where it is or is lost.
LEMMA PlaceMoves ==
  ASSUME TypeOK, TokensApart, LiveToken' = LiveToken, minted'.jti = minted.jti,
         \A s \in Slots : Awaiting(s)' => Awaiting(s) /\ loc'[s].tok = loc[s].tok,
         LiveToken # NoToken /\ InContainer' => InContainer
  PROVE  Registry!Next \/ UNCHANGED <<LiveToken, minted.jti, Place>>
  <1>1. WithHandler' => WithHandler
    BY DEF WithHandler, Awaiting
  <1>2. LiveToken # NoToken /\ InContainer => ~WithHandler
    BY DEF TokensApart, InContainer, WithHandler, Awaiting
  <1>3. CASE LiveToken = NoToken
    BY <1>3 DEF Place
  <1>4. CASE LiveToken # NoToken
    <2>1. CASE Place' = Place
      BY <2>1
    <2>2. CASE Place' # Place
      <3>1. Place \in {"pending", "held"} /\ Place' = "spent"
        BY <1>1, <1>2, <1>4, <2>2 DEF Place
      <3> QED
        BY <3>1 DEF Registry!Next, Registry!Lose
    <2> QED
      BY <2>1, <2>2
  <1> QED
    BY <1>3, <1>4

\* A start issues a token and keeps it to itself.
LEMMA IssueRegistered ==
  ASSUME TypeOK, TokenMinted, TokensApart, NEW s \in Slots, StartIssue(s)
  PROVE  Registry!Next
  <1> USE DEF TypeOK
  <1>1. /\ minted'.jti = minted.jti + 1 /\ docker' = docker
        /\ pc[s] = "start_issue"
        /\ pc'[s] = "start_create" => loc'[s].tok = minted.jti + 1
        /\ \A t \in Slots \ {s} : pc'[t] = pc[t] /\ loc'[t] = loc[t]
    BY DEF StartIssue
  <1>2. LiveToken' \in {LiveToken, minted.jti + 1}
    BY DEF StartIssue, LiveToken
  <1>3. minted.jti \in Nat /\ minted.jti + 1 # NoToken
    BY NullsAreDistinct
  <1>4. LiveToken # NoToken => LiveToken # minted.jti + 1
    BY <1>3, NullsAreDistinct DEF TokenMinted, LiveToken
  <1>5. docker # NoContainer => docker.tok # minted.jti + 1
    BY <1>3 DEF TokensApart
  <1> HIDE DEF TypeOK
  <1>6. CASE LiveToken' = minted.jti + 1
    <2>1. ~InContainer'
      BY <1>1, <1>5, <1>6 DEF InContainer
    <2>2. Place' \in {"pending", "spent"}
      BY <1>3, <1>6, <2>1 DEF Place
    <2> QED
      BY <1>1, <1>6, <2>2 DEF Registry!Next, Registry!Issue
  <1>7. CASE LiveToken' = LiveToken /\ LiveToken # minted.jti + 1
    <2>1. InContainer' = InContainer
      BY <1>1, <1>7 DEF InContainer
    <2>2. WithHandler' = WithHandler
      BY <1>1, <1>7 DEF WithHandler
    <2>3. Place' = Place
      BY <1>7, <2>1, <2>2 DEF Place
    <2> QED
      BY <1>1, <1>7, <2>3 DEF Registry!Next, Registry!IssueInVain
  <1> QED
    BY <1>2, <1>6, <1>7

\* The token goes to the container of its own start, if to any.
LEMMA CreateRegistered ==
  ASSUME TypeOK, TokensApart, NEW s \in Slots, StartCreate(s)
  PROVE  Registry!Next \/ UNCHANGED <<LiveToken, minted.jti, Place>>
  <1> USE DEF TypeOK
  <1>1. /\ minted'.jti = minted.jti /\ row' = row
        /\ pc[s] = "start_create" /\ pc'[s] # "start_create"
        /\ \A t \in Slots \ {s} : pc'[t] = pc[t] /\ loc'[t] = loc[t]
    BY DEF StartCreate, Create
  <1>2. LiveToken' = LiveToken
    BY <1>1 DEF LiveToken
  <1>3. \A t \in Slots : Awaiting(t)' => Awaiting(t) /\ loc'[t].tok = loc[t].tok
    BY <1>1 DEF Awaiting
  <1>4. docker' = docker \/ (/\ docker = NoContainer
                            /\ docker'.tok \in {loc[s].tok, NoToken})
    BY DEF StartCreate, Create
  <1> HIDE DEF TypeOK
  <1>5. CASE LiveToken # NoToken /\ InContainer' => InContainer
    BY <1>1, <1>2, <1>3, <1>5, PlaceMoves
  <1>6. CASE LiveToken # NoToken /\ InContainer' /\ ~InContainer
    <2>1. docker' # docker
      BY <1>2, <1>6 DEF InContainer
    <2>2. docker = NoContainer /\ loc[s].tok = LiveToken
      BY <1>2, <1>4, <1>6, <2>1 DEF InContainer
    <2>3. Place = "pending"
      BY <1>1, <1>6, <2>2 DEF Place, WithHandler
    <2>4. Place' = "held"
      BY <1>2, <1>6 DEF Place
    <2> QED
      BY <1>1, <1>2, <2>3, <2>4 DEF Registry!Next, Registry!Hand
  <1> QED
    BY <1>5, <1>6

\* A revocation, or the end of the row, leaves no good token.
LEMMA RevokeRegistered ==
  ASSUME LiveToken # NoToken, LiveToken' = NoToken, minted'.jti = minted.jti
  PROVE  Registry!Next
  BY DEF Place, Registry!Next, Registry!Revoke

\* Every step of every handler is a step of the token register or leaves it
\* alone.
LEMMA RegistryStep ==
  ASSUME IInv, [Next]_vars
  PROVE  Registry!Next \/ UNCHANGED <<LiveToken, minted.jti, Place>>
  <1>1. TypeOK /\ TokenMinted /\ TokensApart
    BY DEF IInv
  <1>2. ASSUME NEW s \in Slots, StartIssue(s) PROVE Registry!Next
    BY <1>1, <1>2, IssueRegistered
  <1>3. ASSUME NEW s \in Slots, StartCreate(s)
        PROVE  Registry!Next \/ UNCHANGED <<LiveToken, minted.jti, Place>>
    BY <1>1, <1>3, CreateRegistered
  <1>4. ASSUME NEW s \in Slots, Begin(s) \/ (Step(s) /\ ~StartIssue(s) /\ ~StartCreate(s))
        PROVE  Registry!Next \/ UNCHANGED <<LiveToken, minted.jti, Place>>
    <2>1. /\ pc[s] # "start_create" /\ pc'[s] # "start_create"
          /\ docker' = NoContainer \/ (docker # NoContainer /\ docker'.tok = docker.tok)
          /\ minted'.jti = minted.jti
      BY <1>1, <1>4, NothingHandedOut
    <2>2. \A t \in Slots : Awaiting(t)' => Awaiting(t) /\ loc'[t].tok = loc[t].tok
      BY <1>1, <1>4, <2>1, OtherSlotStays DEF Awaiting
    <2>3. LiveToken' \in {LiveToken, NoToken}
      <3>1. CASE StopRevoke(s)
        BY <1>1, <3>1 DEF TypeOK, StopRevoke, Write, Revoked, LiveToken
      <3>2. CASE CreateInsert(s)
        BY <3>2 DEF CreateInsert, Insert, LiveToken
      <3>3. CASE DeleteRow(s)
        BY <3>3 DEF DeleteRow, Write, LiveToken
      <3>4. CASE Begin(s) \/ (Step(s) /\ ~Tokens(s))
        BY <1>1, <3>4, TokenUntouched
      <3> QED
        BY <1>4, <3>1, <3>2, <3>3, <3>4 DEF Tokens
    <2>4. CASE LiveToken' = LiveToken
      <3>1. InContainer' => InContainer
        BY <2>1, <2>4 DEF InContainer
      <3> QED
        BY <1>1, <2>1, <2>2, <2>4, <3>1, PlaceMoves
    <2>5. CASE LiveToken' = NoToken /\ LiveToken # NoToken
      BY <2>1, <2>5, RevokeRegistered
    <2> QED
      BY <2>3, <2>4, <2>5
  <1>5. CASE Environment \/ UNCHANGED vars
    <2>1. /\ LiveToken' = LiveToken /\ minted'.jti = minted.jti
          /\ \A s \in Slots : Awaiting(s)' => Awaiting(s) /\ loc'[s].tok = loc[s].tok
          /\ docker' = docker \/ (docker # NoContainer /\ docker'.tok = docker.tok)
      BY <1>1, <1>5 DEF TypeOK, Awaiting, Environment, ContainerDies, TimePasses,
         OrchestratorCrashes, vars, cmVars, LiveToken
    <2>2. InContainer' => InContainer
      BY <2>1 DEF InContainer
    <2> QED
      BY <1>1, <2>1, <2>2, PlaceMoves
  <1> QED
    BY <1>2, <1>3, <1>4, <1>5 DEF Next

\* Issue, create, remove, revoke and delete, interleaved and cut off anywhere,
\* implement the token register.
THEOREM RegistryImplemented == Spec => ImplementsTokenRegistry
  <1>1. Init => Registry!Init
    BY DEF Init, Registry!Init, LiveToken, Place
  <1>2. IInv /\ [Next]_vars => [Registry!Next]_<<LiveToken, minted.jti, Place>>
    BY RegistryStep
  <1> QED
    BY <1>1, <1>2, Inductive, PTL DEF Spec, ImplementsTokenRegistry, Registry!Spec

\* A row that is recorded as running keeps its other columns.
LEMMA RowTurned ==
  ASSUME NEW r \in Rows, NEW ref \in ContainerIds \cup {NoRef, ByName}, NEW q,
         q = [r EXCEPT !.status = "running", !.cid = ref]
  PROVE  /\ q \in Rows
         /\ q.status = "running" /\ q.cid = ref
         /\ q.iid = r.iid /\ q.llm = r.llm /\ q.jti = r.jti
  <1>1. q \in Rows
    OBVIOUS
  <1>2. /\ q.status = "running" /\ q.cid = ref
        /\ q.iid = r.iid /\ q.llm = r.llm /\ q.jti = r.jti
    BY SMT
  <1> QED
    BY <1>1, <1>2

LEMMA RowTouched ==
  ASSUME NEW r \in Rows, NEW ref \in ContainerIds \cup {NoRef, ByName}, NEW q,
         q = [r EXCEPT !.status = "running", !.cid = ref, !.activity = "recent"]
  PROVE  /\ q \in Rows
         /\ q.status = "running" /\ q.cid = ref
         /\ q.iid = r.iid /\ q.llm = r.llm /\ q.jti = r.jti
  <1>1. q \in Rows
    OBVIOUS
  <1>2. /\ q.status = "running" /\ q.cid = ref
        /\ q.iid = r.iid /\ q.llm = r.llm /\ q.jti = r.jti
    BY SMT
  <1> QED
    BY <1>1, <1>2

\* An update of a row that exists takes effect, or is lost.
LEMMA UpdateTakesOrFails ==
  ASSUME NEW new, row # NoRow, Update(new)
  PROVE  (row' = new /\ Succeeds) \/ (row' = row /\ Fails)
  BY Zenon DEF Update, Write

\* The last write of a start, when it is not lost, records the container.
LEMMA RecordsContainer ==
  ASSUME TypeOK, NEW s \in Slots, row # NoRow,
         RestartRunning(s) \/ ConfigRunning(s) \/ DispatchUpdate(s) \/ WebhookRunning(s)
  PROVE  \/ row' = row /\ Fails
         \/ /\ Succeeds
            /\ row' \in Rows
            /\ row'.status = "running" /\ row'.cid = loc[s].ref
            /\ row'.iid = row.iid /\ row'.llm = row.llm /\ row'.jti = row.jti
  <1>1. row \in Rows /\ loc[s].ref \in ContainerIds \cup {NoRef, ByName}
    BY DEF TypeOK
  <1>2. CASE RestartRunning(s) \/ ConfigRunning(s)
    <2>1. Update([row EXCEPT !.status = "running", !.cid = loc[s].ref])
      BY <1>2, Zenon DEF RestartRunning, ConfigRunning
    <2>2. \/ row' = row /\ Fails
          \/ row' = [row EXCEPT !.status = "running", !.cid = loc[s].ref] /\ Succeeds
      BY <2>1, UpdateTakesOrFails, Zenon
    <2>3. ASSUME row' = [row EXCEPT !.status = "running", !.cid = loc[s].ref]
          PROVE  /\ row' \in Rows
                 /\ row'.status = "running" /\ row'.cid = loc[s].ref
                 /\ row'.iid = row.iid /\ row'.llm = row.llm /\ row'.jti = row.jti
      BY <1>1, <2>3, RowTurned
    <2> QED
      BY <2>2, <2>3, Zenon
  <1>3. CASE DispatchUpdate(s) \/ WebhookRunning(s)
    <2>1. Update([row EXCEPT !.status = "running", !.cid = loc[s].ref, !.activity = "recent"])
      BY <1>3, Zenon DEF DispatchUpdate, WebhookRunning
    <2>2. \/ row' = row /\ Fails
          \/ /\ row' = [row EXCEPT !.status = "running", !.cid = loc[s].ref, !.activity = "recent"]
             /\ Succeeds
      BY <2>1, UpdateTakesOrFails, Zenon
    <2>3. ASSUME row' = [row EXCEPT !.status = "running", !.cid = loc[s].ref, !.activity = "recent"]
          PROVE  /\ row' \in Rows
                 /\ row'.status = "running" /\ row'.cid = loc[s].ref
                 /\ row'.iid = row.iid /\ row'.llm = row.llm /\ row'.jti = row.jti
      BY <1>1, <2>3, RowTouched
    <2> QED
      BY <2>2, <2>3, Zenon
  <1> QED
    BY <1>2, <1>3

LEMMA CallsDiffer ==
  ASSUME TypeOK PROVE ~(Succeeds /\ Fails)
  BY DEF TypeOK, Succeeds, Fails

\* A dispatch that runs alone delivers to a running container, and leaves it on
\* record unless that last write is lost.
THEOREM DispatchReachesContainer == Spec => DispatchHeals
  <1> DEFINE Heals == \A s \in Slots :
                        Delivers(s) =>
                          /\ Running'
                          /\ Succeeds => row' # NoRow /\ Found(row.cid)'
  <1>1. IInv /\ [Next]_vars => [Heals]_vars
    <2> SUFFICES ASSUME IInv, Next, NEW s \in Slots, Delivers(s)
                 PROVE  Running' /\ (Succeeds => row' # NoRow /\ Found(row.cid)')
      BY DEF Delivers
    <2>1. TypeOK /\ Undisturbed(s) /\ pc[s] \in {"dispatch_label", "dispatch_update"}
      BY DEF IInv, SoloInv, Delivers
    <2>2. Step(s)
      BY <2>1, OwnStepEnds DEF Delivers
    <2>3. DispatchLabel(s) \/ DispatchUpdate(s)
      BY <2>1, <2>2 DEF Step, ContainerStep, StopInspect, StopStop, StopRemove, StopRevoke,
          StartResolve, StartReadLlm, StartInspect, StartRemove, StartIssue, StartCreate,
          StartStart, CreateInsert, CreateStopped, CreateKey, RestartCreating, RestartRunning,
          DeleteRow, ConfigLlm, ConfigRunning, DispatchRead, DispatchAlive, WebhookRunning,
          WebhookTouch, IdleNull, MonitorCheck, MonitorNull
    <2>4. CASE DispatchLabel(s)
      BY <2>1, <2>4 DEF DispatchLabel, Undisturbed
    <2>5. CASE DispatchUpdate(s)
      <3>1. docker' = docker /\ row # NoRow /\ Found(loc[s].ref) /\ Running
        BY <2>1, <2>5 DEF DispatchUpdate, Undisturbed, Started
      <3>2. Succeeds => row' # NoRow /\ row'.cid = loc[s].ref
        BY <2>1, <2>5, <3>1, RecordsContainer, CallsDiffer, NullsAreNotRecords
      <3> QED
        BY <3>1, <3>2
    <2> QED
      BY <2>3, <2>4, <2>5
  <1> QED
    BY <1>1, Inductive, PTL DEF Spec, DispatchHeals

\* A restart that runs alone leaves a container running, on record unless that
\* last write is lost.  If it found a container to stop and no call of its own
\* failed, row and container agree on everything.
THEOREM RestartRepairs == Spec => RestartHeals
  <1> DEFINE Ends(s) == /\ solo = s /\ solo' = s
                        /\ pc[s] = "restart_running" /\ pc'[s] = "free"
             Healed(s) == /\ Running'
                          /\ Succeeds => row'.status = "running" /\ Found(row.cid)'
                          /\ loc[s].label # NoInstance /\ faults' = loc[s].seen => Serving'
             Heals == \A s \in Slots : Ends(s) => Healed(s)
  <1>1. IInv /\ [Next]_vars => [Heals]_vars
    <2> SUFFICES ASSUME IInv, Next, NEW s \in Slots, Ends(s) PROVE Healed(s)
      OBVIOUS
    <2>1. TypeOK /\ FaultsPast /\ Undisturbed(s)
      BY DEF IInv, SoloInv
    <2>2. Step(s)
      BY <2>1, OwnStepEnds
    <2>3. RestartRunning(s)
      BY <2>2 DEF Step, ContainerStep, StopInspect, StopStop, StopRemove, StopRevoke,
          StartResolve, StartReadLlm, StartInspect, StartRemove, StartIssue, StartCreate,
          StartStart, CreateInsert, CreateStopped, CreateKey, RestartCreating,
          DeleteRow, ConfigLlm, ConfigRunning, DispatchRead, DispatchAlive, DispatchLabel,
          DispatchUpdate, WebhookRunning, WebhookTouch, IdleNull, MonitorCheck, MonitorNull
    <2>4. /\ docker' = docker /\ row # NoRow /\ Found(loc[s].ref) /\ Running
          /\ Unfailing(s) /\ loc[s].label # NoInstance => Matches
      BY <2>1, <2>3 DEF RestartRunning, Undisturbed, Started
    <2>5. Succeeds => /\ row' # NoRow /\ row'.status = "running" /\ row'.cid = loc[s].ref
                      /\ row'.iid = row.iid /\ row'.llm = row.llm /\ row'.jti = row.jti
      BY <2>1, <2>3, <2>4, RecordsContainer, CallsDiffer, NullsAreNotRecords
    <2>6. Succeeds \/ Fails
      BY <2>1, <2>3, <2>4, RecordsContainer
    <2>7. faults' = loc[s].seen => Succeeds /\ Unfailing(s)
      <3>1. loc[s].seen <= faults /\ loc[s].seen \in Nat /\ faults \in Nat
        BY <2>1 DEF FaultsPast, TypeOK
      <3> QED
        BY <2>6, <3>1 DEF Succeeds, Fails, Unfailing
    <2>8. Running' /\ (Succeeds => row'.status = "running" /\ Found(row.cid)')
      BY <2>4, <2>5
    <2>9. ASSUME loc[s].label # NoInstance, faults' = loc[s].seen PROVE Serving'
      <3>1. Succeeds /\ Matches
        BY <2>4, <2>7, <2>9
      <3> QED
        BY <2>4, <2>5, <3>1 DEF Serving, Matches
    <2> QED
      BY <2>8, <2>9
  <1> QED
    BY <1>1, Inductive, PTL DEF Spec, RestartHeals

-----------------------------------------------------------------------------
(***************************************************************************)
(* What holds between handlers, and of a dispatch's LLM, as long as        *)
(* handlers do not overlap and the orchestrator does not crash (Sequential *)
(* in InstanceLifecycleInvariant), whatever call fails and whenever a      *)
(* container dies.  HeldStep shows that a handler's step keeps what it     *)
(* relies on (Held): Kept always, Trusted and Steady when its call         *)
(* succeeds, and a failing call gives up just those two.                   *)
(***************************************************************************)
\* While one handler is in flight, what its slot holds is what all hold.
LEMMA HeldByOne ==
  ASSUME NEW s \in Slots, \A t \in Slots \ {s} : pc'[t] = "free", Held(s)'
  PROVE  SeqInv'
  <1> SUFFICES ASSUME NEW t \in Slots, Lone(t)', t # s PROVE Held(t)'
    BY DEF SeqInv
  <1>1. pc'[t] = "free" /\ pc'[s] = "free"
    BY DEF Lone
  <1>2. Kept(t)' /\ Trusted(t)'
    BY <1>1 DEF Kept, Trusted, Reading, Preparing, LlmRead
  <1>3. Steady(s)' => (Running => Named)' /\ Backed'
    BY <1>1 DEF Steady, Intact
  <1>4. Steady(s)' => Steady(t)'
    BY <1>1, <1>3 DEF Steady, Down, Started, Preparing, Stopped
  <1> QED
    BY <1>2, <1>4 DEF Held

\* The call of a handler's step succeeds or fails; a started container is
\* noted in mended as well.
LEMMA StepCalls ==
  ASSUME NEW s \in Slots, Step(s)
  PROVE  Succeeds \/ Fails \/ StartStart(s)
  <1> USE DEF Update, UpdateById, Write
  <1>1. CASE ContainerStep(s)
    BY <1>1, ZenonT(40) DEF ContainerStep, StopInspect, StopStop, StopRemove, StopRevoke,
       StartResolve, StartReadLlm, StartInspect, StartRemove, StartIssue, StartCreate
  <1>2. CASE ~ContainerStep(s)
    BY <1>2, ZenonT(40) DEF Step, CreateInsert, CreateStopped, CreateKey, RestartCreating,
       RestartRunning, DeleteRow, ConfigLlm, ConfigRunning, DispatchRead, DispatchAlive,
       DispatchLabel, DispatchUpdate, WebhookRunning, WebhookTouch, IdleNull, MonitorCheck,
       MonitorNull
  <1> QED
    BY <1>1, <1>2

\* After a failing call nothing is left of what only successes give.
LEMMA FailureIsSeen ==
  ASSUME TypeOK, FaultsPast, NEW s \in Slots, Fails, loc'[s].seen \in {loc[s].seen, faults, 0}
  PROVE  Astray' /\ ~Unfailing(s)'
  BY DEF TypeOK, FaultsPast, Fails, Astray, Unfailing

LEMMA UpdateSucceeds ==
  ASSUME TypeOK, NEW new, Update(new), Succeeds
  PROVE  row' = IF row = NoRow THEN row ELSE new
  BY CallsDiffer, Zenon DEF Update, Write

LEMMA UpdateByIdSucceeds ==
  ASSUME TypeOK, NEW iid, NEW new, UpdateById(iid, new), Succeeds
  PROVE  row' = IF RowIs(iid) THEN new ELSE row
  BY CallsDiffer, Zenon DEF UpdateById, Write

LEMMA WriteSucceeds ==
  ASSUME TypeOK, NEW new, Write(new), Succeeds
  PROVE  row' = new
  BY CallsDiffer, Zenon DEF Write

\* A step keeps what holds whatever fails.
LEMMA KeptStep ==
  ASSUME TypeOK, NEW s \in Slots, Kept(s), Step(s)
  PROVE  Kept(s)'
  <1> USE DEF TypeOK, Kept, Reading, Preparing
  <1>1. CASE StopInspect(s)
    BY <1>1 DEF StopInspect
  <1>2. CASE StartResolve(s)
    BY <1>2 DEF StartResolve
  <1>3. CASE StartReadLlm(s)
    BY <1>3 DEF StartReadLlm
  <1>4. CASE StartInspect(s)
    BY <1>4 DEF StartInspect
  <1>5. CASE StartRemove(s)
    BY <1>5 DEF StartRemove
  <1>6. CASE StartIssue(s)
    BY <1>6 DEF StartIssue
  <1>7. CASE StartCreate(s)
    BY <1>7 DEF StartCreate, Create
  <1>8. CASE ConfigLlm(s)
    <2>1. PICK llm \in Llms : row' = row \/ row' = [row EXCEPT !.llm = llm]
      BY <1>8 DEF ConfigLlm, Update, Write
    <2>2. pc'[s] \in {"free", "stop_inspect"}
      BY <1>8 DEF ConfigLlm
    <2>3. CASE pc'[s] = "stop_inspect"
      <3>1. loc' = loc /\ row # NoRow /\ row.cid = loc[s].ref
        BY <1>8, <2>3 DEF ConfigLlm
      <3>2. row' \in Rows /\ row'.cid = row.cid
        BY <2>1, <3>1
      <3> QED
        BY <2>3, <3>1, <3>2
    <2> QED
      BY <2>2, <2>3
  <1>9. CASE DispatchRead(s)
    BY <1>9 DEF DispatchRead
  <1>10. CASE DispatchAlive(s)
    BY <1>10 DEF DispatchAlive
  <1>11. CASE DispatchLabel(s)
    BY <1>11 DEF DispatchLabel
  <1>12. ASSUME \/ StopStop(s) \/ StopRemove(s) \/ StopRevoke(s) \/ StartStart(s) \/ CreateInsert(s) \/ CreateStopped(s)
               \/ CreateKey(s) \/ RestartCreating(s) \/ RestartRunning(s) \/ DeleteRow(s) \/ ConfigRunning(s)
               \/ DispatchUpdate(s) \/ WebhookRunning(s) \/ WebhookTouch(s) \/ IdleNull(s) \/ MonitorCheck(s) \/ MonitorNull(s)
        PROVE  Kept(s)'
    <2>1. pc'[s] \in {"free", "create_stopped", "create_key", "stop_remove", "stop_revoke",
                     "restart_creating", "restart_running", "delete_row", "config_running",
                     "dispatch_update", "webhook_running", "webhook_touch", "idle_null",
                     "monitor_null", "start_resolve"}
      BY <1>12 DEF StopStop, StopRemove, StopRevoke, StartStart, CreateInsert, CreateStopped,
         CreateKey, RestartCreating,
         RestartRunning, DeleteRow, ConfigRunning, DispatchUpdate, WebhookRunning, WebhookTouch, IdleNull, MonitorCheck, MonitorNull
    <2> QED
      BY <2>1
  <1> QED
    BY <1>1, <1>2, <1>3, <1>4, <1>5, <1>6, <1>7, <1>8, <1>9, <1>10, <1>11, <1>12 DEF Step, ContainerStep

\* A call that succeeds keeps what a handler can trust.
LEMMA TrustedStep ==
  ASSUME TypeOK, NEW s \in Slots, Kept(s), Trusted(s), Step(s), Succeeds
  PROVE  Trusted(s)'
  <1> USE DEF TypeOK, Kept, Trusted, Matches, Preparing, LlmRead
  <1>1. faults' = faults /\ ~Fails
    BY CallsDiffer DEF Succeeds
  <1>2. CASE StartReadLlm(s)
    BY <1>1, <1>2 DEF StartReadLlm
  <1>3. CASE StartInspect(s)
    BY <1>3 DEF StartInspect
  <1>4. CASE StartRemove(s)
    BY <1>4 DEF StartRemove
  <1>5. CASE StartIssue(s)
    <2>1. CASE pc'[s] = "free"
      BY <2>1
    <2>2. CASE pc'[s] # "free"
      <3>1. /\ pc[s] = "start_issue" /\ pc'[s] = "start_create"
            /\ row' = IF RowIs(loc[s].iid) THEN [row EXCEPT !.jti = minted.jti + 1] ELSE row
            /\ loc'[s].llm = loc[s].llm
        BY <1>5, <2>2 DEF StartIssue
      <3>2. row # NoRow /\ loc[s].llm = row.llm
        BY <3>1
      <3>3. row'.llm = row.llm
        BY <3>1, <3>2
      <3> QED
        BY <3>1, <3>2, <3>3
    <2> QED
      BY <2>1, <2>2
  <1>6. CASE StartCreate(s)
    <2>1. CASE pc'[s] = "free"
      BY <2>1
    <2>2. CASE pc'[s] # "free"
      <3>1. /\ pc[s] = "start_create" /\ pc'[s] = "start_start" /\ row' = row
            /\ docker' = [id |-> minted.cid + 1, state |-> "created",
                          tok |-> IF loc[s].llm = Byok THEN loc[s].tok ELSE NoToken,
                          iid |-> loc[s].iid, llm |-> loc[s].llm]
        BY <1>6, <2>2 DEF StartCreate, Create
      <3>2. /\ docker'.iid = loc[s].iid /\ docker'.llm = loc[s].llm
            /\ docker'.tok \in {NoToken, loc[s].tok}
        BY <3>1
      <3>3. loc[s].iid = row.iid /\ loc[s].tok = row.jti /\ loc[s].llm = row.llm
        BY <3>1
      <3> QED
        BY <3>1, <3>2, <3>3
    <2> QED
      BY <2>1, <2>2
  <1>7. CASE /\ Step(s)
             /\ ~StartReadLlm(s) /\ ~StartInspect(s) /\ ~StartRemove(s)
             /\ ~StartIssue(s) /\ ~StartCreate(s)
    <2>1. pc'[s] \notin LlmRead \cup {"start_start"}
      BY <1>7 DEF Step, ContainerStep, StopInspect, StopStop, StopRemove, StopRevoke, StartResolve,
         StartStart, CreateInsert,
         CreateStopped, CreateKey, RestartCreating, RestartRunning, DeleteRow, ConfigLlm, ConfigRunning, DispatchRead,
         DispatchAlive, DispatchLabel, DispatchUpdate, WebhookRunning, WebhookTouch, IdleNull, MonitorCheck, MonitorNull
    <2> QED
      BY <2>1
  <1> QED
    BY <1>2, <1>3, <1>4, <1>5, <1>6, <1>7

\* A handler that records the container it started leaves the row naming it.
LEMMA RecordedIsNamed ==
  ASSUME TypeOK, NEW s \in Slots, Steady(s), pc[s] \in Started, UNCHANGED docker,
         pc'[s] \in {"free", "webhook_touch"},
         row = NoRow => row' = NoRow,
         row # NoRow => /\ row' \in Rows
                        /\ row'.status = "running" /\ row'.cid = loc[s].ref
                        /\ row'.iid = row.iid /\ row'.jti = row.jti
  PROVE  Steady(s)'
  <1>1. Running => row # NoRow /\ Found(loc[s].ref) /\ Matches
    BY DEF Steady
  <1>2. Backed
    BY DEF Steady, Started
  <1>3. (Running => Named)'
    BY <1>1 DEF Named, Matches
  <1>4. Backed'
    BY <1>2 DEF Backed
  <1> QED
    BY <1>3, <1>4 DEF Steady, Intact, Down, Started, Reading, Preparing, Stopped

\* A call that succeeds keeps the handler's and the row's container together.
LEMMA SteadyStep ==
  ASSUME TypeOK, RunningHasContainer, NEW s \in Slots, Kept(s), Steady(s),
         Step(s), ~StartStart(s), Succeeds
  PROVE  Steady(s)'
  <1> USE DEF TypeOK, Kept, Steady, Named, Backed, Matches, Reading, Intact, Down, Stopped, Preparing,
              Started
  <1>0. ~Fails
    BY CallsDiffer
  <1>1. CASE StopInspect(s)
    BY <1>0, <1>1 DEF StopInspect
  <1>2. CASE StopStop(s)
    BY <1>0, <1>2 DEF StopStop
  <1>3. CASE StopRemove(s)
    BY <1>0, <1>3 DEF StopRemove
  <1>4. CASE StopRevoke(s)
    <2>1. row' = Revoked(loc[s].label)
      BY <1>4, WriteSucceeds, Zenon DEF StopRevoke
    <2> QED
      BY <1>4, <2>1 DEF StopRevoke, Revoked
  <1>5. CASE StartResolve(s)
    BY <1>0, <1>5 DEF StartResolve
  <1>6. CASE StartReadLlm(s)
    BY <1>0, <1>6 DEF StartReadLlm
  <1>7. CASE StartInspect(s)
    BY <1>0, <1>7 DEF StartInspect
  <1>8. CASE StartRemove(s)
    BY <1>0, <1>8 DEF StartRemove
  <1>9. CASE StartIssue(s)
    BY <1>0, <1>9 DEF StartIssue
  <1>10. CASE StartCreate(s)
    BY <1>0, <1>10 DEF StartCreate, Create
  <1>11. CASE CreateInsert(s)
    BY <1>0, <1>11 DEF CreateInsert, Insert
  <1>12. CASE CreateStopped(s)
    <2>1. row' = IF RowIs(loc[s].iid) THEN [row EXCEPT !.status = "stopped"] ELSE row
      BY <1>12, UpdateByIdSucceeds, Zenon DEF CreateStopped
    <2> QED
      BY <1>12, <2>1 DEF CreateStopped
  <1>13. CASE CreateKey(s)
    <2>1. row' \in {row, [row EXCEPT !.llm = Byok], [row EXCEPT !.status = "error"]}
      BY <1>13 DEF CreateKey, UpdateById, Write
    <2>2. row = NoRow => row' = NoRow
      BY <1>13 DEF CreateKey, UpdateById, Write
    <2>3. row # NoRow => row' \in Rows /\ row'.jti = row.jti
      BY <2>1
    <2> QED
      BY <1>13, <2>2, <2>3 DEF CreateKey
  <1>14. CASE RestartCreating(s)
    <2>1. row' = IF row = NoRow THEN row ELSE [row EXCEPT !.status = "creating", !.cid = NoRef]
      BY <1>14, UpdateSucceeds, Zenon DEF RestartCreating
    <2> QED
      BY <1>14, <2>1 DEF RestartCreating
  <1>15. CASE RestartRunning(s)
    <2>1. /\ pc[s] \in Started /\ UNCHANGED docker
          /\ pc'[s] \in {"free", "webhook_touch"}
      BY <1>15 DEF RestartRunning
    <2>2. row # NoRow => /\ row' \in Rows
                         /\ row'.status = "running" /\ row'.cid = loc[s].ref
                         /\ row'.iid = row.iid /\ row'.jti = row.jti
      BY <1>0, <1>15, RecordsContainer
    <2>3. row = NoRow => row' = NoRow
      BY <1>15 DEF RestartRunning, Update, Write
    <2> QED
      BY <2>1, <2>2, <2>3, RecordedIsNamed
  <1>16. CASE DeleteRow(s)
    <2>1. row' = NoRow
      BY <1>16, WriteSucceeds, Zenon DEF DeleteRow
    <2> QED
      BY <1>16, <2>1 DEF DeleteRow
  <1>17. CASE ConfigLlm(s)
    <2>1. PICK llm \in Llms : row' = row \/ row' = [row EXCEPT !.llm = llm]
      BY <1>17 DEF ConfigLlm, Update, Write
    <2>2. row # NoRow /\ docker' = docker /\ pc'[s] \in {"free", "stop_inspect"}
      BY <1>17 DEF ConfigLlm
    <2>3. /\ row' \in Rows /\ row'.status = row.status /\ row'.cid = row.cid
          /\ row'.iid = row.iid /\ row'.jti = row.jti
      BY <2>1, <2>2
    <2>4. (Running => Named) /\ Backed
      BY <1>17 DEF ConfigLlm
    <2>5. (Running => Named)' /\ Backed'
      BY <2>2, <2>3, <2>4
    <2> QED
      BY <2>2, <2>5
  <1>18. CASE ConfigRunning(s)
    <2>1. /\ pc[s] \in Started /\ UNCHANGED docker
          /\ pc'[s] \in {"free", "webhook_touch"}
      BY <1>18 DEF ConfigRunning
    <2>2. row # NoRow => /\ row' \in Rows
                         /\ row'.status = "running" /\ row'.cid = loc[s].ref
                         /\ row'.iid = row.iid /\ row'.jti = row.jti
      BY <1>0, <1>18, RecordsContainer
    <2>3. row = NoRow => row' = NoRow
      BY <1>18 DEF ConfigRunning, Update, Write
    <2> QED
      BY <2>1, <2>2, <2>3, RecordedIsNamed
  <1>19. CASE DispatchRead(s)
    BY <1>0, <1>19 DEF DispatchRead
  <1>20. CASE DispatchAlive(s)
    BY <1>0, <1>20 DEF DispatchAlive
  <1>21. CASE DispatchLabel(s)
    BY <1>0, <1>21 DEF DispatchLabel
  <1>22. CASE DispatchUpdate(s)
    <2>1. /\ pc[s] \in Started /\ UNCHANGED docker
          /\ pc'[s] \in {"free", "webhook_touch"}
      BY <1>22 DEF DispatchUpdate
    <2>2. row # NoRow => /\ row' \in Rows
                         /\ row'.status = "running" /\ row'.cid = loc[s].ref
                         /\ row'.iid = row.iid /\ row'.jti = row.jti
      BY <1>0, <1>22, RecordsContainer
    <2>3. row = NoRow => row' = NoRow
      BY <1>22 DEF DispatchUpdate, Update, Write
    <2> QED
      BY <2>1, <2>2, <2>3, RecordedIsNamed
  <1>23. CASE WebhookRunning(s)
    <2>1. /\ pc[s] \in Started /\ UNCHANGED docker
          /\ pc'[s] \in {"free", "webhook_touch"}
      BY <1>23 DEF WebhookRunning
    <2>2. row # NoRow => /\ row' \in Rows
                         /\ row'.status = "running" /\ row'.cid = loc[s].ref
                         /\ row'.iid = row.iid /\ row'.jti = row.jti
      BY <1>0, <1>23, RecordsContainer
    <2>3. row = NoRow => row' = NoRow
      BY <1>23 DEF WebhookRunning, Update, Write
    <2> QED
      BY <2>1, <2>2, <2>3, RecordedIsNamed
  <1>24. CASE WebhookTouch(s)
    <2>1. row' = IF row = NoRow THEN row ELSE [row EXCEPT !.activity = "recent"]
      BY <1>24, UpdateSucceeds, Zenon DEF WebhookTouch
    <2> QED
      BY <1>24, <2>1 DEF WebhookTouch
  <1>25. CASE IdleNull(s)
    <2>1. row' = IF row = NoRow THEN row ELSE [row EXCEPT !.status = "stopped", !.cid = NoRef, !.activity = "recent"]
      BY <1>25, UpdateSucceeds, Zenon DEF IdleNull
    <2> QED
      BY <1>25, <2>1 DEF IdleNull
  <1>26. CASE MonitorCheck(s)
    BY <1>0, <1>26 DEF MonitorCheck
  <1>27. CASE MonitorNull(s)
    <2>1. row' = IF RowIs(loc[s].iid) THEN [row EXCEPT !.status = "stopped", !.cid = NoRef] ELSE row
      BY <1>27, UpdateByIdSucceeds, Zenon DEF MonitorNull
    <2> QED
      BY <1>27, <2>1 DEF MonitorNull
  <1> QED
    BY <1>1, <1>2, <1>3, <1>4, <1>5, <1>6, <1>7, <1>8, <1>9, <1>10, <1>11, <1>12, <1>13,
       <1>14, <1>15, <1>16, <1>17, <1>18, <1>19, <1>20, <1>21, <1>22, <1>23, <1>24, <1>25, <1>26, <1>27 DEF Step, ContainerStep

\* A container that was started is the one the handler set up.
LEMMA SteadyStart ==
  ASSUME TypeOK, FaultsPast, NEW s \in Slots, Kept(s), Unfailing(s) => Trusted(s),
         StartStart(s), ~Fails
  PROVE  Held(s)'
  <1>1. loc' = loc /\ row' = row /\ pc[s] = "start_start" /\ docker \in Containers
        /\ docker' = [docker EXCEPT !.state = "running"] /\ pc'[s] \in Started
        /\ docker.id = loc[s].ref /\ row # NoRow
        /\ mended' = loc[s].seen /\ faults' = faults
    BY DEF TypeOK, StartStart, Kept, Started
  <1>2. /\ docker'.id = docker.id /\ docker'.iid = docker.iid /\ docker'.llm = docker.llm
        /\ docker'.tok = docker.tok /\ docker' \in Containers /\ docker' # NoContainer
    BY <1>1
  <1>3. Kept(s)' /\ Trusted(s)'
    BY <1>1 DEF Kept, Trusted, Started, Preparing, Reading, LlmRead
  <1>4. ~Astray' => Unfailing(s)
    <2>1. loc[s].seen <= faults /\ loc[s].seen \in Nat /\ faults \in Nat
      BY DEF FaultsPast, TypeOK
    <2> QED
      BY <1>1, <2>1 DEF Astray, Unfailing
  <1>5. Unfailing(s) => Matches'
    BY <1>1, <1>2 DEF Trusted, Matches
  <1>6. Found(loc[s].ref)' /\ row' # NoRow /\ Backed'
    BY <1>1, <1>2 DEF Backed
  <1>7. Unfailing(s) => Steady(s)'
    BY <1>1, <1>5, <1>6 DEF Steady, Started, Intact, Reading, Down, Stopped, Preparing
  <1> QED
    BY <1>3, <1>4, <1>7 DEF Held

\* What a step of a handler changes of the failures the handler saw.
LEMMA SeenStays ==
  ASSUME TypeOK, NEW s \in Slots, Step(s)
  PROVE  loc'[s].seen = loc[s].seen \/ (loc'[s].seen = 0 /\ pc'[s] = "free")
  <1> USE DEF TypeOK
  <1>1. CASE ContainerStep(s)
    BY <1>1 DEF ContainerStep, StopInspect, StopStop, StopRemove, StopRevoke,
       StartResolve, StartReadLlm, StartInspect, StartRemove, StartIssue, StartCreate, StartStart
  <1>2. CASE ~ContainerStep(s)
    BY <1>2 DEF Step, CreateInsert, CreateStopped, CreateKey, RestartCreating, RestartRunning,
       DeleteRow, ConfigLlm, ConfigRunning, DispatchRead, DispatchAlive, DispatchLabel,
       DispatchUpdate, WebhookRunning, WebhookTouch, IdleNull, MonitorCheck, MonitorNull
  <1> QED
    BY <1>1, <1>2

\* A handler's step keeps what the handler relies on.
LEMMA HeldStep ==
  ASSUME TypeOK, RunningHasContainer, FaultsPast, NEW s \in Slots, Held(s), Step(s)
  PROVE  Held(s)'
  <1>1. Kept(s) /\ Kept(s)'
    BY KeptStep DEF Held
  <1>2. loc'[s].seen = loc[s].seen \/ (loc'[s].seen = 0 /\ pc'[s] = "free")
    BY SeenStays
  <1>3. CASE Succeeds /\ ~StartStart(s)
    <2>1. faults' = faults /\ mended' = mended
      BY <1>3 DEF Succeeds
    <2>2. Unfailing(s)' => Trusted(s)'
      <3>1. CASE pc'[s] = "free"
        BY <3>1 DEF Trusted, LlmRead
      <3>2. CASE loc'[s].seen = loc[s].seen
        <4>1. Unfailing(s)' => Unfailing(s)
          BY <2>1, <3>2 DEF Unfailing
        <4> QED
          BY <1>1, <1>3, <4>1, TrustedStep DEF Held
      <3> QED
        BY <1>2, <3>1, <3>2
    <2>3. ~Astray' => Steady(s)'
      BY <1>1, <1>3, <2>1, SteadyStep DEF Held, Astray
    <2> QED
      BY <1>1, <2>2, <2>3 DEF Held
  <1>4. CASE Fails
    BY <1>1, <1>2, <1>4, FailureIsSeen DEF Held
  <1>5. CASE StartStart(s) /\ ~Fails
    BY <1>1, <1>5, SteadyStart DEF Held
  <1> QED
    BY <1>3, <1>4, <1>5, StepCalls

\* A handler begins with what holds while none is in flight.
LEMMA HeldBegin ==
  ASSUME TypeOK, RunningHasContainer, FaultsPast, NEW s \in Slots, Held(s), Begin(s)
  PROVE  Held(s)'
  <1> USE DEF TypeOK, Request, Cron, Enter
  <1>1. /\ pc[s] = "free" /\ docker' = docker /\ loc'[s].seen = faults
        /\ pc'[s] \in Entry
    BY DEF Begin, BeginCreate, BeginRestart, BeginDelete, BeginConfig, BeginSlack,
       BeginSchedule, BeginWebhook, BeginIdle, BeginMonitor, Entry
  <1>2. (row' = row /\ Succeeds) \/ BeginSlack(s)
    BY DEF Begin, BeginCreate, BeginRestart, BeginDelete, BeginConfig,
       BeginSchedule, BeginWebhook, BeginIdle, BeginMonitor
  <1>3. /\ ~Astray => (Running => Named) /\ Backed
        /\ Trusted(s)'
    BY <1>1 DEF Held, Steady, Intact, Trusted, LlmRead, Entry
  <1>4. CASE BeginSlack(s)
    <2>1. row # NoRow /\ pc'[s] = "dispatch_read"
      BY <1>4 DEF BeginSlack
    <2>2. Kept(s)'
      BY <2>1 DEF Kept, Reading, Preparing
    <2>3. CASE Fails
      BY <1>1, <1>3, <2>2, <2>3, FailureIsSeen DEF Held
    <2>4. CASE Succeeds
      <3>1. row' = [row EXCEPT !.activity = "recent"]
        BY <1>4, <2>4, WriteSucceeds, Zenon DEF BeginSlack
      <3>2. /\ row' \in Rows /\ row'.status = row.status /\ row'.cid = row.cid
            /\ row'.iid = row.iid /\ row'.jti = row.jti
        BY <2>1, <3>1
      <3>3. ~Astray => (Running => Named)' /\ Backed'
        BY <1>1, <1>3, <2>1, <3>2 DEF Named, Backed
      <3>4. ~Astray => Steady(s)'
        BY <2>1, <3>3 DEF Steady, Down, Started, Preparing, Stopped
      <3> QED
        BY <1>3, <2>2, <2>4, <3>4 DEF Held, Astray, Succeeds
    <2> QED
      BY <1>4, <2>3, <2>4 DEF BeginSlack, Write
  <1>5. CASE row' = row /\ Succeeds
    <2> USE DEF Kept, Steady, Reading, Intact, Down, Started, Preparing, Stopped, Named, Backed
    <2>1. Kept(s)'
      BY <1>5 DEF Begin, BeginCreate, BeginRestart, BeginDelete, BeginConfig, BeginSlack,
         BeginSchedule, BeginWebhook, BeginIdle, BeginMonitor
    <2>2. ASSUME ~Astray PROVE Steady(s)'
      <3>1. CASE pc'[s] \in Down
        <4>1. ~Running
          BY <1>3, <1>5, <2>2, <3>1 DEF Begin, BeginCreate, BeginRestart, BeginDelete, BeginConfig,
             BeginSlack, BeginSchedule, BeginWebhook, BeginIdle, BeginMonitor, RunningHasContainer
        <4> QED
          BY <1>1, <1>3, <1>5, <2>2, <3>1, <4>1 DEF Entry
      <3>2. CASE pc'[s] \notin Down
        BY <1>1, <1>3, <1>5, <2>2, <3>2 DEF Entry
      <3> QED
        BY <3>1, <3>2
    <2> QED
      BY <1>3, <1>5, <2>1, <2>2 DEF Held, Astray, Succeeds
  <1> QED
    BY <1>2, <1>4, <1>5

\* Nor does a container's death, or the passing of time, take it away.
LEMMA HeldAround ==
  ASSUME TypeOK, NEW s \in Slots, Held(s), ContainerDies \/ TimePasses
  PROVE  Held(s)'
  <1> USE DEF TypeOK, Kept, Trusted, Named, Backed, Matches, Reading, Intact, Down, Stopped,
              Preparing, LlmRead, Started
  <1>1. Kept(s)'
    BY DEF Held, ContainerDies, TimePasses, Quiescent
  <1>2. Unfailing(s)' => Trusted(s)'
    BY DEF Held, Unfailing, ContainerDies, TimePasses, Quiescent
  <1>3. ~Astray' => Steady(s)'
    BY DEF Held, Astray, Steady, ContainerDies, TimePasses, Quiescent
  <1> QED
    BY <1>1, <1>2, <1>3 DEF Held

LEMMA SeqStep == IInv /\ SeqInv /\ Sequential /\ Sequential' /\ [Next]_vars => SeqInv'
  <1> SUFFICES ASSUME IInv, SeqInv, Sequential, Sequential', [Next]_vars PROVE SeqInv'
    OBVIOUS
  <1>1. TypeOK /\ RunningHasContainer /\ FaultsPast
    BY DEF IInv
  <1>2. ASSUME NEW s \in Slots, Begin(s) \/ Step(s) PROVE SeqInv'
    <2>1. \A t \in Slots \ {s} : pc'[t] = pc[t]
      BY <1>1, <1>2, OtherSlotStays
    <2>2. pc[s] # "free" \/ pc'[s] # "free"
      BY <1>1, <1>2 DEF TypeOK, Begin, BeginCreate, BeginRestart, BeginDelete, BeginConfig, BeginSlack,
         BeginSchedule, BeginWebhook, BeginIdle, BeginMonitor, Request, Cron, Enter, Step,
         ContainerStep, StopInspect, StopStop, StopRemove, StopRevoke, StartResolve, StartReadLlm,
         StartInspect, StartRemove, StartIssue, StartCreate, StartStart, CreateInsert, CreateStopped,
         CreateKey, RestartCreating, RestartRunning, DeleteRow, ConfigLlm, ConfigRunning,
         DispatchRead, DispatchAlive, DispatchLabel, DispatchUpdate, WebhookRunning, WebhookTouch,
         IdleNull, MonitorCheck, MonitorNull
    <2>3. \A t \in Slots \ {s} : pc[t] = "free" /\ pc'[t] = "free"
      BY <2>1, <2>2 DEF Sequential
    <2>4. Held(s)
      BY <2>3 DEF SeqInv, Lone
    <2>5. Held(s)'
      BY <1>1, <1>2, <2>4, HeldBegin, HeldStep
    <2> QED
      BY <2>3, <2>5, HeldByOne
  <1>3. CASE ContainerDies \/ TimePasses
    <2>1. UNCHANGED pc
      BY <1>3 DEF ContainerDies, TimePasses
    <2> SUFFICES ASSUME NEW s \in Slots, Lone(s)' PROVE Held(s)'
      BY DEF SeqInv
    <2>2. Held(s)
      BY <2>1 DEF SeqInv, Lone
    <2> QED
      BY <1>1, <1>3, <2>2, HeldAround
  <1>4. CASE OrchestratorCrashes
    BY <1>1, <1>4 DEF OrchestratorCrashes, Sequential, TypeOK
  <1>5. CASE UNCHANGED vars
    BY <1>5 DEF vars, cmVars, SeqInv, Lone, Held, Kept, Trusted, Steady, Unfailing, Astray,
       Named, Backed, Matches
  <1> QED
    BY <1>2, <1>3, <1>4, <1>5 DEF Next, Environment

\* With room for one handler, in a process that does not crash, handlers
\* never overlap.
LEMMA OneSlotIsSequential ==
  ASSUME NEW s, Slots = {s}, MaxCrashes = 0
  PROVE  Spec => []Sequential
  <1>1. TypeOK => Sequential
    BY DEF TypeOK, Sequential
  <1> QED
    BY <1>1, TypeCorrect, PTL

-----------------------------------------------------------------------------
\* What a lone handler relies on holds in every state: always, or while no call
\* of its own has failed, or while none has since a container was started.
THEOREM SequentialInductive == Spec /\ []Sequential => [](IInv /\ SeqInv)
  <1>1. Init => SeqInv
    BY DEF Init, SeqInv, Held, Kept, Trusted, Steady, Backed, Intact, Down, Started, Reading,
       Preparing, LlmRead, Stopped
  <1>2. IInv /\ SeqInv /\ Sequential /\ Sequential' /\ [Next]_vars => SeqInv'
    BY SeqStep
  <1> QED
    BY <1>1, <1>2, Inductive, PTL DEF Spec

\* Between handlers that did not overlap, and unless a call has failed since a
\* handler last started a container, a running container is the one the row
\* names, is the row's instance's and has the token the proxy takes.
THEOREM SequentialCoherent == Spec /\ []Sequential => []Coherent
  <1>1. IInv /\ SeqInv => Coherent
    <2> SUFFICES ASSUME SeqInv, Quiescent, Running, ~Astray, NEW s \in Slots PROVE Named
      BY HandlersRun DEF Coherent, Named
    <2> QED
      BY DEF SeqInv, Lone, Held, Steady, Quiescent, Intact
  <1> QED
    BY <1>1, SequentialInductive, PTL

\* Nor, unless a call has failed since then, is a token on record that no
\* container can present.
THEOREM SequentialTokens == Spec /\ []Sequential => []NoTokenWithoutContainer
  <1>1. IInv /\ SeqInv => NoTokenWithoutContainer
    <2> SUFFICES ASSUME SeqInv, Quiescent, ~Astray, NEW s \in Slots PROVE Backed
      BY HandlersRun DEF NoTokenWithoutContainer, Backed
    <2> QED
      BY DEF SeqInv, Lone, Held, Steady, Quiescent
  <1> QED
    BY <1>1, SequentialInductive, PTL

\* A dispatch that no other handler overlapped reaches a container that runs
\* the LLM the user has selected, unless a call has failed since a handler last
\* started a container.
THEOREM SequentialLlm == Spec /\ []Sequential => DispatchUsesSelectedLlm
  <1> DEFINE Selected == \A s \in Slots : Delivers(s) /\ ~Astray' => docker.llm' = row.llm'
  <1>1. IInv /\ SeqInv /\ Sequential /\ [Next]_vars => [Selected]_vars
    <2> SUFFICES ASSUME IInv, SeqInv, Sequential, Next, NEW s \in Slots, Delivers(s), ~Astray'
                 PROVE  docker.llm' = row.llm'
      OBVIOUS
    <2>1. /\ solo = s /\ solo' = s /\ pc'[s] = "free"
          /\ pc[s] \in {"dispatch_label", "dispatch_update"}
          /\ TypeOK /\ FaultsPast
      BY DEF Delivers, IInv
    <2>2. Step(s)
      BY <2>1, OwnStepEnds
    <2>3. Held(s) /\ Undisturbed(s)
      BY <2>1 DEF Sequential, SeqInv, Lone, IInv, SoloInv
    <2>4. DispatchLabel(s) \/ DispatchUpdate(s)
      BY <2>1, <2>2 DEF Step, ContainerStep, StopInspect, StopStop, StopRemove, StopRevoke,
         StartResolve, StartReadLlm, StartInspect, StartRemove, StartIssue, StartCreate, StartStart,
         CreateInsert, CreateStopped, CreateKey, RestartCreating, RestartRunning, DeleteRow,
         ConfigLlm, ConfigRunning, DispatchRead, DispatchAlive, WebhookRunning, WebhookTouch,
         IdleNull, MonitorCheck, MonitorNull
    <2>5. ~Fails
      BY <2>1, <2>2, SeenStays, FailureIsSeen
    <2>6. UNCHANGED docker /\ Succeeds
      BY <2>1, <2>2, <2>4, <2>5, StepCalls DEF StartStart, DispatchLabel, DispatchUpdate
    <2>7. CASE DispatchLabel(s)
      <3>1. Running /\ Found(loc[s].ref) /\ loc[s].llm = row.llm
        BY <2>3, <2>7 DEF DispatchLabel, Held, Kept, Undisturbed
      <3>2. pc'[s] # "stop_inspect" /\ pc \in [Slots -> Points]
        BY <2>1 DEF TypeOK
      <3>3. docker.llm = loc[s].llm
        BY <2>5, <2>7, <3>1, <3>2 DEF DispatchLabel
      <3>4. row' = row
        BY <2>7 DEF DispatchLabel
      <3> QED
        BY <2>6, <3>1, <3>3, <3>4
    <2>8. CASE DispatchUpdate(s)
      <3>1. ~Astray
        BY <2>6 DEF Succeeds, Astray
      <3>2. pc[s] \in Started /\ row # NoRow /\ Running
        BY <2>3, <2>8 DEF DispatchUpdate, Undisturbed, Started
      <3>3. docker.llm = row.llm
        BY <2>3, <3>1, <3>2 DEF Held, Steady, Matches
      <3>4. row'.llm = row.llm
        BY <2>1, <2>5, <2>8, <3>2, RecordsContainer
      <3> QED
        BY <2>6, <3>3, <3>4
    <2> QED
      BY <2>4, <2>7, <2>8
  <1> QED
    BY <1>1, SequentialInductive, PTL DEF Spec, DispatchUsesSelectedLlm
==============================================================================
