-------------------------- MODULE WorkflowLifecycle --------------------------
(***************************************************************************)
(* Who may advance one workflow run, and what the run says of itself: the  *)
(* executor lock (workflow/src/deno/executor.ts), the lifecycle            *)
(* transitions over the run's database (deno/transitions.ts) and the       *)
(* command that drives them (runWorkflow in cli/src/workflow.ts).          *)
(*                                                                         *)
(* The database outlives every host: `status`, `waitingAt`, `journal` and  *)
(* `unfinished` are rows of it.  `lock` is the kernel's advisory lock and  *)
(* `hold` what one process keeps in memory.  A lifecycle transition is one *)
(* synchronous transaction, so each is one step here.  What the document   *)
(* does while it runs is WorkflowRun's, which composes this module.        *)
(***************************************************************************)
EXTENDS Naturals, Sequences, FiniteSets

CONSTANTS
  Host,                  \* processes that may execute or cancel the run
  Execution,             \* identities of document executions, used again once free
  Nil,                   \* neither a host nor an execution
  MaxBegins,             \* bound: begins attempted under one acquisition
  MaxFaults              \* bound: crashes, interrupts and refused writes in all

ASSUME NilAssumption == Nil \notin Host \cup Execution
ASSUME BoundAssumption == MaxBegins \in Nat /\ MaxFaults \in Nat

VARIABLES
  status,                \* the run row's status, "absent" before it is created
  waitingAt,             \* journal position its stop reason names, 0 when none
  journal,               \* the retained events, oldest first
  unfinished,            \* executions whose stopped_at is null
  lock,                  \* the host holding the executor lock, or Nil
  hold,                  \* what each host keeps of its acquisition
  faults                 \* failures spent so far

lifecycleVars == <<status, waitingAt, journal, unfinished, lock, hold, faults>>

Terminal == {"completed", "failed"}

NoEntry == [type |-> "none", ok |-> FALSE, value |-> Nil]

\* `execution` is the hold's own; it also stands for settleInterruption, which is
\* set and cleared with it.  `document` is the receipt the caller kept.
IdleHold ==
  [pc |-> "idle", execution |-> Nil, document |-> Nil, begins |-> 0,
   replay |-> FALSE, outcome |-> "none", staged |-> NoEntry]

\* A document is being executed; a document is executed or its outcome unsettled.
Running == {"replaying", "live", "claiming", "writing"}
Unsettled == Running \cup {"executed"}

InitLifecycle ==
  /\ status = "absent"
  /\ waitingAt = 0
  /\ journal = <<>>
  /\ unfinished = {}
  /\ lock = Nil
  /\ hold = [h \in Host |-> IdleHold]
  /\ faults = 0

\* One more failure, while the bound allows it.
Fault == faults < MaxFaults /\ faults' = faults + 1

RootClosed == journal # <<>> /\ journal[Len(journal)].type = "close"

\* rootOutcome(): what the root's Close proves the document became.
RootOutcome == IF journal[Len(journal)].ok THEN "completed" ELSE "failed"

\* publish(): the run's status and the wait its stop reason names.
Publish(s, w) == status' = s /\ waitingAt' = w

\* A host takes a free lock; a held one refuses at once and changes nothing.
Acquire(h) ==
  /\ hold[h].pc = "idle"
  /\ lock = Nil
  /\ lock' = h
  /\ hold' = [hold EXCEPT ![h].pc = "acquired"]
  /\ UNCHANGED <<status, waitingAt, journal, unfinished, faults>>

\* reconcile(), closingOutcome(): what the run is once the executions of an
\* executor that went away are accounted for.
Recovered ==
  IF unfinished = {} \/ status \in Terminal THEN status
  ELSE IF RootClosed THEN RootOutcome ELSE "interrupted"

\* Mutant of Refused: only a suspended run is resumed and only a new one started.
RefusedUnlessSuspended(action, s) ==
  IF action = "resume" THEN s # "suspended" ELSE s # "absent"

\* admissionRefusal(), and the run that a resume does not find.
Refused(action, s) ==
  IF action = "resume" THEN s \in {"absent", "failed", "cancelled"} ELSE s = "cancelled"

\* Mutant of Begin: the stored status stays until the execution settles.
BeginUnpublished(h, action, e) ==
  /\ hold[h].pc = "acquired"
  /\ ~Refused(action, Recovered)
  /\ \A g \in Host : e \notin {hold[g].execution, hold[g].document}
  /\ e \notin unfinished
  /\ unfinished' = {e}
  /\ IF status = "absent" THEN Publish("running", 0) ELSE UNCHANGED <<status, waitingAt>>
  /\ hold' = [hold EXCEPT ![h].begins = @ + 1, ![h].execution = e, ![h].document = e,
                          ![h].replay = Recovered \in Terminal, ![h].pc = "replaying"]
  /\ UNCHANGED <<journal, lock, faults>>

\* beginOnce(): recovery, admission and the new execution in one transaction.  A
\* refusal still commits the recovery.
Begin(h, action, e) ==
  /\ hold[h].pc \in {"acquired"} \cup Running
  /\ hold[h].execution = Nil
  /\ hold[h].begins < MaxBegins
  /\ \A g \in Host : e \notin {hold[g].execution, hold[g].document}
  /\ e \notin unfinished
  /\ IF Refused(action, Recovered)
       THEN /\ unfinished' = {}
            /\ Publish(Recovered, 0)
            /\ hold' = [hold EXCEPT ![h].begins = @ + 1,
                                    ![h].pc = IF @ = "acquired" THEN "leaving" ELSE @]
       ELSE /\ unfinished' = {e}
            /\ Publish(IF Recovered \in Terminal THEN Recovered ELSE "running", 0)
            /\ hold' = [hold EXCEPT
                 ![h].begins = @ + 1,
                 ![h].execution = e,
                 ![h].document = IF @ = Nil THEN e ELSE @,
                 ![h].replay = IF hold[h].pc = "acquired" THEN Recovered \in Terminal ELSE @,
                 ![h].pc = IF @ = "acquired" THEN "replaying" ELSE @]
  /\ UNCHANGED <<journal, lock, faults>>

\* A second begin under one acquisition throws inside the transaction, and the
\* rolled-back begin forgets the execution the first one recorded.
BeginAgain(h) ==
  /\ hold[h].pc \in Running
  /\ hold[h].execution # Nil
  /\ hold[h].begins < MaxBegins
  /\ hold' = [hold EXCEPT ![h].begins = @ + 1, ![h].execution = Nil]
  /\ UNCHANGED <<status, waitingAt, journal, unfinished, lock, faults>>

\* The begin's transaction could not be opened or committed.
BeginFails(h) ==
  /\ hold[h].pc = "acquired"
  /\ Fault
  /\ hold' = [hold EXCEPT ![h].pc = "leaving"]
  /\ UNCHANGED <<status, waitingAt, journal, unfinished, lock>>

\* finish() and publish() of one execution: a row that already stopped keeps what
\* stopped it and publishes nothing.
Finish(e, s, w) ==
  IF e \in unfinished
    THEN unfinished' = unfinished \ {e} /\ Publish(s, w)
    ELSE UNCHANGED <<unfinished, status, waitingAt>>

\* settleExecution(): only the execution this acquisition began.
SettleAs(h, s, w) ==
  IF hold[h].execution = hold[h].document
    THEN Finish(hold[h].document, s, w)
    ELSE UNCHANGED <<unfinished, status, waitingAt>>

\* The journal could not be read for a stop reason: a suspension names no wait.
Unnamed(h, w) == w = 0 /\ hold[h].outcome = "suspended" /\ Fault

\* The caller settles what the document became; a suspension names its request,
\* the last event retained.
Settle(h, w) ==
  /\ hold[h].pc = "executed"
  /\ \/ Unnamed(h, w)
     \/ w = (IF hold[h].outcome = "suspended" THEN Len(journal) ELSE 0) /\ UNCHANGED faults
  /\ SettleAs(h, hold[h].outcome, w)
  /\ hold' = [hold EXCEPT ![h].pc = "leaving"]
  /\ UNCHANGED <<journal, lock>>

\* Storage refuses the settlement: nothing is published and the command leaves.
SettleFails(h) ==
  /\ hold[h].pc = "executed"
  /\ Fault
  /\ hold' = [hold EXCEPT ![h].pc = "leaving"]
  /\ UNCHANGED <<status, waitingAt, journal, unfinished, lock>>

\* Mutant of Interrupt: the open transaction is not rolled back.
InterruptKeepingWrites(h) ==
  /\ hold[h].pc \in {"acquired"} \cup Unsettled
  /\ Fault
  /\ IF hold[h].pc \in Running
       THEN SettleAs(h, "interrupted", 0)
       ELSE UNCHANGED <<unfinished, status, waitingAt>>
  /\ hold' = [hold EXCEPT ![h].pc = "leaving"]
  /\ UNCHANGED <<journal, lock>>

\* The command's scope is torn down: its finalizer publishes an interruption while
\* the document may still run, and says nothing once it is over.
Interrupt(h) ==
  /\ hold[h].pc \in {"acquired"} \cup Unsettled
  /\ Fault
  /\ IF hold[h].pc \in Running
       THEN SettleAs(h, "interrupted", 0)
       ELSE UNCHANGED <<unfinished, status, waitingAt>>
  /\ hold' = [hold EXCEPT ![h].pc = "leaving", ![h].staged = NoEntry]
  /\ UNCHANGED <<journal, lock>>

\* Mutants of Leave: the settler finishes no row before the lock is free; it
\* publishes whether or not it finished one.
LeaveUnsettled(h) ==
  /\ hold[h].pc = "leaving"
  /\ IF hold[h].execution \in unfinished
       THEN Publish("interrupted", 0) /\ UNCHANGED unfinished
       ELSE UNCHANGED <<unfinished, status, waitingAt>>
  /\ hold' = [hold EXCEPT ![h] = IdleHold]
  /\ lock' = Nil
  /\ UNCHANGED <<journal, faults>>

LeavePublishing(h) ==
  /\ hold[h].pc = "leaving"
  /\ Publish("interrupted", 0)
  /\ unfinished' = unfinished \ {hold[h].execution}
  /\ hold' = [hold EXCEPT ![h] = IdleHold]
  /\ lock' = Nil
  /\ UNCHANGED <<journal, faults>>

\* The acquisition ends: settleInterruption() finishes what it began and nobody
\* finished, then the hold closes and the lock is free.
Leave(h) ==
  /\ hold[h].pc = "leaving"
  /\ Finish(hold[h].execution, "interrupted", 0)
  /\ hold' = [hold EXCEPT ![h] = IdleHold]
  /\ lock' = Nil
  /\ UNCHANGED <<journal, faults>>

\* The settler's transaction fails, which it swallows.
LeaveSilently(h) ==
  /\ hold[h].pc = "leaving"
  /\ hold[h].execution \in unfinished
  /\ Fault
  /\ hold' = [hold EXCEPT ![h] = IdleHold]
  /\ lock' = Nil
  /\ UNCHANGED <<status, waitingAt, journal, unfinished>>

\* The process dies at any point: the kernel frees its lock and no finalizer runs.
Crash(h) ==
  /\ hold[h].pc # "idle"
  /\ Fault
  /\ hold' = [hold EXCEPT ![h] = IdleHold]
  /\ lock' = Nil
  /\ UNCHANGED <<status, waitingAt, journal, unfinished>>

\* Mutants of Cancel: the run is cancelled without the lock; the root's recorded
\* outcome is not looked at.
CancelUnlocked ==
  /\ status \notin {"absent", "cancelled"} \cup Terminal
  /\ unfinished' = {}
  /\ Publish(IF RootClosed THEN RootOutcome ELSE "cancelled", 0)
  /\ UNCHANGED <<journal, lock, hold, faults>>

CancelBlindly ==
  /\ lock = Nil
  /\ status \notin {"absent", "cancelled"} \cup Terminal
  /\ unfinished' = {}
  /\ Publish("cancelled", 0)
  /\ UNCHANGED <<journal, lock, hold, faults>>

\* cancelRun(), under the executor lock it takes and gives back: an outcome the
\* root recorded is restored, anything else unfinished ends cancelled.
Cancel ==
  /\ lock = Nil
  /\ status \notin {"absent", "cancelled"} \cup Terminal
  /\ unfinished' = {}
  /\ Publish(IF RootClosed THEN RootOutcome ELSE "cancelled", 0)
  /\ UNCHANGED <<journal, lock, hold, faults>>
==============================================================================
