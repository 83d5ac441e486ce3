----------------------------- MODULE WorkflowRun -----------------------------
(***************************************************************************)
(* One workflow run from its creation to its end: the lifecycle and the    *)
(* executor lock (WorkflowLifecycle) composed with what the document does  *)
(* while it runs (workspace effects, suspension requests and answers) and  *)
(* with the people who deliver answers from other processes without the    *)
(* lock (deno/delivery.ts).                                                *)
(*                                                                         *)
(* The document is a straight line of steps.  Its position is the length   *)
(* of the retained journal: a new execution replays what is retained and   *)
(* goes on live from there.                                                *)
(***************************************************************************)
EXTENDS WorkflowLifecycle

CONSTANTS
  Script,                \* the document's steps: "edit", "request" and "answer"
  Deliverer              \* deliveries that may be tried, each with its own value

ASSUME ScriptAssumption ==
  /\ Script \in Seq({"edit", "request", "answer"})
  /\ \A i \in DOMAIN Script : Script[i] = "answer" <=> i - 1 \in DOMAIN Script /\ Script[i - 1] = "request"

ASSUME DelivererAssumption == Nil \notin Deliverer

VARIABLES
  root,                  \* the published Workspace root, as the edits it holds
  answer,                \* per request position, the retained answer row
  delivery               \* per delivery, how far deliverAnswer() has got

vars == <<lifecycleVars, root, answer, delivery>>

documentVars == <<status, waitingAt, unfinished, lock, faults, delivery>>

Request == {i \in DOMAIN Script : Script[i] = "request"}
NoAnswer == [state |-> "none", value |-> Nil]

Init ==
  /\ InitLifecycle
  /\ root = 0
  /\ answer = [k \in Request |-> NoAnswer]
  /\ delivery = [d \in Deliverer |-> [pc |-> "idle", at |-> 0]]

Entry(type, ok, value) == [type |-> type, ok |-> ok, value |-> value]

\* What the document does next once the journal is replayed.
NextStep == IF Len(journal) < Len(Script) THEN Script[Len(journal) + 1] ELSE "return"

Executed(h, outcome) ==
  hold' = [hold EXCEPT ![h].pc = "executed", ![h].outcome = outcome, ![h].staged = NoEntry]

-----------------------------------------------------------------------------
(* The document *)

\* A journal that holds the root's Close answers for the whole document.
ReplayClose(h) ==
  /\ hold[h].pc = "replaying"
  /\ RootClosed
  /\ Executed(h, RootOutcome)
  /\ UNCHANGED <<documentVars, journal, root, answer>>

\* Every retained step is replayed; the next one is live.
Replay(h) ==
  /\ hold[h].pc = "replaying"
  /\ ~RootClosed
  /\ hold' = [hold EXCEPT ![h].pc = "live"]
  /\ UNCHANGED <<documentVars, journal, root, answer>>

\* BEGIN IMMEDIATE, and everything the transaction writes before its COMMIT.
Stage(h, entry) ==
  /\ hold' = [hold EXCEPT ![h].pc = "writing", ![h].staged = entry]
  /\ UNCHANGED <<documentVars, journal, root, answer>>

\* A workspace edit: the mutation runs in a savepoint, so an edit that fails takes
\* its writes back and is journaled as a failure.
Edit(h, ok) ==
  /\ hold[h].pc = "live"
  /\ NextStep = "edit"
  /\ ~hold[h].replay
  /\ Stage(h, Entry("edit", ok, Nil))

\* The replay of a terminal run is attached to no Workspace: a live edit is refused
\* before it is journaled, and the document fails.
EditUnattached(h) ==
  /\ hold[h].pc = "live"
  /\ NextStep = "edit"
  /\ hold[h].replay
  /\ Executed(h, "failed")
  /\ UNCHANGED <<documentVars, journal, root, answer>>

\* suspendFor() publishes its request before it waits for the answer.
PublishRequest(h) ==
  /\ hold[h].pc = "live"
  /\ NextStep = "request"
  /\ journal' = Append(journal, Entry("request", TRUE, Nil))
  /\ UNCHANGED <<documentVars, hold, root, answer>>

\* claim(), the read: a pending answer is there to take.
FindAnswer(h) ==
  /\ hold[h].pc = "live"
  /\ NextStep = "answer"
  /\ answer[Len(journal)].state = "pending"
  /\ hold' = [hold EXCEPT ![h].pc = "claiming"]
  /\ UNCHANGED <<documentVars, journal, root, answer>>

\* No answer to claim: accept() reports the wait and the document is halted there.
Suspend(h) ==
  /\ hold[h].pc = "live"
  /\ NextStep = "answer"
  /\ answer[Len(journal)].state # "pending"
  /\ Executed(h, "suspended")
  /\ UNCHANGED <<documentVars, journal, root, answer>>

\* claim(), the transaction: read again, publish the value and consume the row.
Claim(h) ==
  /\ hold[h].pc = "claiming"
  /\ NextStep = "answer"
  /\ answer[Len(journal)].state = "pending"
  /\ Stage(h, Entry("answer", TRUE, answer[Len(journal)].value))

\* Mutant of Commit: the root is published for a failed edit too.
CommitEveryRoot(h) ==
  /\ hold[h].pc = "writing"
  /\ journal' = Append(journal, hold[h].staged)
  /\ root' = IF hold[h].staged.type = "edit" THEN root + 1 ELSE root
  /\ answer' = IF hold[h].staged.type = "answer"
                 THEN [answer EXCEPT ![Len(journal)].state = "consumed"] ELSE answer
  /\ hold' = [hold EXCEPT ![h].pc = "live", ![h].staged = NoEntry]
  /\ UNCHANGED documentVars

\* COMMIT: the event and the root it was captured at, or the event and the row it
\* consumes, become durable together.
Commit(h) ==
  /\ hold[h].pc = "writing"
  /\ journal' = Append(journal, hold[h].staged)
  /\ root' = IF hold[h].staged.type = "edit" /\ hold[h].staged.ok THEN root + 1 ELSE root
  /\ answer' = IF hold[h].staged.type = "answer"
                 THEN [answer EXCEPT ![Len(journal)].state = "consumed"] ELSE answer
  /\ hold' = [hold EXCEPT ![h].pc = "live", ![h].staged = NoEntry]
  /\ UNCHANGED documentVars

\* The document returns, or an error leaves it, and the root's Close says which.
Close(h, ok) ==
  /\ hold[h].pc = "live"
  /\ IF ok THEN NextStep = "return" ELSE NextStep # "answer"
  /\ journal' = Append(journal, Entry("close", ok, Nil))
  /\ Executed(h, IF ok THEN "completed" ELSE "failed")
  /\ UNCHANGED <<documentVars, root, answer>>

\* Storage refuses the write, or a finalizer raises as the document unwinds: the
\* open transaction rolls back and the document fails with no Close.
DocumentFails(h) ==
  /\ hold[h].pc \in {"live", "claiming", "writing"}
  /\ Fault
  /\ Executed(h, "failed")
  /\ UNCHANGED <<status, waitingAt, unfinished, lock, delivery, journal, root, answer>>

-----------------------------------------------------------------------------
(* Deliveries, which hold no executor lock *)

\* retainedWait(): the run says it is suspended at this request, unanswered.
RetainedWait(k) ==
  /\ status = "suspended"
  /\ waitingAt = k
  /\ answer[k].state = "none"

\* deliverAnswer() reads the wait, closes its transaction and judges the value.
DeliverJudged(d, k) ==
  /\ delivery[d].pc = "idle"
  /\ RetainedWait(k)
  /\ delivery' = [delivery EXCEPT ![d] = [pc |-> "judged", at |-> k]]
  /\ UNCHANGED <<lifecycleVars, root, answer>>

\* Mutant of Retain: a second value replaces the first while the run still waits.
RetainReplacing(d) ==
  /\ delivery[d].pc = "judged"
  /\ status = "suspended" /\ waitingAt = delivery[d].at
  /\ answer' = [answer EXCEPT ![delivery[d].at] = [state |-> "pending", value |-> d]]
  /\ delivery' = [delivery EXCEPT ![d].pc = "delivered"]
  /\ UNCHANGED <<lifecycleVars, root>>

\* retain(): every question asked again under the write lock.
Retain(d) ==
  /\ delivery[d].pc = "judged"
  /\ RetainedWait(delivery[d].at)
  /\ answer' = [answer EXCEPT ![delivery[d].at] = [state |-> "pending", value |-> d]]
  /\ delivery' = [delivery EXCEPT ![d].pc = "delivered"]
  /\ UNCHANGED <<lifecycleVars, root>>

\* The run moved on while the value was judged.
RefuseDelivery(d) ==
  /\ delivery[d].pc = "judged"
  /\ ~RetainedWait(delivery[d].at)
  /\ delivery' = [delivery EXCEPT ![d].pc = "refused"]
  /\ UNCHANGED <<lifecycleVars, root, answer>>

-----------------------------------------------------------------------------
Document(h) ==
  \/ ReplayClose(h) \/ Replay(h)
  \/ \E ok \in BOOLEAN : Edit(h, ok) \/ Close(h, ok)
  \/ EditUnattached(h) \/ PublishRequest(h)
  \/ FindAnswer(h) \/ Suspend(h) \/ Claim(h) \/ Commit(h)

\* An executor at work: it takes the lock, begins, runs, settles and leaves.
Execute(h) ==
  \/ /\ \/ Acquire(h)
        \/ \E action \in {"start", "resume"}, e \in Execution : Begin(h, action, e)
        \/ \E w \in 0 .. Len(journal) : Settle(h, w)
        \/ Leave(h)
     /\ UNCHANGED <<root, answer, delivery>>
  \/ Document(h)

\* What goes wrong around it.
Disturb(h) ==
  \/ /\ \/ BeginAgain(h) \/ BeginFails(h) \/ SettleFails(h)
        \/ Interrupt(h) \/ LeaveSilently(h) \/ Crash(h)
     /\ UNCHANGED <<root, answer, delivery>>
  \/ DocumentFails(h)

Others ==
  \/ Cancel /\ UNCHANGED <<root, answer, delivery>>
  \/ \E d \in Deliverer :
       \/ \E k \in Request : DeliverJudged(d, k)
       \/ Retain(d) \/ RefuseDelivery(d)

Next == Others \/ \E h \in Host : Execute(h) \/ Disturb(h)

Spec == Init /\ [][Next]_vars

\* Somebody keeps resuming the run, and an executor that is not disturbed goes on.
FairSpec == Spec /\ WF_vars(\E h \in Host : Execute(h))

-----------------------------------------------------------------------------
(* Properties *)

Status == {"absent", "running", "interrupted", "suspended", "cancelled"} \cup Terminal

EntryRecord ==
  [type : {"none", "edit", "request", "answer", "close"}, ok : BOOLEAN, value : Deliverer \cup {Nil}]

HoldRecord ==
  [pc : {"idle", "acquired", "leaving"} \cup Unsettled,
   execution : Execution \cup {Nil}, document : Execution \cup {Nil}, begins : Nat,
   replay : BOOLEAN, outcome : {"none", "completed", "failed", "suspended"}, staged : EntryRecord]

\* Every row, hold and delivery has the shape the storage schema and the types of
\* executor.ts and delivery.ts give it, and only an open transaction holds a staged
\* event.
TypeOK ==
  /\ status \in Status
  /\ waitingAt \in Nat
  /\ journal \in Seq(EntryRecord)
  /\ unfinished \subseteq Execution
  /\ lock \in Host \cup {Nil}
  /\ hold \in [Host -> HoldRecord]
  /\ \A h \in Host : hold[h].pc = "writing" <=> hold[h].staged # NoEntry
  /\ faults \in Nat
  /\ root \in Nat
  /\ answer \in [Request -> [state : {"none", "pending", "consumed"}, value : Deliverer \cup {Nil}]]
  /\ delivery \in [Deliverer -> [pc : {"idle", "judged", "delivered", "refused"}, at : {0} \cup Request]]

\* A document that is running or has yet to be settled is executed by the host that
\* holds the lock, and its row is unfinished: nobody reconciled, cancelled or
\* settled a live execution (executor.ts, beginOnce in transitions.ts).
LiveIsUnfinished ==
  \A h \in Host : hold[h].pc \in Unsettled => lock = h /\ hold[h].document \in unfinished

\* The status and the execution rows, moved by six transactions of three programs,
\* never disagree: a run says `running` exactly while an execution of it is
\* unaccounted for, unless that execution replays an outcome that already won, and
\* no two executions are unaccounted for at once.
HalvesAgree ==
  /\ status = "running" => unfinished # {}
  /\ unfinished # {} => status \in {"running"} \cup Terminal
  /\ \A e, f \in unfinished : e = f

\* A suspended run that names a wait names a request it retains and has not
\* answered: what a person is told to answer can be answered (settleExecution,
\* suspensionEvent, retainedWait).
SuspendedAtOpenWait ==
  status = "suspended" /\ waitingAt # 0 =>
    /\ waitingAt = Len(journal)
    /\ journal[waitingAt].type = "request"

\* Once the root recorded its Close no cancellation wins over it, whichever of the
\* executor, its settler, the next begin and cancelRun comes first (cancelRun).
CloseBeatsCancel == RootClosed => status # "cancelled"

\* A cancelled run is never advanced: no start, resume, settlement, teardown or
\* delivery changes its status, journal, workspace or answers again.
CancelledIsFinal ==
  [][status = "cancelled" =>
       UNCHANGED <<status, waitingAt, unfinished, journal, root, answer>>]_vars

\* The Workspace root holds exactly the edits the journal says succeeded, through
\* crashes between the mutation and the commit (coordinateTransaction).
WorkspaceMatchesJournal ==
  root = Cardinality({i \in DOMAIN journal : journal[i].type = "edit" /\ journal[i].ok})

\* How far one wait has got, read from both halves of the retained state: the
\* answer row and the journal.
WaitOf(k) ==
  LET answered == k + 1 \in DOMAIN journal /\ journal[k + 1].type = "answer"
      asked    == k \in DOMAIN journal /\ journal[k].type = "request"
  IN  CASE answer[k].state = "consumed" /\ answered ->
             [phase |-> "answered", value |-> journal[k + 1].value]
        [] answer[k].state = "pending" /\ asked /\ ~answered ->
             [phase |-> "delivered", value |-> answer[k].value]
        [] answer[k].state = "none" /\ asked /\ ~answered -> [phase |-> "asked", value |-> Nil]
        [] answer[k].state = "none" /\ ~asked -> [phase |-> "unasked", value |-> Nil]
        [] OTHER -> [phase |-> "torn", value |-> Nil]

Waits == INSTANCE DurableWait
           WITH Wait <- Request, Answer <- Deliverer, wait <- [k \in Request |-> WaitOf(k)]

\* The retained rows and the journal together implement the durable wait: one value
\* is accepted, and exactly it is published, once (delivery.ts, suspension.ts).
ImplementsWait == Waits!Spec

\* A delivered answer is spent on the wait it was delivered to, or the run reaches
\* an outcome: no crash, interruption or refused write strands it while somebody
\* keeps resuming the run (claim in suspension.ts).
DeliveredIsSpent ==
  \A k \in Request :
    answer[k].state = "pending" ~>
      answer[k].state = "consumed" \/ status \in {"cancelled"} \cup Terminal

\* The status of a settled run stands.
TerminalStands == [][(status \in Terminal) => UNCHANGED status]_vars
==============================================================================
