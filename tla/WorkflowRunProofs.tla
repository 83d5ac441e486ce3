-------------------------- MODULE WorkflowRunProofs --------------------------
(***************************************************************************)
(* What holds of every workflow run, whatever its hosts, executions,       *)
(* document and deliveries and however often it is disturbed.  The bound   *)
(* on faults plays no part.  The bound on begins does: two begins under    *)
(* one acquisition are harmless, a third is not.                           *)
(***************************************************************************)
EXTENDS WorkflowRun, FiniteSetTheorems, TLAPS

\* Who acts holds the lock, and a host that is idle keeps nothing.
HoldsLock ==
  \A h \in Host :
    /\ hold[h].pc # "idle" => lock = h
    /\ hold[h].pc = "idle" => hold[h] = IdleHold

\* An acquisition that has begun nothing holds no execution, and one whose document
\* is being executed has recorded its execution or attempted a second begin.
BegunAt(h) ==
  /\ hold[h].pc = "acquired" => hold[h] = [IdleHold EXCEPT !.pc = "acquired"]
  /\ hold[h].execution # Nil => hold[h].begins >= 1
  /\ hold[h].pc = "executed" => hold[h].outcome # "none"
  /\ hold[h].pc \in Unsettled =>
       /\ hold[h].document # Nil
       /\ \/ hold[h].execution = hold[h].document
          \/ hold[h].execution = Nil /\ hold[h].begins >= 2

Begun == \A h \in Host : BegunAt(h)

\* Only a suspended run names a wait.
OnlySuspendedWaits == status # "suspended" => waitingAt = 0

LifecycleInv ==
  TypeOK /\ HoldsLock /\ Begun /\ LiveIsUnfinished /\ HalvesAgree /\ OnlySuspendedWaits

\* A step changes the hold of one host at most.
OnlyMoves(h) ==
  /\ hold' \in [Host -> HoldRecord]
  /\ \A g \in Host : g # h => hold'[g] = hold[g]

\* What the steps of a document have in common: they move only their own host, within
\* its execution, and no row of the lifecycle.
DocumentStep(h) ==
  /\ hold[h].pc \in Running
  /\ OnlyMoves(h)
  /\ hold'[h].pc \in Unsettled
  /\ hold'[h].pc = "writing" <=> hold'[h].staged # NoEntry
  /\ hold'[h].pc = "executed" => hold'[h].outcome # "none"
  /\ hold'[h].execution = hold[h].execution
  /\ hold'[h].document = hold[h].document
  /\ hold'[h].begins = hold[h].begins
  /\ faults' \in Nat
  /\ UNCHANGED <<status, waitingAt, unfinished, lock, delivery>>

LEMMA NilIsFresh == Nil \notin Host /\ Nil \notin Execution /\ Nil \notin Deliverer
  BY NilAssumption, DelivererAssumption DEF NilAssumption, DelivererAssumption

\* A document that is about to receive an answer has just made the request for it.
LEMMA AnswerFollowsRequest ==
  ASSUME journal \in Seq(EntryRecord), NextStep = "answer"
  PROVE  Len(journal) \in Request /\ Len(journal) + 1 \in DOMAIN Script
<1>1. Len(journal) < Len(Script) /\ Script[Len(journal) + 1] = "answer"
  BY DEF NextStep
<1>2. Script \in Seq({"edit", "request", "answer"}) /\ Len(journal) \in Nat
  BY ScriptAssumption DEF ScriptAssumption
<1>3. Len(journal) + 1 \in DOMAIN Script
  BY <1>1, <1>2
<1>4. Len(journal) \in DOMAIN Script /\ Script[Len(journal)] = "request"
  <2>1. \A i \in DOMAIN Script :
          Script[i] = "answer" <=> i - 1 \in DOMAIN Script /\ Script[i - 1] = "request"
    BY ScriptAssumption DEF ScriptAssumption
  <2>2. (Len(journal) + 1) - 1 = Len(journal)
    BY <1>2
  <2>3. (Len(journal) + 1) - 1 \in DOMAIN Script /\ Script[(Len(journal) + 1) - 1] = "request"
    BY <1>1, <1>3, <2>1
  <2> QED
    BY <2>2, <2>3
<1> QED
  BY <1>2, <1>3, <1>4 DEF Request

AnswerRows == [Request -> [state : {"none", "pending", "consumed"}, value : Deliverer \cup {Nil}]]
RowsTyped == root \in Nat /\ journal \in Seq(EntryRecord) /\ answer \in AnswerRows
LifecycleRests == UNCHANGED <<status, waitingAt, unfinished, lock, delivery>>

LEMMA HoldTypes ==
  ASSUME TypeOK, NEW h \in Host
  PROVE  /\ hold \in [Host -> HoldRecord] /\ hold[h] \in HoldRecord
         /\ hold[h].pc = "writing" <=> hold[h].staged # NoEntry
         /\ NoEntry \in EntryRecord
  BY DEF TypeOK, NoEntry, EntryRecord

\* A step that leaves the document at a new place with a new staged event.
LEMMA MovesIsStep ==
  ASSUME TypeOK, NEW h \in Host, hold[h].pc \in Running, LifecycleRests, faults' \in Nat,
         NEW pc \in Unsettled, NEW o \in {"none", "completed", "failed", "suspended"},
         pc = "executed" => o # "none", NEW entry \in EntryRecord, pc = "writing" <=> entry # NoEntry,
         hold' = [hold EXCEPT ![h].pc = pc, ![h].outcome = o, ![h].staged = entry]
  PROVE  DocumentStep(h)
<1>1. hold \in [Host -> HoldRecord] /\ hold[h] \in HoldRecord
  BY HoldTypes
<1>2. hold'[h] = [hold[h] EXCEPT !.pc = pc, !.outcome = o, !.staged = entry]
  BY <1>1
<1>3. /\ hold'[h].pc = pc /\ hold'[h].staged = entry /\ hold'[h].outcome = o
      /\ hold'[h].execution = hold[h].execution /\ hold'[h].document = hold[h].document
      /\ hold'[h].begins = hold[h].begins
      /\ hold'[h] \in HoldRecord
  BY <1>1, <1>2 DEF HoldRecord
<1>4. OnlyMoves(h)
  BY <1>1, <1>3 DEF OnlyMoves
<1>5. /\ hold'[h].pc = "writing" <=> hold'[h].staged # NoEntry
      /\ hold'[h].pc = "executed" => hold'[h].outcome # "none"
  BY <1>3
<1> QED
  BY ONLY <1>3, <1>4, <1>5, LifecycleRests, hold[h].pc \in Running, pc \in Unsettled, faults' \in Nat
     DEF DocumentStep, LifecycleRests

LEMMA ExecutedIsStep ==
  ASSUME TypeOK, NEW h \in Host, hold[h].pc \in Running, LifecycleRests, faults' \in Nat,
         NEW o \in {"completed", "failed", "suspended"}, Executed(h, o)
  PROVE  DocumentStep(h)
<1>1. hold' = [hold EXCEPT ![h].pc = "executed", ![h].outcome = o, ![h].staged = NoEntry]
  BY DEF Executed
<1>2. NoEntry \in EntryRecord /\ "executed" \in Unsettled
      /\ o \in {"none", "completed", "failed", "suspended"} /\ o # "none"
  BY HoldTypes DEF Unsettled
<1> QED
  BY <1>1, <1>2, MovesIsStep

LEMMA MovesOnIsStep ==
  ASSUME TypeOK, NEW h \in Host, hold[h].pc \in Running, LifecycleRests, faults' \in Nat,
         NEW pc \in Running \ {"writing"}, hold[h].pc # "writing", hold' = [hold EXCEPT ![h].pc = pc]
  PROVE  DocumentStep(h)
<1>1. hold \in [Host -> HoldRecord] /\ hold[h] \in HoldRecord /\ hold[h].staged = NoEntry /\ NoEntry \in EntryRecord
  BY HoldTypes
<1>2. hold[h].outcome \in {"none", "completed", "failed", "suspended"} /\ pc \in Unsettled /\ pc # "executed"
  BY <1>1 DEF HoldRecord, Unsettled, Running
<1>3. hold' = [hold EXCEPT ![h].pc = pc, ![h].outcome = hold[h].outcome, ![h].staged = NoEntry]
  BY <1>1 DEF HoldRecord
<1> QED
  BY <1>1, <1>2, <1>3, MovesIsStep

LEMMA StageIsStep ==
  ASSUME TypeOK, NEW h \in Host, hold[h].pc \in Running, NEW entry \in EntryRecord,
         entry # NoEntry, Stage(h, entry)
  PROVE  DocumentStep(h) /\ RowsTyped'
<1>1. hold \in [Host -> HoldRecord] /\ hold[h] \in HoldRecord
  BY HoldTypes
<1>2. hold[h].outcome \in {"none", "completed", "failed", "suspended"} /\ "writing" \in Unsettled
  BY <1>1 DEF HoldRecord, Unsettled, Running
<1>3. hold' = [hold EXCEPT ![h].pc = "writing", ![h].outcome = hold[h].outcome, ![h].staged = entry]
  BY <1>1 DEF Stage, HoldRecord
<1>4. LifecycleRests /\ faults' \in Nat /\ RowsTyped'
  BY DEF Stage, documentVars, TypeOK, LifecycleRests, RowsTyped, AnswerRows
<1> QED
  BY <1>2, <1>3, <1>4, MovesIsStep

LEMMA DocumentIsStep ==
  ASSUME TypeOK, NEW h \in Host, Document(h) \/ DocumentFails(h)
  PROVE  DocumentStep(h) /\ RowsTyped'
<1> DEFINE Goal == DocumentStep(h) /\ RowsTyped'
<1>1. RowsTyped /\ faults \in Nat
  BY DEF TypeOK, RowsTyped, AnswerRows
<1>2. RootOutcome \in {"completed", "failed"}
  BY DEF RootOutcome
<1>3. ASSUME NEW entry \in EntryRecord, journal' = Append(journal, entry)
      PROVE  journal' \in Seq(EntryRecord)
  BY <1>1, <1>3 DEF RowsTyped
<1>4. ASSUME ReplayClose(h) PROVE Goal
  BY <1>1, <1>2, <1>4, ExecutedIsStep
     DEF ReplayClose, documentVars, LifecycleRests, RowsTyped, AnswerRows, Running
<1>5. ASSUME Replay(h) PROVE Goal
  BY <1>1, <1>5, MovesOnIsStep DEF Replay, documentVars, LifecycleRests, RowsTyped, AnswerRows, Running
<1>6. ASSUME NEW ok \in BOOLEAN, Edit(h, ok) PROVE Goal
  <2>1. Entry("edit", ok, Nil) \in EntryRecord /\ Entry("edit", ok, Nil) # NoEntry
    BY DEF Entry, EntryRecord, NoEntry
  <2> QED
    BY <1>6, <2>1, StageIsStep DEF Edit, Running
<1>7. ASSUME EditUnattached(h) PROVE Goal
  BY <1>1, <1>7, ExecutedIsStep DEF EditUnattached, documentVars, LifecycleRests, RowsTyped, AnswerRows, Running
<1>8. ASSUME NEW ok \in BOOLEAN, Close(h, ok) PROVE Goal
  <2>1. Entry("close", ok, Nil) \in EntryRecord
    BY DEF Entry, EntryRecord
  <2>2. RowsTyped'
    BY <1>1, <1>3, <1>8, <2>1 DEF Close, RowsTyped, AnswerRows
  <2> QED
    BY <1>1, <1>8, <2>2, ExecutedIsStep DEF Close, documentVars, LifecycleRests, Running
<1>9. ASSUME PublishRequest(h) PROVE Goal
  <2>1. Entry("request", TRUE, Nil) \in EntryRecord
    BY DEF Entry, EntryRecord
  <2>2. RowsTyped'
    BY <1>1, <1>3, <1>9, <2>1 DEF PublishRequest, RowsTyped, AnswerRows
  <2>3. hold' = [hold EXCEPT ![h].pc = "live"]
    BY <1>9, HoldTypes DEF PublishRequest, HoldRecord
  <2> QED
    BY <1>1, <1>9, <2>2, <2>3, MovesOnIsStep DEF PublishRequest, documentVars, LifecycleRests, Running
<1>10. ASSUME FindAnswer(h) PROVE Goal
  BY <1>1, <1>10, MovesOnIsStep DEF FindAnswer, documentVars, LifecycleRests, RowsTyped, AnswerRows, Running
<1>11. ASSUME Suspend(h) PROVE Goal
  BY <1>1, <1>11, ExecutedIsStep DEF Suspend, documentVars, LifecycleRests, RowsTyped, AnswerRows, Running
<1>12. ASSUME Claim(h) PROVE Goal
  <2> DEFINE entry == Entry("answer", TRUE, answer[Len(journal)].value)
  <2>1. Len(journal) \in Request
    BY <1>1, <1>12, AnswerFollowsRequest DEF Claim, RowsTyped
  <2>2. answer[Len(journal)].value \in Deliverer \cup {Nil}
    BY <1>1, <2>1 DEF RowsTyped, AnswerRows
  <2>3. entry \in EntryRecord /\ entry # NoEntry
    BY <2>2 DEF Entry, EntryRecord, NoEntry
  <2> QED
    BY <1>12, <2>3, StageIsStep DEF Claim, Running
<1>13. ASSUME Commit(h) PROVE Goal
  <2>1. /\ hold[h] \in HoldRecord /\ hold \in [Host -> HoldRecord] /\ NoEntry \in EntryRecord
        /\ hold[h].staged \in EntryRecord /\ hold[h].outcome \in {"none", "completed", "failed", "suspended"}
    BY HoldTypes DEF HoldRecord
  <2>2. hold' = [hold EXCEPT ![h].pc = "live", ![h].outcome = hold[h].outcome, ![h].staged = NoEntry]
    BY <1>13, <2>1 DEF Commit, HoldRecord
  <2>3. journal' \in Seq(EntryRecord)
    BY <1>3, <1>13, <2>1 DEF Commit
  <2>4. root' \in Nat /\ answer' \in AnswerRows
    <3>1. root' \in Nat
      BY <1>1, <1>13 DEF Commit, RowsTyped
    <3>2. CASE hold[h].staged.type = "answer"
      BY <1>1, <1>13, <3>1, <3>2 DEF Commit, RowsTyped, AnswerRows
    <3>3. CASE hold[h].staged.type # "answer"
      BY <1>1, <1>13, <3>1, <3>3 DEF Commit, RowsTyped
    <3> QED
      BY <3>2, <3>3
  <2>5. LifecycleRests /\ faults' \in Nat /\ hold[h].pc \in Running /\ "live" \in Unsettled
    BY <1>1, <1>13 DEF Commit, documentVars, LifecycleRests, Running, Unsettled
  <2>6. DocumentStep(h)
    BY <2>1, <2>2, <2>5, MovesIsStep
  <2> QED
    BY <2>3, <2>4, <2>6 DEF RowsTyped
<1>14. ASSUME DocumentFails(h) PROVE Goal
  BY <1>1, <1>14, ExecutedIsStep DEF DocumentFails, Fault, LifecycleRests, RowsTyped, AnswerRows, Running
<1> QED
  BY <1>4, <1>5, <1>6, <1>7, <1>8, <1>9, <1>10, <1>11, <1>12, <1>13, <1>14 DEF Document

-----------------------------------------------------------------------------
(* The lifecycle *)

\* Nobody else acts while a host holds the lock, or while nobody does.
LEMMA OthersAreIdle ==
  ASSUME HoldsLock, NEW h \in Host, lock \in {h, Nil}, NEW g \in Host, g # h
  PROVE  hold[g].pc = "idle" /\ hold[g] = IdleHold
  BY NilIsFresh DEF HoldsLock

LEMMA TypeKept ==
  ASSUME TypeOK, NEW h \in Host, OnlyMoves(h), hold'[h].pc = "writing" <=> hold'[h].staged # NoEntry,
         status' \in Status, waitingAt' \in Nat, unfinished' \subseteq Execution,
         lock' \in Host \cup {Nil}, faults' \in Nat, RowsTyped', UNCHANGED delivery
  PROVE  TypeOK'
<1>1. \A g \in Host : hold'[g].pc = "writing" <=> hold'[g].staged # NoEntry
  BY DEF TypeOK, OnlyMoves
<1> QED
  BY <1>1 DEF TypeOK, OnlyMoves, RowsTyped, AnswerRows

\* What has to be seen of a step that moves the hold of one host.
LEMMA LifecycleKept ==
  ASSUME LifecycleInv, TypeOK', NEW h \in Host, OnlyMoves(h), lock \in {h, Nil},
         hold'[h].pc # "idle" => lock' = h,
         hold'[h].pc = "idle" => hold'[h] = IdleHold,
         BegunAt(h)', hold'[h].pc \in Unsettled => hold'[h].document \in unfinished',
         HalvesAgree', OnlySuspendedWaits'
  PROVE  LifecycleInv'
<1>1. \A g \in Host : g # h => hold'[g] = IdleHold
  BY OthersAreIdle DEF LifecycleInv, OnlyMoves
<1>2. IdleHold.pc = "idle" /\ IdleHold.execution = Nil /\ IdleHold.pc \notin Unsettled
      /\ IdleHold.pc # "acquired" /\ IdleHold.pc # "executed"
  BY DEF IdleHold, Unsettled, Running
<1>3. HoldsLock'
  BY <1>1, <1>2 DEF HoldsLock
<1>4. Begun'
  BY <1>1, <1>2 DEF Begun, BegunAt
<1>5. LiveIsUnfinished'
  <2> SUFFICES ASSUME NEW g \in Host, hold'[g].pc \in Unsettled
               PROVE  lock' = g /\ hold'[g].document \in unfinished'
    BY DEF LiveIsUnfinished
  <2>1. g = h /\ hold'[h].pc # "idle"
    BY <1>1, <1>2 DEF Unsettled, Running
  <2> QED
    BY <2>1
<1> QED
  BY <1>3, <1>4, <1>5 DEF LifecycleInv

Rest == UNCHANGED <<root, answer, delivery>>

LEMMA RowsKept ==
  ASSUME TypeOK, UNCHANGED journal, Rest
  PROVE  RowsTyped' /\ UNCHANGED delivery
  BY DEF TypeOK, RowsTyped, AnswerRows, Rest

LEMMA IdleTypes ==
  /\ IdleHold \in HoldRecord
  /\ IdleHold.pc = "idle" /\ IdleHold.staged = NoEntry
  /\ IdleHold.execution = Nil /\ IdleHold.document = Nil /\ IdleHold.begins = 0
  BY DEF IdleHold, HoldRecord, EntryRecord, NoEntry

LEMMA RecoveredTypes ==
  ASSUME LifecycleInv
  PROVE  /\ Recovered \in Status /\ Recovered # "running"
         /\ unfinished = {} => Recovered = status
  BY DEF Recovered, RootOutcome, LifecycleInv, TypeOK, HalvesAgree, Status, Terminal

\* Ends the acquisition of h: every hold is idle afterwards.
LEMMA LeavesKept ==
  ASSUME LifecycleInv, NEW h \in Host, hold[h].pc # "idle", UNCHANGED journal, Rest,
         hold' = [hold EXCEPT ![h] = IdleHold], lock' = Nil,
         status' \in Status, waitingAt' \in Nat, unfinished' \subseteq Execution, faults' \in Nat,
         HalvesAgree', OnlySuspendedWaits'
  PROVE  LifecycleInv'
<1>1. hold \in [Host -> HoldRecord] /\ lock = h
  BY HoldTypes DEF LifecycleInv, HoldsLock
<1>2. OnlyMoves(h) /\ hold'[h] = IdleHold
  BY <1>1, IdleTypes DEF OnlyMoves
<1>3. TypeOK'
  BY <1>2, IdleTypes, TypeKept, RowsKept DEF LifecycleInv
<1>4. BegunAt(h)' /\ hold'[h].pc \notin Unsettled
  BY <1>2, IdleTypes DEF BegunAt, Unsettled, Running
<1> QED
  BY <1>1, <1>2, <1>3, <1>4, IdleTypes, LifecycleKept

\* Moves h to its way out, where its settler is the last to act.
LEMMA LeavingKept ==
  ASSUME LifecycleInv, NEW h \in Host, hold[h].pc # "idle", UNCHANGED <<journal, lock>>, Rest,
         OnlyMoves(h), hold'[h].pc = "leaving", hold'[h].staged = NoEntry,
         hold'[h].execution # Nil => hold'[h].begins >= 1,
         status' \in Status, waitingAt' \in Nat, unfinished' \subseteq Execution, faults' \in Nat,
         HalvesAgree', OnlySuspendedWaits'
  PROVE  LifecycleInv'
<1>1. lock = h
  BY DEF LifecycleInv, HoldsLock
<1>2. TypeOK'
  BY <1>1, TypeKept, RowsKept DEF LifecycleInv
<1>3. BegunAt(h)' /\ hold'[h].pc \notin Unsettled
  BY DEF BegunAt, Unsettled, Running
<1> QED
  BY <1>1, <1>2, <1>3, LifecycleKept

\* Finishing a row leaves none, because there is at most one.
LEMMA FinishKept ==
  ASSUME LifecycleInv, NEW e, NEW s \in Status \ {"running"}, NEW w \in Nat,
         s # "suspended" => w = 0, Finish(e, s, w)
  PROVE  /\ HalvesAgree' /\ OnlySuspendedWaits'
         /\ status' \in Status /\ waitingAt' \in Nat /\ unfinished' \subseteq Execution
<1>1. CASE e \in unfinished
  <2>1. unfinished' = {} /\ status' = s /\ waitingAt' = w
    BY <1>1 DEF Finish, Publish, LifecycleInv, HalvesAgree
  <2> QED
    BY <2>1 DEF HalvesAgree, OnlySuspendedWaits
<1>2. CASE e \notin unfinished
  BY <1>2 DEF Finish, LifecycleInv, HalvesAgree, OnlySuspendedWaits, TypeOK
<1> QED
  BY <1>1, <1>2

LEMMA SettleAsKept ==
  ASSUME LifecycleInv, NEW h \in Host, NEW s \in Status \ {"running"}, NEW w \in Nat,
         s # "suspended" => w = 0, SettleAs(h, s, w)
  PROVE  /\ HalvesAgree' /\ OnlySuspendedWaits'
         /\ status' \in Status /\ waitingAt' \in Nat /\ unfinished' \subseteq Execution
<1>1. CASE hold[h].execution = hold[h].document
  BY <1>1, FinishKept DEF SettleAs
<1>2. CASE hold[h].execution # hold[h].document
  BY <1>2 DEF SettleAs, LifecycleInv, HalvesAgree, OnlySuspendedWaits, TypeOK
<1> QED
  BY <1>1, <1>2

LEMMA RowsAgree ==
  ASSUME LifecycleInv, UNCHANGED <<status, waitingAt, unfinished>>
  PROVE  /\ HalvesAgree' /\ OnlySuspendedWaits'
         /\ status' \in Status /\ waitingAt' \in Nat /\ unfinished' \subseteq Execution
  BY DEF LifecycleInv, HalvesAgree, OnlySuspendedWaits, TypeOK

LEMMA AcquireKept ==
  ASSUME LifecycleInv, NEW h \in Host, Acquire(h), Rest
  PROVE  LifecycleInv'
<1>1. hold \in [Host -> HoldRecord] /\ hold[h] = IdleHold /\ lock = Nil /\ faults' \in Nat
  BY HoldTypes DEF LifecycleInv, HoldsLock, Acquire, TypeOK
<1>2. hold'[h] = [IdleHold EXCEPT !.pc = "acquired"]
  BY <1>1 DEF Acquire
<1>3. /\ hold'[h] \in HoldRecord /\ hold'[h].pc = "acquired" /\ hold'[h].staged = NoEntry
      /\ hold'[h].execution = Nil
  BY <1>2, IdleTypes DEF IdleHold, HoldRecord
<1>4. OnlyMoves(h)
  BY <1>1, <1>3 DEF OnlyMoves, Acquire
<1>5. TypeOK'
  BY <1>1, <1>3, <1>4, RowsAgree, RowsKept, TypeKept DEF Acquire, LifecycleInv
<1>6. BegunAt(h)' /\ hold'[h].pc \notin Unsettled /\ lock' = h
  BY <1>2, <1>3 DEF BegunAt, Unsettled, Running, Acquire
<1>7. HalvesAgree' /\ OnlySuspendedWaits'
  BY RowsAgree DEF Acquire
<1> QED
  BY <1>1, <1>3, <1>4, <1>5, <1>6, <1>7, LifecycleKept

\* An acquisition begins one execution: with an execution forgotten the bound on
\* begins is spent.
LEMMA BeginsFromAcquired ==
  ASSUME MaxBegins <= 2, LifecycleInv, NEW h \in Host, NEW action, NEW e \in Execution, Begin(h, action, e)
  PROVE  hold[h] = [IdleHold EXCEPT !.pc = "acquired"] /\ hold[h].pc = "acquired"
<1>1. BegunAt(h) /\ hold[h] \in HoldRecord /\ MaxBegins \in Nat
  BY HoldTypes, BoundAssumption DEF LifecycleInv, Begun, BoundAssumption
<1>2. hold[h].pc = "acquired"
  BY <1>1 DEF Begin, BegunAt, HoldRecord, Unsettled
<1> QED
  BY <1>1, <1>2 DEF BegunAt

LEMMA BeginKept ==
  ASSUME MaxBegins <= 2, LifecycleInv, NEW h \in Host, NEW action, NEW e \in Execution,
         Begin(h, action, e), Rest
  PROVE  LifecycleInv'
<1>1. /\ hold[h] = [IdleHold EXCEPT !.pc = "acquired"] /\ hold[h].pc = "acquired"
      /\ hold \in [Host -> HoldRecord] /\ hold[h] \in HoldRecord
      /\ hold[h].staged = NoEntry /\ hold[h].execution = Nil /\ hold[h].document = Nil
  BY BeginsFromAcquired, HoldTypes DEF LifecycleInv, IdleHold
<1>2. lock = h /\ faults' \in Nat /\ UNCHANGED <<journal, lock>>
  BY <1>1 DEF LifecycleInv, HoldsLock, Begin, TypeOK
<1> DEFINE begins == hold[h].begins + 1
<1>3. hold[h] \in HoldRecord /\ hold[h].staged = NoEntry /\ hold[h].execution = Nil /\ begins \in Nat
  BY <1>1 DEF HoldRecord
<1> HIDE DEF begins
<1>4. CASE Refused(action, Recovered)
  <2>1. hold' = [hold EXCEPT ![h].begins = @ + 1, ![h].pc = "leaving"]
    BY <1>1, <1>4 DEF Begin
  <2>2. unfinished' = {} /\ status' = Recovered /\ waitingAt' = 0
    BY <1>4 DEF Begin, Publish
  <2>3. hold'[h] = [hold[h] EXCEPT !.begins = begins, !.pc = "leaving"]
    BY <1>1, <2>1 DEF begins
  <2>4. /\ hold'[h] \in HoldRecord /\ hold'[h].pc = "leaving" /\ hold'[h].staged = NoEntry
        /\ hold'[h].execution = Nil
    BY ONLY <2>3, <1>3 DEF HoldRecord
  <2>5. OnlyMoves(h)
    BY <1>1, <2>1, <2>4 DEF OnlyMoves
  <2>6. HalvesAgree' /\ OnlySuspendedWaits' /\ status' \in Status /\ waitingAt' \in Nat /\ unfinished' \subseteq Execution
    BY <2>2, RecoveredTypes DEF HalvesAgree, OnlySuspendedWaits
  <2> QED
    BY <1>1, <1>2, <2>4, <2>5, <2>6, LeavingKept
<1>5. CASE ~Refused(action, Recovered)
  <2>1. hold' = [hold EXCEPT ![h].begins = @ + 1, ![h].execution = e, ![h].document = e,
                             ![h].replay = Recovered \in Terminal, ![h].pc = "replaying"]
    BY <1>1, <1>5 DEF Begin
  <2>2. /\ unfinished' = {e} /\ waitingAt' = 0
        /\ status' = IF Recovered \in Terminal THEN Recovered ELSE "running"
    BY <1>5 DEF Begin, Publish
  <2> DEFINE replay == Recovered \in Terminal
  <2>3. hold'[h] = [hold[h] EXCEPT !.begins = begins, !.execution = e, !.document = e,
                                   !.replay = replay, !.pc = "replaying"]
    BY <1>1, <2>1 DEF begins
  <2>4. /\ hold'[h] \in HoldRecord /\ hold'[h].pc = "replaying" /\ hold'[h].staged = NoEntry
        /\ hold'[h].execution = e /\ hold'[h].document = e /\ hold'[h].begins = begins
    <3>1. replay \in BOOLEAN /\ "replaying" \in Unsettled
      BY DEF Unsettled, Running
    <3> HIDE DEF replay
    <3> QED
      BY ONLY <1>3, <2>3, <3>1, e \in Execution DEF HoldRecord
  <2>5. OnlyMoves(h)
    BY <1>1, <2>1, <2>4 DEF OnlyMoves
  <2>6. HalvesAgree' /\ OnlySuspendedWaits' /\ status' \in Status /\ waitingAt' \in Nat /\ unfinished' \subseteq Execution
    BY <2>2, RecoveredTypes DEF HalvesAgree, OnlySuspendedWaits, Status, Terminal
  <2>7. TypeOK'
    BY <1>2, <2>4, <2>5, <2>6, RowsKept, TypeKept DEF LifecycleInv
  <2>8. BegunAt(h)' /\ hold'[h].document \in unfinished'
    <3>1. e # Nil
      BY NilIsFresh
    <3>2. hold'[h].begins >= 1
      BY <1>1, <2>4 DEF HoldRecord, begins
    <3> QED
      BY <2>2, <2>4, <3>1, <3>2 DEF BegunAt
  <2> QED
    BY <1>2, <2>4, <2>5, <2>6, <2>7, <2>8, LifecycleKept
<1> QED
  BY <1>4, <1>5

\* A second begin forgets the execution: what runs on is its caller's receipt.
LEMMA BeginAgainKept ==
  ASSUME LifecycleInv, NEW h \in Host, BeginAgain(h), Rest
  PROVE  LifecycleInv'
<1> DEFINE begins == hold[h].begins + 1
<1>1. /\ hold \in [Host -> HoldRecord] /\ hold[h] \in HoldRecord /\ begins \in Nat /\ begins >= 2
      /\ hold[h].pc = "writing" <=> hold[h].staged # NoEntry
  <2>1. BegunAt(h) /\ hold[h].execution # Nil
    BY DEF LifecycleInv, Begun, BeginAgain
  <2> QED
    BY <2>1, HoldTypes DEF LifecycleInv, BegunAt, HoldRecord
<1>2. hold'[h] = [hold[h] EXCEPT !.begins = begins, !.execution = Nil]
  BY <1>1 DEF BeginAgain
<1>3. begins >= 1
  BY <1>1
<1>4. lock = h /\ hold[h].document \in unfinished /\ hold[h].pc \in Running /\ hold[h].pc # "idle"
  BY DEF LifecycleInv, LiveIsUnfinished, BeginAgain, Unsettled, Running
<1>5. UNCHANGED <<status, waitingAt, unfinished, journal, lock, faults>>
  BY DEF BeginAgain
<1> HIDE DEF begins
<1>6. /\ hold'[h] \in HoldRecord /\ hold'[h].pc = hold[h].pc /\ hold'[h].staged = hold[h].staged
      /\ hold'[h].execution = Nil /\ hold'[h].document = hold[h].document /\ hold'[h].begins = begins
  BY ONLY <1>1, <1>2 DEF HoldRecord
<1>7. OnlyMoves(h)
  BY <1>1, <1>6 DEF OnlyMoves, BeginAgain
<1>8. TypeOK'
  BY <1>1, <1>4, <1>5, <1>6, <1>7, RowsAgree, RowsKept, TypeKept DEF LifecycleInv, TypeOK
<1>9. hold[h].document # Nil
  BY <1>4, NilIsFresh DEF LifecycleInv, TypeOK
<1>10. BegunAt(h)'
  BY <1>1, <1>4, <1>6, <1>9 DEF BegunAt, Unsettled, Running
<1> QED
  BY <1>4, <1>5, <1>6, <1>7, <1>8, <1>10, RowsAgree, LifecycleKept

\* A step on the way out moves only the program counter, and clears what was staged.
LEMMA LeavingHold ==
  ASSUME LifecycleInv, NEW h \in Host, hold[h].pc \in {"acquired"} \cup Unsettled,
         hold' = [hold EXCEPT ![h].pc = "leaving", ![h].staged = NoEntry]
  PROVE  /\ OnlyMoves(h) /\ hold'[h].pc = "leaving" /\ hold'[h].staged = NoEntry
         /\ hold'[h].execution # Nil => hold'[h].begins >= 1
<1>1. hold \in [Host -> HoldRecord] /\ hold[h] \in HoldRecord /\ NoEntry \in EntryRecord
  BY HoldTypes DEF LifecycleInv
<1>2. hold[h].execution # Nil => hold[h].begins >= 1
  BY DEF LifecycleInv, Begun, BegunAt
<1>3. hold'[h] = [hold[h] EXCEPT !.pc = "leaving", !.staged = NoEntry]
  BY <1>1
<1>4. /\ hold'[h] \in HoldRecord /\ hold'[h].pc = "leaving" /\ hold'[h].staged = NoEntry
      /\ hold'[h].execution = hold[h].execution /\ hold'[h].begins = hold[h].begins
  BY ONLY <1>1, <1>3 DEF HoldRecord
<1> QED
  BY <1>1, <1>2, <1>4 DEF OnlyMoves

LEMMA LeavingUnstaged ==
  ASSUME LifecycleInv, NEW h \in Host, hold[h].pc \in {"acquired", "executed"},
         hold' = [hold EXCEPT ![h].pc = "leaving"]
  PROVE  hold' = [hold EXCEPT ![h].pc = "leaving", ![h].staged = NoEntry]
<1>1. hold \in [Host -> HoldRecord] /\ hold[h] \in HoldRecord /\ hold[h].staged = NoEntry
  BY HoldTypes DEF LifecycleInv
<1> QED
  BY <1>1 DEF HoldRecord

LEMMA BeginFailsKept ==
  ASSUME LifecycleInv, NEW h \in Host, BeginFails(h), Rest
  PROVE  LifecycleInv'
<1>1. /\ hold[h].pc \in {"acquired", "executed"} /\ hold[h].pc # "idle" /\ faults' \in Nat
      /\ UNCHANGED <<status, waitingAt, unfinished, journal, lock>>
      /\ hold' = [hold EXCEPT ![h].pc = "leaving"]
  BY DEF BeginFails, Fault, LifecycleInv, TypeOK
<1> QED
  BY <1>1, LeavingUnstaged, LeavingHold, RowsAgree, LeavingKept DEF Unsettled

LEMMA SettleKept ==
  ASSUME LifecycleInv, NEW h \in Host, NEW w \in Nat, Settle(h, w), Rest
  PROVE  LifecycleInv'
<1>1. /\ hold[h].pc \in {"acquired", "executed"} /\ hold[h].pc = "executed" /\ hold[h].pc # "idle"
      /\ UNCHANGED <<journal, lock>> /\ SettleAs(h, hold[h].outcome, w)
      /\ hold' = [hold EXCEPT ![h].pc = "leaving"]
  BY DEF Settle
<1>2. faults' \in Nat
  BY DEF Settle, Unnamed, Fault, LifecycleInv, TypeOK
<1>3. hold[h].outcome \in Status \ {"running"}
  <2>1. hold[h].outcome # "none" /\ hold[h] \in HoldRecord
    BY <1>1, HoldTypes DEF LifecycleInv, Begun, BegunAt
  <2> QED
    BY <2>1 DEF HoldRecord, Status, Terminal
<1>4. hold[h].outcome # "suspended" => w = 0
  BY DEF Settle, Unnamed
<1> QED
  BY <1>1, <1>2, <1>3, <1>4, LeavingUnstaged, LeavingHold, SettleAsKept, LeavingKept DEF Unsettled

LEMMA SettleFailsKept ==
  ASSUME LifecycleInv, NEW h \in Host, SettleFails(h), Rest
  PROVE  LifecycleInv'
<1>1. /\ hold[h].pc \in {"acquired", "executed"} /\ hold[h].pc # "idle" /\ faults' \in Nat
      /\ UNCHANGED <<status, waitingAt, unfinished, journal, lock>>
      /\ hold' = [hold EXCEPT ![h].pc = "leaving"]
  BY DEF SettleFails, Fault, LifecycleInv, TypeOK
<1> QED
  BY <1>1, LeavingUnstaged, LeavingHold, RowsAgree, LeavingKept DEF Unsettled

LEMMA InterruptKept ==
  ASSUME LifecycleInv, NEW h \in Host, Interrupt(h), Rest
  PROVE  LifecycleInv'
<1>1. /\ hold[h].pc \in {"acquired"} \cup Unsettled /\ hold[h].pc # "idle" /\ faults' \in Nat
      /\ UNCHANGED <<journal, lock>>
      /\ hold' = [hold EXCEPT ![h].pc = "leaving", ![h].staged = NoEntry]
  BY DEF Interrupt, Fault, LifecycleInv, TypeOK, Unsettled, Running
<1>2. /\ HalvesAgree' /\ OnlySuspendedWaits'
      /\ status' \in Status /\ waitingAt' \in Nat /\ unfinished' \subseteq Execution
  <2>1. CASE hold[h].pc \in Running
    <3>1. SettleAs(h, "interrupted", 0) /\ "interrupted" \in Status \ {"running"}
      BY <2>1 DEF Interrupt, Status
    <3> QED
      BY <3>1, SettleAsKept
  <2>2. CASE hold[h].pc \notin Running
    BY <2>2, RowsAgree DEF Interrupt
  <2> QED
    BY <2>1, <2>2
<1> QED
  BY <1>1, <1>2, LeavingHold, LeavingKept

LEMMA LeaveKept ==
  ASSUME LifecycleInv, NEW h \in Host, Leave(h), Rest
  PROVE  LifecycleInv'
<1>1. /\ hold[h].pc # "idle" /\ faults' \in Nat /\ UNCHANGED journal /\ lock' = Nil
      /\ hold' = [hold EXCEPT ![h] = IdleHold] /\ Finish(hold[h].execution, "interrupted", 0)
  BY DEF Leave, LifecycleInv, TypeOK
<1>2. "interrupted" \in Status \ {"running"}
  BY DEF Status
<1> QED
  BY <1>1, <1>2, FinishKept, LeavesKept

LEMMA LeaveSilentlyKept ==
  ASSUME LifecycleInv, NEW h \in Host, LeaveSilently(h) \/ Crash(h), Rest
  PROVE  LifecycleInv'
<1>1. /\ hold[h].pc # "idle" /\ faults' \in Nat /\ UNCHANGED <<journal, status, waitingAt, unfinished>>
      /\ lock' = Nil /\ hold' = [hold EXCEPT ![h] = IdleHold]
  BY DEF LeaveSilently, Crash, Fault, LifecycleInv, TypeOK
<1> QED
  BY <1>1, RowsAgree, LeavesKept

LEMMA CancelKept ==
  ASSUME LifecycleInv, Cancel, Rest
  PROVE  LifecycleInv'
<1>1. /\ unfinished' = {} /\ waitingAt' = 0 /\ status' \in {"completed", "failed", "cancelled"}
      /\ UNCHANGED <<journal, lock, hold, faults>> /\ lock = Nil
  BY DEF Cancel, Publish, RootOutcome
<1>2. TypeOK'
  BY <1>1, RowsKept DEF LifecycleInv, TypeOK, Status, Terminal, RowsTyped, AnswerRows
<1>3. HalvesAgree' /\ OnlySuspendedWaits' /\ HoldsLock' /\ Begun'
  BY <1>1 DEF LifecycleInv, HalvesAgree, OnlySuspendedWaits, HoldsLock, Begun, BegunAt
<1>4. LiveIsUnfinished'
  <2> SUFFICES ASSUME NEW g \in Host PROVE hold[g].pc \notin Unsettled
    BY <1>1 DEF LiveIsUnfinished
  <2> QED
    BY <1>1, NilIsFresh DEF LifecycleInv, HoldsLock, Unsettled, Running
<1> QED
  BY <1>2, <1>3, <1>4 DEF LifecycleInv

LEMMA DocumentKept ==
  ASSUME LifecycleInv, NEW h \in Host, Document(h) \/ DocumentFails(h)
  PROVE  LifecycleInv'
<1>1. DocumentStep(h) /\ RowsTyped'
  BY DocumentIsStep DEF LifecycleInv
<1>2. lock = h /\ hold[h].document \in unfinished /\ BegunAt(h) /\ hold[h].pc \in Unsettled
  BY <1>1 DEF LifecycleInv, LiveIsUnfinished, Begun, DocumentStep, Unsettled
<1>3. TypeOK'
  BY <1>1, RowsAgree, TypeKept DEF DocumentStep, LifecycleInv, TypeOK
<1>4. BegunAt(h)' /\ hold'[h].pc # "idle"
  BY <1>1, <1>2 DEF BegunAt, DocumentStep, Unsettled, Running
<1> QED
  BY <1>1, <1>2, <1>3, <1>4, RowsAgree, LifecycleKept DEF DocumentStep

\* What a delivery changes is its own record and, once, an answer row.
LEMMA DeliveryKept ==
  ASSUME LifecycleInv, NEW d \in Deliverer,
         (\E k \in Request : DeliverJudged(d, k)) \/ Retain(d) \/ RefuseDelivery(d)
  PROVE  LifecycleInv'
<1> DEFINE Deliveries == [Deliverer -> [pc : {"idle", "judged", "delivered", "refused"}, at : {0} \cup Request]]
<1>1. UNCHANGED <<lifecycleVars, root>> /\ answer \in AnswerRows /\ delivery \in Deliveries
  BY DEF DeliverJudged, Retain, RefuseDelivery, LifecycleInv, TypeOK, AnswerRows
<1>2. answer' \in AnswerRows
  <2>1. CASE Retain(d)
    BY <1>1, <2>1 DEF Retain, AnswerRows
  <2>2. CASE ~Retain(d)
    BY <1>1, <2>2 DEF DeliverJudged, RefuseDelivery
  <2> QED
    BY <2>1, <2>2
<1>3. delivery' \in Deliveries
  <2>1. ASSUME NEW k \in Request, DeliverJudged(d, k) PROVE delivery' \in Deliveries
    BY <1>1, <2>1 DEF DeliverJudged
  <2>2. ASSUME Retain(d) \/ RefuseDelivery(d) PROVE delivery' \in Deliveries
    BY <1>1, <2>2 DEF Retain, RefuseDelivery
  <2> QED
    BY <2>1, <2>2
<1>4. TypeOK'
  BY <1>1, <1>2, <1>3 DEF LifecycleInv, TypeOK, lifecycleVars, AnswerRows
<1>5. HoldsLock' /\ Begun' /\ LiveIsUnfinished' /\ HalvesAgree' /\ OnlySuspendedWaits'
  BY <1>1 DEF LifecycleInv, lifecycleVars, HoldsLock, Begun, BegunAt, LiveIsUnfinished, HalvesAgree, OnlySuspendedWaits
<1> QED
  BY <1>4, <1>5 DEF LifecycleInv

LEMMA LifecycleInitially == Init => LifecycleInv
<1> SUFFICES ASSUME Init PROVE LifecycleInv
  OBVIOUS
<1>1. hold \in [Host -> HoldRecord] /\ \A h \in Host : hold[h] = IdleHold
  BY IdleTypes DEF Init, InitLifecycle
<1>2. IdleHold.pc \notin Unsettled /\ IdleHold.pc \notin {"acquired", "writing", "executed"}
  BY IdleTypes DEF Unsettled, Running
<1>3. answer \in AnswerRows /\ journal \in Seq(EntryRecord)
  BY DEF Init, InitLifecycle, AnswerRows, NoAnswer
<1>4. TypeOK
  BY <1>1, <1>2, <1>3, IdleTypes DEF Init, InitLifecycle, TypeOK, Status, AnswerRows
<1>5. HoldsLock /\ Begun /\ LiveIsUnfinished /\ HalvesAgree /\ OnlySuspendedWaits
  BY <1>1, <1>2, IdleTypes
     DEF Init, InitLifecycle, HoldsLock, Begun, BegunAt, LiveIsUnfinished, HalvesAgree, OnlySuspendedWaits
<1> QED
  BY <1>4, <1>5 DEF LifecycleInv

LEMMA LifecyclePreserved ==
  ASSUME MaxBegins <= 2, LifecycleInv, [Next]_vars
  PROVE  LifecycleInv'
<1>1. ASSUME NEW h \in Host, Execute(h) PROVE LifecycleInv'
  <2>1. ASSUME NEW w \in 0 .. Len(journal), Settle(h, w), Rest PROVE LifecycleInv'
    <3>1. w \in Nat
      BY DEF LifecycleInv, TypeOK
    <3> QED
      BY <2>1, <3>1, SettleKept
  <2> QED
    BY <1>1, <2>1, AcquireKept, BeginKept, LeaveKept, DocumentKept DEF Execute, Rest
<1>2. ASSUME NEW h \in Host, Disturb(h) PROVE LifecycleInv'
  BY <1>2, BeginAgainKept, BeginFailsKept, SettleFailsKept, InterruptKept, LeaveSilentlyKept, DocumentKept
     DEF Disturb, Rest
<1>3. ASSUME Others PROVE LifecycleInv'
  BY <1>3, CancelKept, DeliveryKept DEF Others, Rest
<1>4. CASE UNCHANGED vars
  BY <1>4 DEF LifecycleInv, vars, lifecycleVars, TypeOK, HoldsLock, Begun, BegunAt, LiveIsUnfinished,
              HalvesAgree, OnlySuspendedWaits
<1> QED
  BY <1>1, <1>2, <1>3, <1>4 DEF Next

\* The lock, the holds, the status and the execution rows stay consistent with each
\* other through every begin, settlement, recovery and crash (transitions.ts).
THEOREM LifecycleIsSound == ASSUME MaxBegins <= 2 PROVE Spec => []LifecycleInv
<1>1. LifecycleInv /\ [Next]_vars => LifecycleInv'
  BY LifecyclePreserved
<1> QED
  BY <1>1, LifecycleInitially, PTL DEF Spec

-----------------------------------------------------------------------------
(* The journal, the answers and the Workspace *)

\* The journal follows the document, and a Close is its last event.
JournalFollowsScript ==
  \A i \in DOMAIN journal :
    \/ journal[i].type = "close" /\ i = Len(journal)
    \/ i \in DOMAIN Script /\ journal[i].type = Script[i]

\* Asked and Answered read one wait from the journal.
Asked(k) == k \in DOMAIN journal /\ journal[k].type = "request"
Answered(k) == k + 1 \in DOMAIN journal /\ journal[k + 1].type = "answer"

\* An answer row and the journal tell the same of a wait: none of the torn states.
AnswerAgrees(k) ==
  /\ answer[k].state = "none" => ~Answered(k)
  /\ answer[k].state = "pending" => Asked(k) /\ ~Answered(k)
  /\ answer[k].state = "consumed" => Answered(k)

AnswersAgree == \A k \in Request : AnswerAgrees(k)

\* What a host at work relies on: the journal is open, and what it staged is the
\* document's next step, with the value of the row it consumes.
WorkAt(h) ==
  /\ hold[h].pc \in {"live", "claiming", "writing"} => ~RootClosed
  /\ hold[h].pc = "writing" =>
       /\ hold[h].staged.type = NextStep /\ NextStep # "request"
       /\ NextStep = "answer" => answer[Len(journal)] = [state |-> "pending", value |-> hold[h].staged.value]
  /\ hold[h].pc = "executed" /\ hold[h].outcome = "suspended" => Asked(Len(journal))

Work == \A h \in Host : WorkAt(h)

RunInv ==
  /\ LifecycleInv /\ JournalFollowsScript /\ AnswersAgree /\ Work
  /\ SuspendedAtOpenWait /\ CloseBeatsCancel /\ WorkspaceMatchesJournal

LEMMA StatusKept ==
  ASSUME RunInv, UNCHANGED journal,
         \/ UNCHANGED <<status, waitingAt>>
         \/ /\ status' = "cancelled" => ~RootClosed
            /\ waitingAt' = 0 \/ (waitingAt' = Len(journal) /\ Asked(Len(journal)))
  PROVE  SuspendedAtOpenWait' /\ CloseBeatsCancel'
  BY DEF RunInv, SuspendedAtOpenWait, CloseBeatsCancel, RootClosed, Asked

\* The steps of the lifecycle leave the journal, the answers and the root alone, and
\* take up no work but what the host already had.
LEMMA LifecycleStepKept ==
  ASSUME RunInv, LifecycleInv', UNCHANGED journal, Rest, SuspendedAtOpenWait', CloseBeatsCancel',
         NEW h \in Host, OnlyMoves(h),
         \/ hold'[h].pc \notin {"live", "claiming", "writing", "executed"}
         \/ /\ hold'[h].pc = hold[h].pc /\ hold'[h].staged = hold[h].staged
            /\ hold'[h].outcome = hold[h].outcome
  PROVE  RunInv'
<1>1. JournalFollowsScript' /\ AnswersAgree' /\ WorkspaceMatchesJournal'
  BY DEF RunInv, Rest, JournalFollowsScript, AnswersAgree, AnswerAgrees, Asked, Answered, WorkspaceMatchesJournal
<1>2. Work'
  <2> SUFFICES ASSUME NEW g \in Host PROVE WorkAt(g)'
    BY DEF Work
  <2>1. WorkAt(g)
    BY DEF RunInv, Work
  <2>2. \/ hold'[g].pc \notin {"live", "claiming", "writing", "executed"}
        \/ /\ hold'[g].pc = hold[g].pc /\ hold'[g].staged = hold[g].staged
           /\ hold'[g].outcome = hold[g].outcome
    BY DEF OnlyMoves
  <2> QED
    BY <2>1, <2>2 DEF WorkAt, RootClosed, NextStep, Asked, Rest
<1> QED
  BY <1>1, <1>2 DEF RunInv

\* The ways a lifecycle step moves the hold of its host.
LEMMA LifecycleHolds ==
  ASSUME LifecycleInv, NEW h \in Host, LifecycleInv',
         \/ hold' = [hold EXCEPT ![h] = IdleHold]
         \/ hold' = [hold EXCEPT ![h].pc = "acquired"]
         \/ hold' = [hold EXCEPT ![h].pc = "leaving"]
         \/ hold' = [hold EXCEPT ![h].pc = "leaving", ![h].staged = NoEntry]
  PROVE  OnlyMoves(h) /\ hold'[h].pc \notin {"live", "claiming", "writing", "executed"}
<1>1. hold \in [Host -> HoldRecord] /\ hold' \in [Host -> HoldRecord]
  BY DEF LifecycleInv, TypeOK
<1>2. OnlyMoves(h)
  BY <1>1 DEF OnlyMoves
<1>3. hold'[h].pc \in {"idle", "acquired", "leaving"}
  BY <1>1, IdleTypes DEF HoldRecord
<1> QED
  BY <1>2, <1>3

LEMMA QuietStepKept ==
  ASSUME RunInv, LifecycleInv', NEW h \in Host, Rest,
         Acquire(h) \/ BeginFails(h) \/ SettleFails(h) \/ LeaveSilently(h) \/ Crash(h)
  PROVE  RunInv'
<1>1. UNCHANGED <<status, waitingAt, journal>>
  BY DEF Acquire, BeginFails, SettleFails, LeaveSilently, Crash
<1>2. OnlyMoves(h) /\ hold'[h].pc \notin {"live", "claiming", "writing", "executed"}
  BY LifecycleHolds DEF RunInv, Acquire, BeginFails, SettleFails, LeaveSilently, Crash
<1> QED
  BY <1>1, <1>2, StatusKept, LifecycleStepKept

LEMMA BeginAgainRun ==
  ASSUME RunInv, LifecycleInv', NEW h \in Host, Rest, BeginAgain(h)
  PROVE  RunInv'
<1>1. hold \in [Host -> HoldRecord] /\ hold' \in [Host -> HoldRecord]
  BY DEF RunInv, LifecycleInv, TypeOK
<1>2. /\ OnlyMoves(h) /\ hold'[h].pc = hold[h].pc /\ hold'[h].staged = hold[h].staged
      /\ hold'[h].outcome = hold[h].outcome
  BY <1>1 DEF BeginAgain, HoldRecord, OnlyMoves
<1>3. UNCHANGED <<status, waitingAt, journal>>
  BY DEF BeginAgain
<1> QED
  BY <1>2, <1>3, StatusKept, LifecycleStepKept

LEMMA BeginRun ==
  ASSUME MaxBegins <= 2, RunInv, LifecycleInv', NEW h \in Host, Rest, NEW action, NEW e \in Execution,
         Begin(h, action, e)
  PROVE  RunInv'
<1>1. hold \in [Host -> HoldRecord] /\ hold' \in [Host -> HoldRecord] /\ hold[h].pc = "acquired"
  BY BeginsFromAcquired DEF RunInv, LifecycleInv, TypeOK
<1>2. UNCHANGED journal /\ waitingAt' = 0 /\ status' \in {Recovered, "running"}
  BY DEF Begin, Publish
<1>3. status' = "cancelled" => ~RootClosed
  BY <1>2 DEF Recovered, RootOutcome, RunInv, CloseBeatsCancel
<1>4. OnlyMoves(h)
  BY <1>1 DEF Begin, OnlyMoves
<1>5. hold'[h].pc \in {"leaving", "replaying"}
  <2>1. CASE Refused(action, Recovered)
    <3>1. hold' = [hold EXCEPT ![h].begins = @ + 1, ![h].pc = "leaving"]
      BY <1>1, <2>1 DEF Begin
    <3> QED
      BY <1>1, <3>1 DEF HoldRecord
  <2>2. CASE ~Refused(action, Recovered)
    <3> DEFINE document == IF hold[h].document = Nil THEN e ELSE hold[h].document
    <3>1. hold' = [hold EXCEPT ![h].begins = @ + 1, ![h].execution = e, ![h].document = document,
                               ![h].replay = Recovered \in Terminal, ![h].pc = "replaying"]
      BY <1>1, <2>2 DEF Begin
    <3> HIDE DEF document
    <3> QED
      BY <1>1, <3>1 DEF HoldRecord
  <2> QED
    BY <2>1, <2>2
<1> QED
  BY <1>2, <1>3, <1>4, <1>5, StatusKept, LifecycleStepKept

LEMMA SettlementRun ==
  ASSUME RunInv, LifecycleInv', NEW h \in Host, Rest,
         (\E w \in Nat : Settle(h, w)) \/ Interrupt(h) \/ Leave(h)
  PROVE  RunInv'
<1>1. UNCHANGED journal
  BY DEF Settle, Interrupt, Leave
<1>2. OnlyMoves(h) /\ hold'[h].pc \notin {"live", "claiming", "writing", "executed"}
  BY LifecycleHolds DEF RunInv, Settle, Interrupt, Leave
<1> DEFINE Published ==
      \/ UNCHANGED <<status, waitingAt>>
      \/ /\ status' = "cancelled" => ~RootClosed
         /\ waitingAt' = 0 \/ (waitingAt' = Len(journal) /\ Asked(Len(journal)))
<1>3. Published
  <2>1. ASSUME NEW w \in Nat, Settle(h, w) PROVE Published
    <3>1. hold[h].outcome # "cancelled" /\ hold[h].pc = "executed"
      BY <2>1, HoldTypes DEF RunInv, LifecycleInv, HoldRecord, Settle
    <3>2. hold[h].outcome = "suspended" => Asked(Len(journal))
      BY <3>1 DEF RunInv, Work, WorkAt
    <3>3. w = 0 \/ (w = Len(journal) /\ hold[h].outcome = "suspended")
      BY <2>1 DEF Settle, Unnamed
    <3>4. UNCHANGED <<status, waitingAt>> \/ (status' = hold[h].outcome /\ waitingAt' = w)
      BY <2>1 DEF Settle, SettleAs, Finish, Publish
    <3> QED
      BY <3>1, <3>2, <3>3, <3>4
  <2>2. ASSUME Interrupt(h) \/ Leave(h) PROVE Published
    BY <2>2 DEF Interrupt, Leave, SettleAs, Finish, Publish
  <2> QED
    BY <2>1, <2>2
<1> QED
  BY <1>1, <1>2, <1>3, StatusKept, LifecycleStepKept

LEMMA CancelRun ==
  ASSUME RunInv, LifecycleInv', Rest, Cancel
  PROVE  RunInv'
<1>1. /\ UNCHANGED <<journal, hold>> /\ waitingAt' = 0
      /\ status' = "cancelled" => ~RootClosed
  BY DEF Cancel, Publish, RootOutcome
<1>2. SuspendedAtOpenWait' /\ CloseBeatsCancel'
  BY <1>1, StatusKept
<1>3. JournalFollowsScript' /\ AnswersAgree' /\ WorkspaceMatchesJournal' /\ Work'
  BY <1>1 DEF RunInv, Rest, JournalFollowsScript, AnswersAgree, AnswerAgrees, Asked, Answered,
              WorkspaceMatchesJournal, Work, WorkAt, RootClosed, NextStep
<1> QED
  BY <1>2, <1>3 DEF RunInv

LEMMA NextStepTypes ==
  ASSUME journal \in Seq(EntryRecord)
  PROVE  NextStep \in {"edit", "request", "answer", "return"}
<1>1. Script \in Seq({"edit", "request", "answer"}) /\ Len(journal) \in Nat
  BY ScriptAssumption DEF ScriptAssumption
<1> QED
  BY <1>1 DEF NextStep

\* The document waits for an answer only where its request is the last event.
LEMMA WaitsAtRequest ==
  ASSUME JournalFollowsScript, journal \in Seq(EntryRecord), ~RootClosed, NextStep = "answer"
  PROVE  Asked(Len(journal)) /\ Len(journal) \in Request
<1>1. Len(journal) \in Request /\ Len(journal) \in DOMAIN journal
  BY AnswerFollowsRequest, ScriptAssumption DEF Request, ScriptAssumption
<1>2. Script[Len(journal)] = "request" /\ journal[Len(journal)].type # "close"
  BY <1>1 DEF Request, RootClosed
<1> QED
  BY <1>1, <1>2 DEF JournalFollowsScript, Asked

LEMMA AppendFollows ==
  ASSUME JournalFollowsScript, journal \in Seq(EntryRecord), ~RootClosed,
         NEW entry \in EntryRecord, journal' = Append(journal, entry),
         entry.type = "close" \/ entry.type = NextStep
  PROVE  JournalFollowsScript'
<1>1. /\ Len(journal') = Len(journal) + 1 /\ journal'[Len(journal) + 1] = entry
      /\ DOMAIN journal' = DOMAIN journal \cup {Len(journal) + 1}
      /\ \A i \in DOMAIN journal : journal'[i] = journal[i]
  OBVIOUS
<1>2. \A i \in DOMAIN journal : i \in DOMAIN Script /\ journal[i].type = Script[i]
  BY DEF JournalFollowsScript, RootClosed
<1>3. entry.type = "close" \/ (Len(journal) + 1 \in DOMAIN Script /\ entry.type = Script[Len(journal) + 1])
  <2>1. Script \in Seq({"edit", "request", "answer"}) /\ Len(journal) \in Nat
    BY ScriptAssumption DEF ScriptAssumption
  <2>2. entry.type # "return"
    BY DEF EntryRecord
  <2> QED
    BY <2>1, <2>2 DEF NextStep
<1> QED
  BY <1>1, <1>2, <1>3 DEF JournalFollowsScript

\* An event that answers nothing disturbs no wait.
LEMMA AppendAgrees ==
  ASSUME AnswersAgree, journal \in Seq(EntryRecord), UNCHANGED answer,
         NEW entry \in EntryRecord, journal' = Append(journal, entry), entry.type # "answer"
  PROVE  AnswersAgree'
<1>1. /\ DOMAIN journal' = DOMAIN journal \cup {Len(journal) + 1}
      /\ \A i \in DOMAIN journal : journal'[i] = journal[i]
      /\ journal'[Len(journal) + 1] = entry
  OBVIOUS
<1>2. \A k \in Request : (Answered(k)' <=> Answered(k)) /\ (Asked(k) => Asked(k)')
  BY <1>1 DEF Answered, Asked, Request
<1> QED
  BY <1>2 DEF AnswersAgree, AnswerAgrees

\* The event that answers a wait consumes the row of that wait, and disturbs no other.
LEMMA AppendAnswers ==
  ASSUME AnswersAgree, journal \in Seq(EntryRecord), answer \in AnswerRows,
         NEW k \in Request, k = Len(journal),
         NEW entry \in EntryRecord, journal' = Append(journal, entry), entry.type = "answer",
         answer' = [answer EXCEPT ![k].state = "consumed"]
  PROVE  AnswersAgree'
<1>1. /\ \A j \in Request : j # k => answer'[j] = answer[j]
      /\ answer'[k].state = "consumed"
  BY DEF AnswerRows
<1>2. /\ DOMAIN journal' = DOMAIN journal \cup {k + 1}
      /\ \A i \in DOMAIN journal : journal'[i] = journal[i]
      /\ journal'[k + 1] = entry
  OBVIOUS
<1>3. Answered(k)'
  BY <1>2 DEF Answered
<1>4. \A j \in Request : j # k => (Answered(j)' <=> Answered(j)) /\ (Asked(j) => Asked(j)')
  <2>1. k \in Nat /\ \A j \in Request : j \in Nat
    BY ScriptAssumption DEF Request, ScriptAssumption
  <2> QED
    BY <1>2, <2>1 DEF Answered, Asked
<1> QED
  BY <1>1, <1>3, <1>4 DEF AnswersAgree, AnswerAgrees

\* One more event counts as one more edit exactly when it is an edit that succeeded.
LEMMA AppendCounts ==
  ASSUME WorkspaceMatchesJournal, journal \in Seq(EntryRecord),
         NEW entry \in EntryRecord, journal' = Append(journal, entry),
         root' = IF entry.type = "edit" /\ entry.ok THEN root + 1 ELSE root
  PROVE  WorkspaceMatchesJournal'
<1> DEFINE Edits == {i \in DOMAIN journal : journal[i].type = "edit" /\ journal[i].ok}
           EditsNext == {i \in DOMAIN journal' : journal'[i].type = "edit" /\ journal'[i].ok}
           n == Len(journal) + 1
<1>1. /\ DOMAIN journal' = DOMAIN journal \cup {n} /\ n \notin DOMAIN journal
      /\ \A i \in DOMAIN journal : journal'[i] = journal[i]
      /\ journal'[n] = entry
  OBVIOUS
<1>2. IsFiniteSet(Edits)
  <2>1. 1 \in Int /\ Len(journal) \in Int /\ Edits \subseteq 1 .. Len(journal)
    OBVIOUS
  <2> HIDE DEF Edits
  <2>2. IsFiniteSet(1 .. Len(journal))
    BY <2>1, FS_Interval
  <2> QED
    BY <2>1, <2>2, FS_Subset
<1>3. EditsNext = IF entry.type = "edit" /\ entry.ok THEN Edits \cup {n} ELSE Edits
  BY <1>1
<1>4. n \notin Edits
  BY <1>1
<1>5. root = Cardinality(Edits)
  BY DEF WorkspaceMatchesJournal
<1> HIDE DEF Edits, EditsNext, n
<1>6. root' = Cardinality(EditsNext)
  BY <1>2, <1>3, <1>4, <1>5, FS_AddElement
<1> QED
  BY <1>6 DEF WorkspaceMatchesJournal, EditsNext

\* Nobody else is at work while a document runs, and its rows say it does.
LEMMA DocumentRuns ==
  ASSUME RunInv, NEW h \in Host, hold[h].pc \in Unsettled
  PROVE  /\ lock = h /\ status \in {"running"} \cup Terminal
         /\ \A g \in Host : g # h => hold[g].pc = "idle"
  BY OthersAreIdle DEF RunInv, LifecycleInv, LiveIsUnfinished, HalvesAgree

LEMMA DocumentRun ==
  ASSUME RunInv, NEW h \in Host, Document(h) \/ DocumentFails(h), LifecycleInv',
         JournalFollowsScript', AnswersAgree', WorkspaceMatchesJournal', WorkAt(h)'
  PROVE  RunInv'
<1>1. DocumentStep(h) /\ hold[h].pc \in Unsettled
  BY DocumentIsStep DEF RunInv, LifecycleInv, DocumentStep, Unsettled
<1>2. status' \notin {"suspended", "cancelled"}
  BY <1>1, DocumentRuns DEF DocumentStep, Terminal
<1>3. Work'
  <2> SUFFICES ASSUME NEW g \in Host, g # h PROVE WorkAt(g)'
    BY DEF Work
  <2>1. hold'[g].pc = "idle"
    BY <1>1, DocumentRuns DEF DocumentStep, OnlyMoves
  <2> QED
    BY <2>1 DEF WorkAt
<1> QED
  BY <1>2, <1>3 DEF RunInv, SuspendedAtOpenWait, CloseBeatsCancel

LEMMA ExecutedHold ==
  ASSUME LifecycleInv, NEW h \in Host, NEW o, Executed(h, o)
  PROVE  hold'[h].pc = "executed" /\ hold'[h].outcome = o
  BY HoldTypes DEF LifecycleInv, Executed, HoldRecord

\* A document that ends without waiting for an answer leaves nothing to rely on.
LEMMA ExecutedWork ==
  ASSUME LifecycleInv, NEW h \in Host, NEW o \in {"completed", "failed"}, Executed(h, o)
  PROVE  WorkAt(h)'
  BY ExecutedHold DEF WorkAt

\* The steps that retain nothing.
LEMMA SilentStepRun ==
  ASSUME RunInv, NEW h \in Host, Document(h) \/ DocumentFails(h), LifecycleInv',
         UNCHANGED <<journal, root, answer>>, WorkAt(h)'
  PROVE  RunInv'
<1>1. JournalFollowsScript' /\ AnswersAgree' /\ WorkspaceMatchesJournal'
  BY DEF RunInv, JournalFollowsScript, AnswersAgree, AnswerAgrees, Asked, Answered, WorkspaceMatchesJournal
<1> QED
  BY <1>1, DocumentRun

LEMMA EndsRun ==
  ASSUME RunInv, NEW h \in Host, LifecycleInv',
         ReplayClose(h) \/ EditUnattached(h) \/ DocumentFails(h)
  PROVE  RunInv'
<1>1. LifecycleInv /\ (Document(h) \/ DocumentFails(h))
  BY DEF RunInv, Document
<1>2. \E o \in {"completed", "failed"} : Executed(h, o)
  BY DEF ReplayClose, EditUnattached, DocumentFails, RootOutcome
<1>3. UNCHANGED <<journal, root, answer>>
  BY DEF ReplayClose, EditUnattached, DocumentFails
<1>4. WorkAt(h)'
  BY <1>2, ExecutedWork DEF RunInv
<1> QED
  BY <1>1, <1>3, <1>4, SilentStepRun

LEMMA MovesOnRun ==
  ASSUME RunInv, NEW h \in Host, LifecycleInv', Replay(h) \/ FindAnswer(h) \/ Suspend(h)
  PROVE  RunInv'
<1>1. hold \in [Host -> HoldRecord] /\ journal \in Seq(EntryRecord) /\ WorkAt(h)
  BY DEF RunInv, LifecycleInv, TypeOK, Work
<1>2. UNCHANGED <<journal, root, answer>> /\ ~RootClosed
  BY <1>1 DEF Replay, FindAnswer, Suspend, WorkAt
<1>3. ASSUME Replay(h) \/ FindAnswer(h) PROVE WorkAt(h)'
  <2>1. hold'[h].pc \in {"live", "claiming"}
    BY <1>1, <1>3 DEF Replay, FindAnswer, HoldRecord
  <2> QED
    BY <1>2, <2>1 DEF WorkAt, RootClosed
<1>4. ASSUME Suspend(h) PROVE WorkAt(h)'
  <2>1. hold'[h].pc = "executed"
    BY <1>4, ExecutedHold DEF Suspend, RunInv
  <2>2. Asked(Len(journal))
    BY <1>1, <1>2, <1>4, WaitsAtRequest DEF Suspend, RunInv
  <2> QED
    BY <1>2, <2>1, <2>2 DEF WorkAt, Asked
<1> QED
  BY <1>2, <1>3, <1>4, SilentStepRun DEF Document

LEMMA StageRun ==
  ASSUME RunInv, NEW h \in Host, LifecycleInv', Claim(h) \/ \E ok \in BOOLEAN : Edit(h, ok)
  PROVE  RunInv'
<1>1. /\ hold \in [Host -> HoldRecord] /\ journal \in Seq(EntryRecord) /\ answer \in AnswerRows
      /\ WorkAt(h)
  BY DEF RunInv, LifecycleInv, TypeOK, Work, AnswerRows
<1>2. UNCHANGED <<journal, root, answer>> /\ ~RootClosed
  BY <1>1 DEF Claim, Edit, Stage, WorkAt
<1>3. ASSUME NEW ok \in BOOLEAN, Edit(h, ok) PROVE WorkAt(h)'
  <2>1. hold' = [hold EXCEPT ![h].pc = "writing", ![h].staged = Entry("edit", ok, Nil)] /\ NextStep = "edit"
    BY <1>3 DEF Edit, Stage
  <2>2. hold'[h].pc = "writing" /\ hold'[h].staged = Entry("edit", ok, Nil)
    BY <1>1, <2>1 DEF HoldRecord
  <2>3. hold'[h].staged.type = "edit"
    BY <2>2 DEF Entry
  <2> QED
    BY <1>2, <2>1, <2>2, <2>3 DEF WorkAt, RootClosed, NextStep
<1>4. ASSUME Claim(h) PROVE WorkAt(h)'
  <2> DEFINE row == answer[Len(journal)]
  <2>1. /\ hold'[h].pc = "writing" /\ hold'[h].staged = Entry("answer", TRUE, row.value)
        /\ NextStep = "answer" /\ row.state = "pending"
    BY <1>1, <1>4 DEF Claim, Stage, HoldRecord
  <2>2. row = [state |-> "pending", value |-> row.value]
    BY <1>1, <2>1, AnswerFollowsRequest DEF AnswerRows
  <2>3. hold'[h].staged.type = "answer" /\ hold'[h].staged.value = row.value
    BY <2>1 DEF Entry
  <2>4. row' = row /\ NextStep' = NextStep /\ ~RootClosed'
    BY <1>2 DEF RootClosed, NextStep
  <2> HIDE DEF row
  <2>5. row' = [state |-> "pending", value |-> hold'[h].staged.value]
    BY <2>2, <2>3, <2>4
  <2> QED
    BY <2>1, <2>3, <2>4, <2>5 DEF WorkAt, row
<1> QED
  BY <1>2, <1>3, <1>4, SilentStepRun DEF Document

LEMMA RequestRun ==
  ASSUME RunInv, NEW h \in Host, LifecycleInv', PublishRequest(h)
  PROVE  RunInv'
<1> DEFINE entry == Entry("request", TRUE, Nil)
<1>1. journal \in Seq(EntryRecord) /\ ~RootClosed /\ hold[h].pc = "live"
  BY DEF RunInv, LifecycleInv, TypeOK, Work, WorkAt, PublishRequest
<1>2. /\ journal' = Append(journal, entry) /\ entry \in EntryRecord /\ UNCHANGED <<hold, root, answer>>
      /\ entry.type = "request" /\ NextStep = "request"
  BY DEF PublishRequest, Entry, EntryRecord
<1> HIDE DEF entry
<1>3. JournalFollowsScript' /\ AnswersAgree' /\ WorkspaceMatchesJournal'
  BY <1>1, <1>2, AppendFollows, AppendAgrees, AppendCounts DEF RunInv
<1>4. WorkAt(h)'
  BY <1>1, <1>2 DEF WorkAt, RootClosed
<1> QED
  BY <1>3, <1>4, DocumentRun DEF Document

LEMMA CloseRun ==
  ASSUME RunInv, NEW h \in Host, LifecycleInv', NEW ok \in BOOLEAN, Close(h, ok)
  PROVE  RunInv'
<1> DEFINE entry == Entry("close", ok, Nil)
<1>1. journal \in Seq(EntryRecord) /\ ~RootClosed
  BY DEF RunInv, LifecycleInv, TypeOK, Work, WorkAt, Close
<1>2. /\ journal' = Append(journal, entry) /\ entry \in EntryRecord /\ UNCHANGED <<root, answer>>
      /\ entry.type = "close"
  BY DEF Close, Entry, EntryRecord
<1>3. WorkAt(h)'
  BY ExecutedWork DEF Close, RunInv
<1> HIDE DEF entry
<1>4. JournalFollowsScript' /\ AnswersAgree' /\ WorkspaceMatchesJournal'
  BY <1>1, <1>2, AppendFollows, AppendAgrees, AppendCounts DEF RunInv
<1> QED
  BY <1>3, <1>4, DocumentRun DEF Document

LEMMA CommitRun ==
  ASSUME RunInv, NEW h \in Host, LifecycleInv', Commit(h)
  PROVE  RunInv'
<1> DEFINE entry == hold[h].staged
           k == Len(journal)
<1>1. /\ hold \in [Host -> HoldRecord] /\ journal \in Seq(EntryRecord) /\ answer \in AnswerRows
      /\ WorkAt(h) /\ hold[h].pc = "writing"
  BY DEF RunInv, LifecycleInv, TypeOK, Work, AnswerRows, Commit
<1>2. entry \in EntryRecord /\ ~RootClosed /\ entry.type = NextStep /\ journal' = Append(journal, entry)
  BY <1>1 DEF HoldRecord, WorkAt, Commit
<1>3. JournalFollowsScript' /\ WorkspaceMatchesJournal'
  BY <1>1, <1>2, AppendFollows, AppendCounts DEF RunInv, Commit
<1>4. WorkAt(h)'
  <2>1. hold'[h].pc = "live"
    BY <1>1 DEF Commit, HoldRecord
  <2>2. entry.type # "close"
    BY <1>1, <1>2, NextStepTypes
  <2>3. ~RootClosed'
    BY <1>1, <1>2, <2>2 DEF RootClosed
  <2> QED
    BY <2>1, <2>3 DEF WorkAt
<1>5. AnswersAgree'
  <2>1. CASE entry.type # "answer"
    BY <1>1, <1>2, <2>1, AppendAgrees DEF Commit, RunInv
  <2>2. CASE entry.type = "answer"
    <3>1. k \in Request
      BY <1>1, <1>2, <2>2, AnswerFollowsRequest
    <3>2. answer' = [answer EXCEPT ![k].state = "consumed"]
      BY <2>2 DEF Commit
    <3> QED
      BY <1>1, <1>2, <2>2, <3>1, <3>2, AppendAnswers DEF RunInv
  <2> QED
    BY <2>1, <2>2
<1> QED
  BY <1>3, <1>4, <1>5, DocumentRun DEF Document

\* A delivery reaches a run that nobody is executing, at the request it waits on.
LEMMA RetainReaches ==
  ASSUME RunInv, NEW d \in Deliverer, Retain(d)
  PROVE  /\ \A g \in Host : hold[g].pc \notin Unsettled
         /\ \/ UNCHANGED answer
            \/ \E k \in Request : /\ k = Len(journal) /\ Asked(k) /\ answer[k].state = "none"
                                  /\ answer' = [answer EXCEPT ![k] = [state |-> "pending", value |-> d]]
<1> DEFINE k == delivery[d].at
<1>1. status = "suspended" /\ waitingAt = k /\ answer[k].state = "none" /\ answer \in AnswerRows
      /\ delivery \in [Deliverer -> [pc : {"idle", "judged", "delivered", "refused"}, at : {0} \cup Request]]
  BY DEF Retain, RetainedWait, RunInv, LifecycleInv, TypeOK, AnswerRows
<1>2. \A g \in Host : hold[g].pc \notin Unsettled
  BY <1>1 DEF RunInv, LifecycleInv, LiveIsUnfinished, HalvesAgree, Terminal
<1>3. answer' = [answer EXCEPT ![k] = [state |-> "pending", value |-> d]]
  BY DEF Retain
<1>4. k \in {0} \cup Request
  BY <1>1
<1>5. \A j \in Request : j \in 1 .. Len(Script)
  BY ScriptAssumption DEF Request, ScriptAssumption
<1> HIDE DEF k
<1>6. CASE k = 0
  <2>1. 0 \notin Request
    BY <1>5
  <2>2. answer' = answer
    BY <1>1, <1>3, <1>6, <2>1 DEF AnswerRows
  <2> QED
    BY <1>2, <2>2
<1>7. CASE k \in Request /\ k # 0
  <2>1. k = Len(journal) /\ journal[k].type = "request"
    BY <1>1, <1>7 DEF RunInv, SuspendedAtOpenWait
  <2>2. k \in DOMAIN journal
    BY <1>5, <1>7, <2>1 DEF RunInv, LifecycleInv, TypeOK
  <2> QED
    BY <1>1, <1>2, <1>3, <1>7, <2>1, <2>2 DEF Asked
<1> QED
  BY <1>4, <1>6, <1>7

LEMMA DeliveryRun ==
  ASSUME RunInv, LifecycleInv', NEW d \in Deliverer,
         (\E k \in Request : DeliverJudged(d, k)) \/ Retain(d) \/ RefuseDelivery(d)
  PROVE  RunInv'
<1>1. UNCHANGED <<status, waitingAt, journal, hold, root>>
  BY DEF DeliverJudged, Retain, RefuseDelivery, lifecycleVars
<1>2. JournalFollowsScript' /\ SuspendedAtOpenWait' /\ CloseBeatsCancel' /\ WorkspaceMatchesJournal'
  BY <1>1 DEF RunInv, JournalFollowsScript, SuspendedAtOpenWait, CloseBeatsCancel, RootClosed, WorkspaceMatchesJournal
<1>3. CASE UNCHANGED answer
  BY <1>1, <1>2, <1>3 DEF RunInv, AnswersAgree, AnswerAgrees, Asked, Answered, Work, WorkAt, RootClosed, NextStep
<1>4. CASE Retain(d) /\ ~UNCHANGED answer
  <2>1. Work'
    BY <1>1, <1>4, RetainReaches DEF Work, WorkAt, Unsettled, Running
  <2>2. AnswersAgree'
    <3>1. PICK k \in Request : /\ k = Len(journal) /\ Asked(k) /\ answer[k].state = "none"
                               /\ answer' = [answer EXCEPT ![k] = [state |-> "pending", value |-> d]]
      BY <1>4, RetainReaches
    <3>2. answer \in AnswerRows /\ journal \in Seq(EntryRecord)
      BY DEF RunInv, LifecycleInv, TypeOK, AnswerRows
    <3>3. /\ answer'[k].state = "pending" /\ ~Answered(k)
          /\ \A j \in Request : j # k => answer'[j] = answer[j]
      BY <3>1, <3>2 DEF AnswerRows, Answered
    <3> QED
      BY <1>1, <3>1, <3>3 DEF RunInv, AnswersAgree, AnswerAgrees, Asked, Answered
  <2> QED
    BY <1>2, <2>1, <2>2 DEF RunInv
<1> QED
  BY <1>3, <1>4 DEF DeliverJudged, RefuseDelivery

LEMMA RunInitially == Init => RunInv
<1> SUFFICES ASSUME Init PROVE RunInv
  OBVIOUS
<1>1. journal = <<>> /\ root = 0 /\ status = "absent" /\ \A h \in Host : hold[h].pc = "idle"
  BY IdleTypes DEF Init, InitLifecycle
<1>2. JournalFollowsScript /\ Work /\ SuspendedAtOpenWait /\ CloseBeatsCancel
  BY <1>1 DEF JournalFollowsScript, Work, WorkAt, SuspendedAtOpenWait, CloseBeatsCancel
<1>3. WorkspaceMatchesJournal
  <2>1. {i \in DOMAIN journal : journal[i].type = "edit" /\ journal[i].ok} = {}
    BY <1>1
  <2> QED
    BY <1>1, <2>1, FS_EmptySet DEF WorkspaceMatchesJournal
<1>4. AnswersAgree
  <2>1. \A k \in Request : answer[k].state = "none" /\ ~Answered(k)
    BY <1>1 DEF Init, NoAnswer, Answered
  <2> QED
    BY <2>1 DEF AnswersAgree, AnswerAgrees
<1> QED
  BY <1>2, <1>3, <1>4, LifecycleInitially DEF RunInv

LEMMA RunPreserved ==
  ASSUME MaxBegins <= 2, RunInv, [Next]_vars
  PROVE  RunInv'
<1>1. LifecycleInv'
  BY LifecyclePreserved DEF RunInv
<1>2. ASSUME NEW h \in Host, Document(h) PROVE RunInv'
  BY <1>1, <1>2, EndsRun, MovesOnRun, StageRun, RequestRun, CloseRun, CommitRun DEF Document
<1>3. ASSUME NEW h \in Host, Execute(h) PROVE RunInv'
  <2>1. ASSUME NEW w \in 0 .. Len(journal), Settle(h, w), Rest PROVE RunInv'
    <3>1. w \in Nat
      BY DEF RunInv, LifecycleInv, TypeOK
    <3> QED
      BY <1>1, <2>1, <3>1, SettlementRun
  <2> QED
    BY <1>1, <1>2, <1>3, <2>1, QuietStepKept, BeginRun, SettlementRun DEF Execute, Rest
<1>4. ASSUME NEW h \in Host, Disturb(h) PROVE RunInv'
  BY <1>1, <1>4, BeginAgainRun, QuietStepKept, SettlementRun, EndsRun DEF Disturb, Rest
<1>5. ASSUME Others PROVE RunInv'
  BY <1>1, <1>5, CancelRun, DeliveryRun DEF Others, Rest
<1>6. CASE UNCHANGED vars
  <2>1. UNCHANGED <<status, waitingAt, journal, hold, root, answer>>
    BY <1>6 DEF vars, lifecycleVars
  <2> QED
    BY <1>1, <2>1 DEF RunInv, JournalFollowsScript, AnswersAgree, AnswerAgrees, Asked, Answered, Work, WorkAt,
                      RootClosed, NextStep, SuspendedAtOpenWait, CloseBeatsCancel, WorkspaceMatchesJournal
<1> QED
  BY <1>3, <1>4, <1>5, <1>6 DEF Next

\* With them the document's side: an open transaction, the journal, the Workspace root
\* and the answer rows (coordinateTransaction, claim, retain).
THEOREM RunIsSound == ASSUME MaxBegins <= 2 PROVE Spec => []RunInv
<1>1. RunInv /\ [Next]_vars => RunInv'
  BY RunPreserved
<1> QED
  BY <1>1, RunInitially, PTL DEF Spec

-----------------------------------------------------------------------------
(* What the runs check, for every run *)

\* Every row, hold and delivery keeps its shape, and only an open transaction holds a
\* staged event (the storage schema, executor.ts, delivery.ts).
THEOREM TypeCorrect == ASSUME MaxBegins <= 2 PROVE Spec => []TypeOK
<1>1. RunInv => TypeOK
  BY DEF RunInv, LifecycleInv
<1> QED
  BY <1>1, RunIsSound, PTL

\* Nobody reconciles, cancels or settles a live execution (executor.ts, beginOnce).
THEOREM LiveStaysUnfinished == ASSUME MaxBegins <= 2 PROVE Spec => []LiveIsUnfinished
<1>1. RunInv => LiveIsUnfinished
  BY DEF RunInv, LifecycleInv
<1> QED
  BY <1>1, RunIsSound, PTL

\* The status and the execution rows agree through every settlement, interruption,
\* recovery and cancellation (transitions.ts).
THEOREM HalvesStayInStep == ASSUME MaxBegins <= 2 PROVE Spec => []HalvesAgree
<1>1. RunInv => HalvesAgree
  BY DEF RunInv, LifecycleInv
<1> QED
  BY <1>1, RunIsSound, PTL

\* A wait a suspended run names is retained and open (settleExecution, suspensionEvent).
THEOREM SuspendsAtOpenWait == ASSUME MaxBegins <= 2 PROVE Spec => []SuspendedAtOpenWait
<1>1. RunInv => SuspendedAtOpenWait
  BY DEF RunInv
<1> QED
  BY <1>1, RunIsSound, PTL

\* A recorded Close is never overridden by a cancellation (cancelRun).
THEOREM CloseAlwaysWins == ASSUME MaxBegins <= 2 PROVE Spec => []CloseBeatsCancel
<1>1. RunInv => CloseBeatsCancel
  BY DEF RunInv
<1> QED
  BY <1>1, RunIsSound, PTL

\* The Workspace root holds exactly the journaled edits (coordinateTransaction).
THEOREM WorkspaceStaysInStep == ASSUME MaxBegins <= 2 PROVE Spec => []WorkspaceMatchesJournal
<1>1. RunInv => WorkspaceMatchesJournal
  BY DEF RunInv
<1> QED
  BY <1>1, RunIsSound, PTL

\* Of a cancelled run nothing moves again.
LEMMA CancelledRests ==
  ASSUME MaxBegins <= 2, RunInv, [Next]_vars, status = "cancelled"
  PROVE  UNCHANGED <<status, waitingAt, unfinished, journal, root, answer>>
<1> DEFINE Still == UNCHANGED <<status, waitingAt, unfinished, journal, root, answer>>
<1>1. /\ unfinished = {} /\ waitingAt = 0 /\ \A h \in Host : hold[h].pc \notin Unsettled
      /\ Recovered = "cancelled"
  BY DEF RunInv, LifecycleInv, HalvesAgree, OnlySuspendedWaits, LiveIsUnfinished, Terminal, Recovered
<1>2. ASSUME NEW h \in Host, Document(h) \/ DocumentFails(h) PROVE Still
  BY <1>1, <1>2, DocumentIsStep DEF RunInv, LifecycleInv, DocumentStep, Unsettled
<1>3. ASSUME NEW h \in Host, Execute(h) PROVE Still
  <2>1. ASSUME NEW action \in {"start", "resume"}, NEW e \in Execution, Begin(h, action, e), Rest PROVE Still
    BY <1>1, <2>1 DEF Begin, Refused, Publish, Rest
  <2> QED
    BY <1>1, <1>2, <1>3, <2>1 DEF Execute, Rest, Acquire, Settle, Leave, Finish, Unsettled
<1>4. ASSUME NEW h \in Host, Disturb(h) PROVE Still
  BY <1>1, <1>2, <1>4
     DEF Disturb, BeginAgain, BeginFails, SettleFails, Interrupt, LeaveSilently, Crash, Unsettled
<1>5. ASSUME Others PROVE Still
  <2>1. ASSUME NEW d \in Deliverer,
               (\E k \in Request : DeliverJudged(d, k)) \/ Retain(d) \/ RefuseDelivery(d)
        PROVE  Still
    BY <2>1 DEF DeliverJudged, Retain, RefuseDelivery, RetainedWait, lifecycleVars
  <2> QED
    BY <1>5, <2>1 DEF Others, Cancel
<1> QED
  BY <1>3, <1>4, <1>5 DEF Next, vars, lifecycleVars

\* A cancelled run is never advanced by any program (cancelRun, admissionRefusal,
\* retainedWait).
THEOREM CancelledStaysFinal == ASSUME MaxBegins <= 2 PROVE Spec => CancelledIsFinal
<1>1. RunInv /\ [Next]_vars =>
        [status = "cancelled" =>
           UNCHANGED <<status, waitingAt, unfinished, journal, root, answer>>]_vars
  BY CancelledRests
<1> QED
  BY <1>1, RunIsSound, PTL DEF Spec, CancelledIsFinal

-----------------------------------------------------------------------------
(* The run implements the durable wait *)

WaitView == [k \in Request |-> WaitOf(k)]

\* Read with the answer rows and the journal in agreement, a wait is never torn.
LEMMA WaitOfIs ==
  ASSUME NEW k \in Request, answer \in AnswerRows, AnswerAgrees(k)
  PROVE  /\ answer[k].state = "consumed" => WaitOf(k) = [phase |-> "answered", value |-> journal[k + 1].value]
         /\ answer[k].state = "pending" => WaitOf(k) = [phase |-> "delivered", value |-> answer[k].value]
         /\ answer[k].state = "none" /\ Asked(k) => WaitOf(k) = [phase |-> "asked", value |-> Nil]
         /\ answer[k].state = "none" /\ ~Asked(k) => WaitOf(k) = [phase |-> "unasked", value |-> Nil]
  BY DEF AnswerRows, AnswerAgrees, Asked, Answered, WaitOf

LEMMA RunHasRows ==
  ASSUME RunInv
  PROVE  answer \in AnswerRows /\ journal \in Seq(EntryRecord) /\ \A k \in Request : AnswerAgrees(k)
  BY DEF RunInv, LifecycleInv, TypeOK, AnswersAgree, AnswerRows

\* A wait looks the same while its row stands and the journal says the same of it.
LEMMA WaitStands ==
  ASSUME RunInv, RunInv', NEW k \in Request, answer'[k] = answer[k], Asked(k)' <=> Asked(k),
         answer[k].state = "consumed" => journal'[k + 1] = journal[k + 1]
  PROVE  WaitOf(k)' = WaitOf(k)
<1>1. answer[k].state \in {"none", "pending", "consumed"}
  BY RunHasRows DEF AnswerRows
<1>2. /\ answer[k].state = "consumed" => WaitOf(k) = [phase |-> "answered", value |-> journal[k + 1].value]
      /\ answer[k].state = "pending" => WaitOf(k) = [phase |-> "delivered", value |-> answer[k].value]
      /\ answer[k].state = "none" /\ Asked(k) => WaitOf(k) = [phase |-> "asked", value |-> Nil]
      /\ answer[k].state = "none" /\ ~Asked(k) => WaitOf(k) = [phase |-> "unasked", value |-> Nil]
  BY RunHasRows, WaitOfIs
<1>3. /\ answer'[k].state = "consumed" => WaitOf(k)' = [phase |-> "answered", value |-> journal'[k + 1].value]
      /\ answer'[k].state = "pending" => WaitOf(k)' = [phase |-> "delivered", value |-> answer'[k].value]
      /\ answer'[k].state = "none" /\ Asked(k)' => WaitOf(k)' = [phase |-> "asked", value |-> Nil]
      /\ answer'[k].state = "none" /\ ~Asked(k)' => WaitOf(k)' = [phase |-> "unasked", value |-> Nil]
  <2>1. (answer \in AnswerRows /\ AnswerAgrees(k))'
    BY RunHasRows, RunInv' DEF RunInv, LifecycleInv, TypeOK, AnswersAgree, AnswerRows
  <2> QED
    BY <2>1 DEF AnswerRows, AnswerAgrees, Asked, Answered, WaitOf
<1> QED
  BY <1>1, <1>2, <1>3

LEMMA AppendViews ==
  ASSUME journal \in Seq(EntryRecord), NEW entry \in EntryRecord, journal' = Append(journal, entry)
  PROVE  /\ \A i \in DOMAIN journal : journal'[i] = journal[i]
         /\ \A k \in Request : k # Len(journal) + 1 \/ entry.type # "request" => (Asked(k)' <=> Asked(k))
         /\ journal'[Len(journal) + 1] = entry
<1>1. /\ DOMAIN journal' = DOMAIN journal \cup {Len(journal) + 1}
      /\ \A i \in DOMAIN journal : journal'[i] = journal[i]
      /\ journal'[Len(journal) + 1] = entry /\ Len(journal) + 1 \notin DOMAIN journal
  OBVIOUS
<1> QED
  BY <1>1 DEF Asked, Request

\* A step that appends an event which neither asks nor answers moves no wait.
LEMMA AppendStands ==
  ASSUME RunInv, RunInv', UNCHANGED answer, NEW entry \in EntryRecord, journal' = Append(journal, entry),
         NEW k \in Request, k # Len(journal) + 1 \/ entry.type # "request"
  PROVE  WaitOf(k)' = WaitOf(k)
<1>1. answer[k].state = "consumed" => k + 1 \in DOMAIN journal
  BY RunHasRows DEF AnswerAgrees, Answered
<1> QED
  BY <1>1, RunHasRows, AppendViews, WaitStands

LEMMA AskRefines ==
  ASSUME RunInv, RunInv', NEW h \in Host, PublishRequest(h)
  PROVE  \E k \in Request : /\ WaitOf(k) = [phase |-> "unasked", value |-> Nil]
                            /\ WaitOf(k)' = [phase |-> "asked", value |-> Nil]
                            /\ \A j \in Request : j # k => WaitOf(j)' = WaitOf(j)
<1> DEFINE entry == Entry("request", TRUE, Nil)
<1>1. /\ journal' = Append(journal, entry) /\ entry \in EntryRecord /\ UNCHANGED answer
      /\ NextStep = "request" /\ entry.type = "request"
  BY DEF PublishRequest, Entry, EntryRecord
<1> HIDE DEF entry
<1>2. PICK k \in Request : k = Len(journal) + 1
  <2>1. Script \in Seq({"edit", "request", "answer"}) /\ Len(journal) \in Nat
    BY ScriptAssumption, RunHasRows DEF ScriptAssumption
  <2>2. Len(journal) < Len(Script) /\ Script[Len(journal) + 1] = "request"
    BY <1>1 DEF NextStep
  <2> QED
    BY <2>1, <2>2 DEF Request
<1>3. \A j \in Request : j # k => WaitOf(j)' = WaitOf(j)
  BY <1>1, <1>2, AppendStands
<1>4. ~Asked(k) /\ ~Answered(k) /\ Asked(k)' /\ answer[k].state = "none" /\ answer'[k].state = "none"
  <2>1. k \notin DOMAIN journal /\ k + 1 \notin DOMAIN journal /\ k \in DOMAIN journal' /\ journal'[k] = entry
    BY <1>1, <1>2, RunHasRows
  <2>2. ~Asked(k) /\ ~Answered(k) /\ Asked(k)'
    BY <1>1, <2>1 DEF Asked, Answered
  <2> QED
    BY <1>1, <2>2, RunHasRows DEF AnswerRows, AnswerAgrees
<1>5. WaitOf(k) = [phase |-> "unasked", value |-> Nil]
  BY <1>4, RunHasRows, WaitOfIs
<1>6. WaitOf(k)' = [phase |-> "asked", value |-> Nil]
  <2>1. ~Answered(k)'
    BY <1>4 DEF RunInv, AnswersAgree, AnswerAgrees
  <2> QED
    BY <1>4, <2>1 DEF WaitOf, Asked, Answered
<1> QED
  BY <1>3, <1>5, <1>6

LEMMA PublishRefines ==
  ASSUME RunInv, RunInv', NEW h \in Host, Commit(h), hold[h].staged.type = "answer"
  PROVE  \E k \in Request : \E v : /\ WaitOf(k) = [phase |-> "delivered", value |-> v]
                                   /\ WaitOf(k)' = [phase |-> "answered", value |-> v]
                                   /\ \A j \in Request : j # k => WaitOf(j)' = WaitOf(j)
<1> DEFINE v == hold[h].staged.value
<1>1. /\ hold[h].staged \in EntryRecord /\ NextStep = "answer"
      /\ answer[Len(journal)] = [state |-> "pending", value |-> v]
  <2>1. hold[h].pc = "writing" /\ WorkAt(h) /\ hold[h] \in HoldRecord
    BY HoldTypes DEF RunInv, LifecycleInv, Work, Commit
  <2> QED
    BY <2>1 DEF WorkAt, HoldRecord
<1>2. journal' = Append(journal, hold[h].staged) /\ answer' = [answer EXCEPT ![Len(journal)].state = "consumed"]
  BY DEF Commit
<1>3. PICK k \in Request : k = Len(journal)
  BY <1>1, RunHasRows, AnswerFollowsRequest
<1>4. /\ \A j \in Request : j # k => answer'[j] = answer[j]
      /\ answer'[k].state = "consumed" /\ answer[k].state = "pending" /\ answer[k].value = v
  BY <1>1, <1>2, <1>3, RunHasRows DEF AnswerRows
<1>5. \A j \in Request : j # k => WaitOf(j)' = WaitOf(j)
  <2> SUFFICES ASSUME NEW j \in Request, j # k PROVE WaitOf(j)' = WaitOf(j)
    OBVIOUS
  <2>1. hold[h].staged.type # "request"
    OBVIOUS
  <2>2. Asked(j)' <=> Asked(j)
    BY <1>1, <1>2, <2>1, RunHasRows, AppendViews
  <2>3. answer[j].state = "consumed" => journal'[j + 1] = journal[j + 1]
    BY <1>1, <1>2, RunHasRows, AppendViews DEF AnswerAgrees, Answered
  <2> QED
    BY <1>4, <2>2, <2>3, WaitStands
<1>6. WaitOf(k) = [phase |-> "delivered", value |-> v]
  BY <1>4, RunHasRows, WaitOfIs
<1>7. WaitOf(k)' = [phase |-> "answered", value |-> v]
  <2>1. Answered(k)'
    BY <1>4 DEF RunInv, AnswersAgree, AnswerAgrees
  <2>2. journal'[k + 1].value = v
    BY <1>1, <1>2, <1>3, RunHasRows
  <2> QED
    BY <1>4, <2>1, <2>2 DEF WaitOf, Answered
<1> QED
  BY <1>5, <1>6, <1>7

LEMMA DeliverRefines ==
  ASSUME RunInv, RunInv', NEW d \in Deliverer, Retain(d), ~UNCHANGED answer
  PROVE  \E k \in Request : /\ WaitOf(k) = [phase |-> "asked", value |-> Nil]
                            /\ WaitOf(k)' = [phase |-> "delivered", value |-> d]
                            /\ \A j \in Request : j # k => WaitOf(j)' = WaitOf(j)
<1>1. PICK k \in Request : /\ k = Len(journal) /\ Asked(k) /\ answer[k].state = "none"
                           /\ answer' = [answer EXCEPT ![k] = [state |-> "pending", value |-> d]]
  BY RetainReaches
<1>2. UNCHANGED journal
  BY DEF Retain, lifecycleVars
<1>3. /\ answer'[k] = [state |-> "pending", value |-> d]
      /\ \A j \in Request : j # k => answer'[j] = answer[j]
  BY <1>1, RunHasRows DEF AnswerRows
<1>4. \A j \in Request : j # k => WaitOf(j)' = WaitOf(j)
  BY <1>2, <1>3, WaitStands DEF Asked
<1>5. WaitOf(k) = [phase |-> "asked", value |-> Nil]
  BY <1>1, RunHasRows, WaitOfIs
<1>6. WaitOf(k)' = [phase |-> "delivered", value |-> d]
  <2>1. Asked(k)' /\ ~Answered(k)'
    BY <1>3 DEF RunInv, AnswersAgree, AnswerAgrees
  <2> QED
    BY <1>3, <2>1 DEF WaitOf, Asked, Answered
<1> QED
  BY <1>4, <1>5, <1>6

\* Every other step leaves every wait as it is.
LEMMA WaitsRest ==
  ASSUME RunInv, RunInv', UNCHANGED <<journal, answer>>
  PROVE  UNCHANGED WaitView
  BY DEF WaitView, WaitOf

LEMMA WaitMoves ==
  ASSUME NEW k \in Request, NEW p, \A j \in Request : j # k => WaitOf(j)' = WaitOf(j), WaitOf(k)' = p
  PROVE  WaitView' = [WaitView EXCEPT ![k] = p]
  BY DEF WaitView

LEMMA StepRefinesWait ==
  ASSUME MaxBegins <= 2, RunInv, [Next]_vars
  PROVE  [Waits!Next]_WaitView
<1> DEFINE Goal == [Waits!Next]_WaitView
<1>1. RunInv'
  BY RunPreserved
<1>2. ASSUME UNCHANGED <<journal, answer>> PROVE Goal
  BY <1>1, <1>2, WaitsRest
<1>3. ASSUME NEW h \in Host, PublishRequest(h) PROVE Goal
  <2>1. PICK k \in Request : /\ WaitOf(k) = [phase |-> "unasked", value |-> Nil]
                             /\ WaitOf(k)' = [phase |-> "asked", value |-> Nil]
                             /\ \A j \in Request : j # k => WaitOf(j)' = WaitOf(j)
    BY <1>1, <1>3, AskRefines
  <2>2. WaitView' = [WaitView EXCEPT ![k] = [phase |-> "asked", value |-> Nil]]
    BY <2>1, WaitMoves
  <2>3. WaitView[k] = [phase |-> "unasked", value |-> Nil]
    BY <2>1 DEF WaitView
  <2>4. [WaitView[k] EXCEPT !.phase = "asked"] = [phase |-> "asked", value |-> Nil]
    BY <2>3
  <2>5. WaitView' = [WaitView EXCEPT ![k].phase = "asked"]
    BY <2>2, <2>4
  <2>6. Waits!Ask(k)
    BY <2>3, <2>5 DEF Waits!Ask, WaitView
  <2> QED
    BY <2>6 DEF Waits!Next
<1>4. ASSUME NEW h \in Host, Commit(h), hold[h].staged.type = "answer" PROVE Goal
  <2>0. PICK k \in Request : \E v : /\ WaitOf(k) = [phase |-> "delivered", value |-> v]
                                    /\ WaitOf(k)' = [phase |-> "answered", value |-> v]
                                    /\ \A j \in Request : j # k => WaitOf(j)' = WaitOf(j)
    BY <1>1, <1>4, PublishRefines
  <2>1. PICK v : /\ WaitOf(k) = [phase |-> "delivered", value |-> v]
                 /\ WaitOf(k)' = [phase |-> "answered", value |-> v]
                 /\ \A j \in Request : j # k => WaitOf(j)' = WaitOf(j)
    BY <2>0
  <2>2. WaitView' = [WaitView EXCEPT ![k] = [phase |-> "answered", value |-> v]]
    BY <2>1, WaitMoves
  <2>3. WaitView[k] = [phase |-> "delivered", value |-> v]
    BY <2>1 DEF WaitView
  <2>4. [WaitView[k] EXCEPT !.phase = "answered"] = [phase |-> "answered", value |-> v]
    BY <2>3
  <2>5. WaitView' = [WaitView EXCEPT ![k].phase = "answered"]
    BY <2>2, <2>4
  <2>6. Waits!Publish(k)
    BY <2>3, <2>5 DEF Waits!Publish, WaitView
  <2> QED
    BY <2>6 DEF Waits!Next
<1>5. ASSUME NEW d \in Deliverer, Retain(d) PROVE Goal
  <2>1. CASE UNCHANGED answer
    BY <1>2, <1>5, <2>1 DEF Retain, lifecycleVars
  <2>2. CASE ~UNCHANGED answer
    <3>1. PICK k \in Request : /\ WaitOf(k) = [phase |-> "asked", value |-> Nil]
                               /\ WaitOf(k)' = [phase |-> "delivered", value |-> d]
                               /\ \A j \in Request : j # k => WaitOf(j)' = WaitOf(j)
      BY <1>1, <1>5, <2>2, DeliverRefines
    <3>2. WaitView' = [WaitView EXCEPT ![k] = [phase |-> "delivered", value |-> d]]
      BY <3>1, WaitMoves
    <3>3. WaitView[k].phase = "asked"
      BY <3>1 DEF WaitView
    <3>4. Waits!Deliver(k, d)
      BY <3>2, <3>3 DEF Waits!Deliver, WaitView
    <3> QED
      BY <3>4 DEF Waits!Next
  <2> QED
    BY <2>1, <2>2
<1>6. ASSUME NEW h \in Host, Commit(h), hold[h].staged.type # "answer" PROVE Goal
  <2>1. hold[h].staged \in EntryRecord /\ hold[h].staged.type # "request"
    <3>1. hold[h].pc = "writing" /\ WorkAt(h) /\ hold[h] \in HoldRecord
      BY <1>6, HoldTypes DEF RunInv, LifecycleInv, Work, Commit
    <3>2. hold[h].staged.type = NextStep /\ NextStep # "request"
      BY <3>1 DEF WorkAt
    <3> QED
      BY <1>6, <3>1, <3>2 DEF HoldRecord
  <2>2. \A k \in Request : WaitOf(k)' = WaitOf(k)
    BY <1>1, <1>6, <2>1, AppendStands DEF Commit
  <2> QED
    BY <2>2 DEF WaitView
<1>7. ASSUME NEW h \in Host, NEW ok \in BOOLEAN, Close(h, ok) PROVE Goal
  <2> DEFINE entry == Entry("close", ok, Nil)
  <2>1. entry \in EntryRecord /\ entry.type # "request" /\ journal' = Append(journal, entry) /\ UNCHANGED answer
    BY <1>7 DEF Close, Entry, EntryRecord
  <2> HIDE DEF entry
  <2>2. \A k \in Request : WaitOf(k)' = WaitOf(k)
    BY <1>1, <2>1, AppendStands
  <2> QED
    BY <2>2 DEF WaitView
<1>8. ASSUME NEW h \in Host, Document(h) \/ DocumentFails(h) PROVE Goal
  BY <1>2, <1>3, <1>4, <1>6, <1>7, <1>8
     DEF Document, DocumentFails, ReplayClose, Replay, Edit, EditUnattached, FindAnswer, Suspend, Claim, Stage
<1>9. ASSUME NEW h \in Host, Execute(h) PROVE Goal
  BY <1>2, <1>8, <1>9 DEF Execute, Acquire, Begin, Settle, Leave
<1>10. ASSUME NEW h \in Host, Disturb(h) PROVE Goal
  BY <1>2, <1>8, <1>10
     DEF Disturb, BeginAgain, BeginFails, SettleFails, Interrupt, LeaveSilently, Crash
<1>11. ASSUME Others PROVE Goal
  BY <1>2, <1>5, <1>11 DEF Others, Cancel, DeliverJudged, RefuseDelivery, lifecycleVars
<1>12. CASE UNCHANGED vars
  BY <1>2, <1>12 DEF vars, lifecycleVars
<1> QED
  BY <1>9, <1>10, <1>11, <1>12 DEF Next

\* Whoever answers, however often the run is restarted: one value is accepted for a
\* wait and exactly it ends the wait, once (delivery.ts, suspension.ts).
THEOREM RunImplementsWait == ASSUME MaxBegins <= 2 PROVE Spec => ImplementsWait
<1>1. Init => Waits!Init
  <2> SUFFICES ASSUME Init PROVE Waits!Init
    OBVIOUS
  <2>1. ASSUME NEW k \in Request PROVE WaitOf(k) = Waits!Unasked
    <3>1. answer[k].state = "none" /\ ~Asked(k) /\ ~Answered(k)
      BY DEF Init, InitLifecycle, NoAnswer, Asked, Answered
    <3> QED
      BY <3>1 DEF WaitOf, Asked, Answered, Waits!Unasked
  <2> QED
    BY <2>1 DEF Waits!Init
<1>2. RunInv /\ [Next]_vars => [Waits!Next]_WaitView
  BY StepRefinesWait
<1> QED
  BY <1>1, <1>2, RunIsSound, PTL DEF Spec, ImplementsWait, Waits!Spec, WaitView
==============================================================================
