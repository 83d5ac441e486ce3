------------------------ MODULE DurableJournalProofs -------------------------
(***************************************************************************)
(* What the journal of a durable run holds.  How coroutines end: each      *)
(* closes once and nothing of it follows, what is beneath it has ended     *)
(* before, and the terminal a caller is told is one the journal holds.     *)
(* And what the program is given: the results the journal holds, each once *)
(* and in their order, and none before it is durable; with run-live        *)
(* excluded, every run therefore is one of DurableHistory.                 *)
(***************************************************************************)
EXTENDS DurableRunProofs, SubsequenceProofs

Appending == {"turn", "write", "stored"}

\* Every coroutine appends under its own identity.
OwnEvents == \A c \in Coroutine : pc[c] \in Appending => pending[c].co = c

\* What the backend stored is in the journal.
StoredIsJournaled ==
  \A c \in Coroutine :
    pc[c] = "stored" => \E i \in DOMAIN journal : journal[i] = pending[c]

\* The children of the steps a coroutine has not begun are not running yet.
KidsWait ==
  run = "up" =>
    \A p \in Coroutine : \A i \in DOMAIN def[p] :
      (i > pos[p] \/ (i = pos[p] /\ pc[p] \in {"idle", "ready"})) =>
        \A k \in def[p][i].kids : pc[k] = "idle"

\* Replay is switched off by the coroutine itself, never before it runs.
IdleReplays == run = "up" => \A c \in Coroutine : pc[c] = "idle" => c \notin disabled

\* A coroutine that closed is through: it waits to be restored, was restored, or is
\* leaving.
SpentAt(c) ==
  \/ pc[c] \in {"parked", "ended"}
  \/ pc[c] = "idle" /\ WasClosed(c)
  \/ pc[c] = "stored" /\ pending[c].type = "close"
  \/ pc[c] = "closing" /\ c = Root /\ phase \notin {"open", "claimed"}

ClosedAreSpent == run = "up" => \A c \in Coroutine : ClosesOf(c) # {} => SpentAt(c)

\* Whoever has something running beneath it waits for it, at the step that forked it.
JoinsWhatRuns ==
  run = "up" =>
    \A p \in Coroutine : \A d \in Subtree[p] \ {p} :
      ~Gone(d) => pc[p] = "join" /\ \E k \in At(p).kids : d \in Subtree[k]

ControlInv ==
  /\ OwnEvents /\ StoredIsJournaled /\ KidsWait /\ IdleReplays
  /\ ClosedAreSpent /\ JoinsWhatRuns /\ ClosedIsFinal /\ RetainedIsJournaled

------------------------------------------------------------------------------
(* One step of one coroutine.                                              *)

\* Of the coroutines only c took a step, and it is one it could take.
StepOf(c) ==
  /\ run = "up" /\ run' = "up" /\ def' = def /\ indexed' = indexed
  /\ \A d \in Coroutine \ {c} :
       pc'[d] = pc[d] /\ pos'[d] = pos[d] /\ pending'[d] = pending[d]
  /\ pc[c] \notin {"idle", "ended"}
  /\ pc'[c] # "idle"
  /\ pos'[c] \in {pos[c], pos[c] + 1}
  /\ pc'[c] = "ready" => pos'[c] = pos[c] + 1
  /\ pc'[c] = "join" => pc[c] = "join" /\ pos'[c] = pos[c]
  /\ pc[c] = "join" /\ pc'[c] # "join" =>
       \/ \A d \in Subtree[c] \ {c} : Gone(d)
       \/ \A k \in At(c).kids : pc[k] = "ended"
  /\ pc'[c] \in Appending =>
       \/ pc[c] \in Appending /\ pending'[c] = pending[c]
       \/ pending'[c].co = c
  /\ c # Root => phase' = phase
  /\ SpentAt(c) =>
       \/ pc'[c] = "ended"
       \/ pc'[c] = "closing" /\ c = Root /\ phase' \notin {"open", "claimed"}
  /\ disabled' \subseteq disabled \cup {c}
  /\ journal' = journal \/ BackendStores(c)
  /\ pc'[c] = "stored" => BackendStores(c)
  /\ \/ retained' = retained
     \/ AckClose(c) /\ c = Root /\ retained' = pending[c].status

LEMMA Typed ==
  ASSUME RunInv
  PROVE  /\ pc \in [Coroutine -> PC] /\ pos \in [Coroutine -> Nat]
         /\ pending \in [Coroutine -> Event \cup {NoEvent}]
         /\ journal \in Seq(Event) /\ indexed \in 0 .. Len(journal)
         /\ cursors \in [Coroutine -> Nat]
         /\ DOMAIN seen = Coroutine /\ def \in [Coroutine -> Seq(Step)]
  BY DefinitionAssumption DEF DefinitionAssumption, RunInv, TypeOK, IndexTypeOK

LEMMA EffectsAreSteps ==
  ASSUME RunInv, NEW c \in Coroutine, Effects(c)
  PROVE  StepOf(c)
<1>1. /\ pc \in [Coroutine -> PC] /\ pos \in [Coroutine -> Nat]
      /\ pending \in [Coroutine -> Event \cup {NoEvent}]
  BY Typed
<1>2. ASSUME Calls(c), NEW s, Resume(c, s),
             UNCHANGED <<journal, indexed, run, def, pending, phase, retained, disabled>>
      PROVE  StepOf(c)
  BY <1>1, <1>2 DEF Calls, Ready, Moves, Resume, StepOf, Appending, SpentAt
<1>3. ASSUME CallRefused(c) PROVE StepOf(c)
  BY <1>2, <1>3 DEF CallRefused, indexVars, root
<1>4. ASSUME Replay(c) PROVE StepOf(c)
  BY <1>2, <1>4 DEF Replay, ConsumeYield, root
<1>5. ASSUME ReplayStale(c) PROVE StepOf(c)
  BY <1>2, <1>5 DEF ReplayStale, ConsumeYield, root
<1>6. ASSUME Diverge(c) PROVE StepOf(c)
  BY <1>2, <1>6 DEF Diverge, indexVars, root
<1>7. ASSUME RunLive(c) PROVE StepOf(c)
  BY <1>1, <1>7 DEF RunLive, Calls, Ready, Moves, DisableReplay, StepOf, Appending, root,
     SpentAt
<1>8. ASSUME GoLive(c) PROVE StepOf(c)
  BY <1>1, <1>8 DEF GoLive, Calls, Ready, Moves, indexVars, StepOf, Appending, root,
     SpentAt
<1>9. ASSUME Execute(c) PROVE StepOf(c)
  <2>1. PICK s \in Outcomes : BeginAppend(c, YieldOf(c, At(c).name, s))
    BY <1>9 DEF Execute
  <2> QED
    BY <1>1, <1>9, <2>1 DEF Execute, Moves, BeginAppend, YieldOf, indexVars, StepOf,
       Appending, root, SpentAt
<1>10. ASSUME ExecuteTooLate(c) PROVE StepOf(c)
  BY <1>1, <1>10 DEF ExecuteTooLate, Moves, Resume, indexVars, StepOf, Appending, root,
     SpentAt
<1> QED
  BY <1>3, <1>4, <1>5, <1>6, <1>7, <1>8, <1>9, <1>10 DEF Effects

\* An append that raised leaves its coroutine where it can go on, or at its end.
LEMMA RaisedIsStep ==
  ASSUME RunInv, NEW c \in Coroutine, Moves(c), pc[c] \in Appending,
         NEW ordinary, AppendRaised(c, ordinary), pc[c] = "stored" => ~ordinary,
         UNCHANGED <<journal, indexed, run, def, disabled>>
  PROVE  StepOf(c)
<1>1. /\ pc \in [Coroutine -> PC] /\ pos \in [Coroutine -> Nat]
      /\ pending \in [Coroutine -> Event \cup {NoEvent}]
      /\ pending[c] \in Event /\ pending[c].type \in {"yield", "close"}
  BY Typed DEF RunInv, Busy, BusyAt, Appending, Event
<1>2. pending' = [pending EXCEPT ![c] = NoEvent] /\ retained' = retained
  BY DEF AppendRaised
<1>3. CASE pending[c].type = "yield"
  <2>1. Resume(c, "err") /\ phase' = phase
    BY <1>3 DEF AppendRaised
  <2> QED
    BY <1>1, <1>2, <1>3, <2>1 DEF Moves, Resume, StepOf, Appending, SpentAt
<1>4. CASE pending[c].type = "close" /\ c # Root
  <2>1. pc' = [pc EXCEPT ![c] = "ended"] /\ pos' = pos /\ phase' = phase
    BY <1>4 DEF AppendRaised
  <2> QED
    BY <1>1, <1>2, <1>4, <2>1 DEF Moves, StepOf, Appending, SpentAt
<1>5. CASE pending[c].type = "close" /\ c = Root /\ ordinary /\ closer = "return"
  <2>1. pc' = [pc EXCEPT ![c] = "compensate"] /\ pos' = pos /\ phase' = phase
    BY <1>5 DEF AppendRaised
  <2> QED
    BY <1>1, <1>2, <1>5, <2>1 DEF Moves, StepOf, Appending, SpentAt
<1>6. CASE pending[c].type = "close" /\ c = Root /\ ~(ordinary /\ closer = "return")
  <2>1. pc' = [pc EXCEPT ![c] = "ended"] /\ pos' = pos
    BY <1>6 DEF AppendRaised
  <2> QED
    BY <1>1, <1>2, <1>6, <2>1 DEF Moves, StepOf, Appending, SpentAt
<1> QED
  BY <1>1, <1>3, <1>4, <1>5, <1>6

LEMMA AppendsAreSteps ==
  ASSUME RunInv, NEW c \in Coroutine, Appends(c)
  PROVE  StepOf(c)
<1>1. /\ pc \in [Coroutine -> PC] /\ pos \in [Coroutine -> Nat]
      /\ pending \in [Coroutine -> Event \cup {NoEvent}]
  BY Typed
<1>2. ASSUME Admit(c) PROVE StepOf(c)
  BY <1>1, <1>2 DEF Admit, Moves, indexVars, StepOf, Appending, root, SpentAt
<1>3. ASSUME RefuseAdmission(c) PROVE StepOf(c)
  BY <1>3, RaisedIsStep DEF RefuseAdmission, indexVars, Appending
<1>4. ASSUME GateRefuses(c) PROVE StepOf(c)
  BY <1>4, RaisedIsStep DEF GateRefuses, indexVars, Appending
<1>5. ASSUME BackendStores(c) PROVE StepOf(c)
  BY <1>1, <1>5 DEF BackendStores, Moves, indexVars, StepOf, Appending, root, SpentAt
<1>6. ASSUME BackendFailed(c) PROVE StepOf(c)
  BY <1>6, RaisedIsStep DEF BackendFailed, indexVars, Appending
<1>7. ASSUME AckYield(c) PROVE StepOf(c)
  BY <1>1, <1>7 DEF AckYield, Moves, Resume, indexVars, StepOf, Appending, root, SpentAt
<1>8. ASSUME AckClose(c) PROVE StepOf(c)
  BY <1>1, <1>8 DEF AckClose, Moves, indexVars, StepOf, Appending, root, SpentAt
<1> QED
  BY <1>2, <1>3, <1>4, <1>5, <1>6, <1>7, <1>8 DEF Appends

\* A combinator starts its children in its own step; every other step is of one
\* coroutine alone.
LEMMA ChildrenAreSteps ==
  ASSUME RunInv, NEW c \in Coroutine, Children(c), ~Fork(c)
  PROVE  StepOf(c)
<1>1. /\ pc \in [Coroutine -> PC] /\ pos \in [Coroutine -> Nat]
      /\ pending \in [Coroutine -> Event \cup {NoEvent}]
  BY Typed
<1>2. ASSUME ChildEnds(c) PROVE StepOf(c)
  BY <1>1, <1>2 DEF ChildEnds, BodyEnds, Ready, Moves, indexVars, StepOf, Appending, root,
     SpentAt
<1>3. ASSUME ChildEndsUnclosed(c) PROVE StepOf(c)
  BY <1>1, <1>3 DEF ChildEndsUnclosed, indexVars, StepOf, Appending, root, SpentAt
<1>4. ASSUME CancelledUnaligned(c) PROVE StepOf(c)
  BY <1>1, <1>4 DEF CancelledUnaligned, indexVars, StepOf, Appending, root, SpentAt
<1>5. ASSUME CloseChild(c) PROVE StepOf(c)
  BY <1>1, <1>5 DEF CloseChild, BeginAppend, CloseOf, indexVars, StepOf, Appending, root,
     SpentAt
<1>6. ASSUME Decide(c) PROVE StepOf(c)
  BY <1>1, <1>6 DEF Decide, Moves, indexVars, StepOf, Appending, root, SpentAt
<1>7. ASSUME Join(c) PROVE StepOf(c)
  BY <1>1, <1>7 DEF Join, Moves, Resume, indexVars, StepOf, Appending, root, SpentAt
<1>8. ASSUME Unwind(c) PROVE StepOf(c)
  <2>1. /\ pc' = [pc EXCEPT ![c] = IF @ = "parked" THEN "ended" ELSE "closing"]
        /\ pending' = [pending EXCEPT ![c] = NoEvent]
        /\ run = "up" /\ ~Gone(c) /\ pc[c] # "closing" /\ ~InTeardown(c)
        /\ \A d \in Subtree[c] \ {c} : Gone(d)
        /\ UNCHANGED <<journal, indexed, run, def, pos, phase, retained, disabled>>
    BY <1>8 DEF Unwind, indexVars, root
  <2>2. ASSUME SpentAt(c), pc[c] # "parked" PROVE c = Root /\ phase = "appending"
    <3>1. pc[c] = "stored" /\ pending[c].type = "close"
      BY <2>1, <2>2 DEF SpentAt, Gone
    <3>2. c = Root
      BY <2>1, <3>1 DEF InTeardown
    <3> QED
      BY <3>1, <3>2 DEF RunInv, RootPhase
  <2> QED
    BY <1>1, <2>1, <2>2 DEF Gone, StepOf, Appending
<1> QED
  BY <1>2, <1>3, <1>4, <1>5, <1>6, <1>7, <1>8 DEF Children

LEMMA RootStepsAreSteps ==
  ASSUME RunInv, RootSteps
  PROVE  StepOf(Root)
<1>1. /\ pc \in [Coroutine -> PC] /\ pos \in [Coroutine -> Nat]
      /\ pending \in [Coroutine -> Event \cup {NoEvent}] /\ Root \in Coroutine
  BY Typed, RootIsCoroutine
<1>2. /\ run = "up" /\ pc[Root] \in {"ready", "threw", "compensate", "closing"}
      /\ UNCHANGED <<journal, run, def, indexed, disabled, pos, retained>>
  BY DEF RootSteps, RootReturns, RootThrows, RootCompensates, RootFinalizes, BodyEnds,
     Ready, Moves, indexVars
<1>3. \/ pc' = [pc EXCEPT ![Root] = "ended"] /\ pending' = pending
      \/ pc' = [pc EXCEPT ![Root] = "closing"] /\ pending' = pending /\ pc[Root] # "closing"
      \/ /\ \E s : BeginAppend(Root, CloseOf(Root, s))
         /\ pc[Root] = "closing" => phase = "claimed"
  <2>1. ASSUME RootReturns
        PROVE  \/ RootEnds /\ pending' = pending
               \/ \E s : BeginAppend(Root, CloseOf(Root, s)) /\ pc[Root] # "closing"
    BY <2>1 DEF RootReturns, BodyEnds, Ready
  <2>2. ASSUME RootThrows
        PROVE  \/ RootEnds /\ pending' = pending
               \/ /\ pc' = [pc EXCEPT ![Root] = "closing"]
                  /\ pending' = pending /\ pc[Root] # "closing"
               \/ \E s : BeginAppend(Root, CloseOf(Root, s)) /\ pc[Root] # "closing"
    BY <2>2 DEF RootThrows, BodyEnds, Ready
  <2>3. ASSUME RootCompensates
        PROVE  \E s : BeginAppend(Root, CloseOf(Root, s)) /\ pc[Root] # "closing"
    BY <2>3 DEF RootCompensates
  <2>4. ASSUME RootFinalizes
        PROVE  \/ RootEnds /\ pending' = pending
               \/ phase = "claimed" /\ \E s : BeginAppend(Root, CloseOf(Root, s))
    BY <2>4 DEF RootFinalizes
  <2> QED
    BY <2>1, <2>2, <2>3, <2>4 DEF RootSteps, RootEnds
<1> QED
  BY <1>1, <1>2, <1>3 DEF BeginAppend, CloseOf, StepOf, Appending, SpentAt

------------------------------------------------------------------------------
(* Such a step keeps what there is to keep.                                *)

LEMMA StoreFacts ==
  ASSUME RunInv, OwnEvents, NEW c \in Coroutine, BackendStores(c)
  PROVE  /\ pending[c] \in Event /\ pending[c].co = c
         /\ pc[c] = "write" /\ pc'[c] = "stored" /\ pending' = pending
         /\ DOMAIN journal = 1 .. Len(journal) /\ Len(journal) \in Nat
         /\ DOMAIN journal' = 1 .. (Len(journal) + 1)
         /\ \A i \in 1 .. Len(journal) : journal'[i] = journal[i]
         /\ journal'[Len(journal) + 1] = pending[c]
<1>1. journal \in Seq(Event) /\ pending[c] \in Event /\ pc \in [Coroutine -> PC]
  BY Typed DEF BackendStores, RunInv, Busy, BusyAt
<1>2. pending[c].co = c
  BY DEF BackendStores, OwnEvents, Appending
<1>3. /\ journal' = Append(journal, pending[c]) /\ pending' = pending
      /\ pc[c] = "write" /\ pc'[c] = "stored"
  BY <1>1 DEF BackendStores
<1>4. /\ DOMAIN journal = 1 .. Len(journal) /\ Len(journal) \in Nat
      /\ DOMAIN journal' = 1 .. (Len(journal) + 1)
      /\ \A i \in 1 .. Len(journal) : journal'[i] = journal[i]
      /\ journal'[Len(journal) + 1] = pending[c]
  BY <1>1, <1>3, AppendProperties, LenProperties
<1> QED
  BY <1>1, <1>2, <1>3, <1>4

LEMMA ClosesFacts ==
  ASSUME RunInv, OwnEvents, NEW c \in Coroutine, StepOf(c)
  PROVE  /\ \A d \in Coroutine \ {c} : ClosesOf(d)' = ClosesOf(d)
         /\ pc[c] # "write" => ClosesOf(c)' = ClosesOf(c)
         /\ \A d \in Coroutine : WasClosed(d)' <=> WasClosed(d)
<1>1. indexed' = indexed /\ indexed \in 0 .. Len(journal) /\ Len(journal) \in Nat
  BY Typed, LenProperties DEF StepOf
<1>2. CASE journal' = journal
  BY <1>1, <1>2 DEF ClosesOf, WasClosed, RetainedCloses
<1>3. CASE BackendStores(c)
  <2>1. /\ \A i \in 1 .. indexed : journal'[i] = journal[i]
        /\ pc[c] = "write"
    BY <1>1, <1>3, StoreFacts
  <2>2. ASSUME NEW d \in Coroutine PROVE WasClosed(d)' <=> WasClosed(d)
    <3>1. {j \in 1 .. indexed : journal'[j].type = "close" /\ journal'[j].co = d}
            = {j \in 1 .. indexed : journal[j].type = "close" /\ journal[j].co = d}
      BY <2>1
    <3> QED
      BY <1>1, <2>1, <3>1 DEF WasClosed, RetainedCloses
  <2>3. \A d \in Coroutine \ {c} : ClosesOf(d)' = ClosesOf(d)
    BY <1>3, StoreFacts DEF ClosesOf
  <2> QED
    BY <2>1, <2>2, <2>3
<1> QED
  BY <1>2, <1>3 DEF StepOf

LEMMA KidsAreBeneath ==
  ASSUME RunInv, NEW p \in Coroutine, NEW i \in DOMAIN def[p], NEW k \in def[p][i].kids
  PROVE  /\ k \in Coroutine /\ k \in Subtree[p] \ {p}
         /\ \A q \in Coroutine : k \in Subtree[q] => q = k \/ p \in Subtree[q]
         /\ \A q \in Coroutine : \A j \in DOMAIN def[q] :
              k \in def[q][j].kids => q = p /\ j = i
<1>1. def \in Definition
  BY DEF RunInv, TypeOK
<1>2. /\ k \in Subtree[p] \ {p}
      /\ \A q \in Coroutine : k \in Subtree[q] => q = k \/ p \in Subtree[q]
      /\ \A q \in Coroutine : \A j \in DOMAIN def[q] :
           k \in def[q][j].kids => q = p /\ j = i
  BY <1>1, ChildrenAssumption DEF ChildrenAssumption
<1> QED
  BY <1>2, TreeAssumption DEF TreeAssumption

LEMMA StepKeepsJoins ==
  ASSUME RunInv, JoinsWhatRuns, NEW c \in Coroutine, StepOf(c)
  PROVE  JoinsWhatRuns'
<1> SUFFICES ASSUME NEW p \in Coroutine, NEW d \in Subtree[p] \ {p}, ~Gone(d)'
             PROVE  pc'[p] = "join" /\ \E k \in def'[p][pos'[p]].kids : d \in Subtree[k]
  BY DEF JoinsWhatRuns, At
<1>1. d \in Coroutine /\ run = "up" /\ def' = def
  BY TreeAssumption DEF TreeAssumption, StepOf
<1>2. ~Gone(d)
  BY <1>1 DEF StepOf, Gone
<1>3. pc[p] = "join" /\ \E k \in def[p][pos[p]].kids : d \in Subtree[k]
  BY <1>1, <1>2 DEF JoinsWhatRuns, At
<1>4. CASE p # c
  BY <1>1, <1>3, <1>4 DEF StepOf
<1>5. CASE p = c
  <2>1. SUFFICES ASSUME pc'[c] # "join" PROVE FALSE
    BY <1>1, <1>3, <1>5, <2>1 DEF StepOf
  <2>2. \A k \in def[c][pos[c]].kids : pc[k] = "ended"
    BY <1>2, <1>3, <1>5, <2>1 DEF StepOf, At
  <2>3. PICK k \in def[c][pos[c]].kids : d \in Subtree[k]
    BY <1>3, <1>5
  <2>4. pc[k] = "ended" /\ pos[c] \in DOMAIN def[c]
    BY <1>3, <1>5, <2>2, <2>3 DEF RunInv, Busy, BusyAt
  <2>5. k \in Coroutine
    BY <2>4, KidsAreBeneath
  <2>6. d # k
    BY <1>2, <2>4 DEF Gone
  <2> QED
    BY <1>1, <1>2, <2>3, <2>4, <2>5, <2>6 DEF JoinsWhatRuns
<1> QED
  BY <1>4, <1>5

LEMMA StepKeepsControl ==
  ASSUME RunInv, ControlInv, NEW c \in Coroutine, StepOf(c)
  PROVE  ControlInv'
<1>1. /\ pc \in [Coroutine -> PC] /\ pos \in [Coroutine -> Nat] /\ run = "up"
      /\ journal \in Seq(Event) /\ Len(journal) \in Nat
  BY Typed, LenProperties DEF StepOf
<1>2. OwnEvents /\ StoredIsJournaled /\ KidsWait /\ IdleReplays /\ ClosedAreSpent
      /\ JoinsWhatRuns /\ ClosedIsFinal /\ RetainedIsJournaled
  BY DEF ControlInv
<1>3. OwnEvents'
  BY <1>2 DEF OwnEvents, StepOf
<1>4. StoredIsJournaled'
  <2>1. CASE journal' = journal /\ pc'[c] # "stored"
    BY <1>2, <2>1 DEF StoredIsJournaled, StepOf
  <2>2. CASE BackendStores(c)
    <3> SUFFICES ASSUME NEW d \in Coroutine, pc'[d] = "stored"
                 PROVE  \E i \in DOMAIN journal' : journal'[i] = pending'[d]
      BY DEF StoredIsJournaled
    <3>1. CASE d = c
      <4>1. /\ Len(journal) + 1 \in DOMAIN journal'
            /\ journal'[Len(journal) + 1] = pending'[d]
        BY <1>2, <2>2, <3>1, StoreFacts
      <4> QED
        BY <4>1
    <3>2. CASE d # c
      <4>1. pc[d] = "stored" /\ pending'[d] = pending[d]
        BY <3>2 DEF StepOf
      <4>2. PICK i \in DOMAIN journal : journal[i] = pending[d]
        BY <1>2, <4>1 DEF StoredIsJournaled
      <4>3. i \in DOMAIN journal' /\ journal'[i] = journal[i]
        BY <1>2, <2>2, StoreFacts
      <4> QED
        BY <4>1, <4>2, <4>3
    <3> QED
      BY <3>1, <3>2
  <2> QED
    BY <2>1, <2>2 DEF StepOf
<1>5. KidsWait'
  <2> SUFFICES ASSUME NEW p \in Coroutine, NEW i \in DOMAIN def[p],
                      i > pos'[p] \/ (i = pos'[p] /\ pc'[p] \in {"idle", "ready"}),
                      NEW k \in def[p][i].kids
               PROVE  pc'[k] = "idle"
    BY DEF KidsWait, StepOf
  <2>1. i \in Nat /\ k \in Coroutine
    <3>1. def[p] \in Seq(Step)
      BY Typed
    <3> QED
      BY <3>1, KidsAreBeneath
  <2>2. i > pos[p] \/ (i = pos[p] /\ pc[p] \in {"idle", "ready"})
    BY <1>1, <2>1 DEF StepOf
  <2>3. pc[k] = "idle"
    BY <1>1, <1>2, <2>2 DEF KidsWait
  <2> QED
    BY <2>1, <2>3 DEF StepOf
<1>6. IdleReplays'
  BY <1>1, <1>2 DEF IdleReplays, StepOf
<1>7. ClosedAreSpent'
  <2> SUFFICES ASSUME NEW d \in Coroutine, ClosesOf(d)' # {} PROVE SpentAt(d)'
    BY DEF ClosedAreSpent
  <2>1. CASE d # c
    <3>1. SpentAt(d)
      BY <1>1, <1>2, <2>1, ClosesFacts DEF ClosedAreSpent
    <3>2. WasClosed(d)' <=> WasClosed(d)
      BY <1>2, ClosesFacts
    <3> QED
      BY <2>1, <3>1, <3>2 DEF SpentAt, StepOf
  <2>2. CASE d = c /\ pc[c] # "write"
    <3>1. SpentAt(c)
      BY <1>1, <1>2, <2>2, ClosesFacts DEF ClosedAreSpent
    <3> QED
      BY <2>2, <3>1 DEF SpentAt, StepOf
  <2>3. CASE d = c /\ pc[c] = "write"
    <3>1. ClosesOf(c) = {}
      BY <1>1, <1>2, <2>3 DEF ClosedAreSpent, SpentAt
    <3>2. BackendStores(c)
      BY <2>3, <3>1 DEF StepOf, ClosesOf
    <3>3. pending[c].type = "close" /\ pc'[c] = "stored" /\ pending' = pending
      BY <1>2, <2>3, <3>1, <3>2, StoreFacts DEF ClosesOf
    <3> QED
      BY <2>3, <3>3 DEF SpentAt
  <2> QED
    BY <2>1, <2>2, <2>3
<1>8. JoinsWhatRuns'
  BY <1>2, StepKeepsJoins
<1>9. ClosedIsFinal'
  <2>1. CASE journal' = journal
    BY <1>2, <2>1 DEF ClosedIsFinal, ClosesOf
  <2>2. CASE BackendStores(c)
    <3>1. pc[c] = "write"
      BY <1>2, <2>2, StoreFacts
    <3>2. ClosesOf(c) = {}
      BY <1>1, <1>2, <3>1 DEF ClosedAreSpent, SpentAt
    <3>3. ASSUME NEW d \in Coroutine, NEW i \in ClosesOf(d)', NEW j \in DOMAIN journal',
                 journal'[j].co = d
          PROVE  j <= i
      <4>1. CASE d # c
        BY <1>2, <2>2, <3>3, <4>1, StoreFacts, ClosesFacts DEF ClosedIsFinal, ClosesOf
      <4>2. CASE d = c
        BY <1>2, <2>2, <3>2, <3>3, <4>2, StoreFacts DEF ClosesOf
      <4> QED
        BY <4>1, <4>2
    <3> QED
      BY <3>3 DEF ClosedIsFinal
  <2> QED
    BY <2>1, <2>2 DEF StepOf
<1>10. RetainedIsJournaled'
  <2>1. RootTerminals \subseteq RootTerminals'
    <3>1. CASE journal' = journal
      BY <3>1 DEF RootTerminals
    <3>2. CASE BackendStores(c)
      BY <1>2, <3>2, StoreFacts DEF RootTerminals
    <3> QED
      BY <3>1, <3>2 DEF StepOf
  <2>2. CASE retained' = retained
    BY <1>2, <2>1, <2>2 DEF RetainedIsJournaled
  <2>3. CASE AckClose(c) /\ c = Root /\ retained' = pending[c].status
    <3>1. pc[c] = "stored" /\ pending[c].type = "close"
      BY <2>3 DEF AckClose
    <3>2. PICK i \in DOMAIN journal : journal[i] = pending[c]
      BY <1>2, <3>1 DEF StoredIsJournaled
    <3>3. pending[c].co = Root
      BY <1>2, <2>3, <3>1 DEF OwnEvents, Appending
    <3>4. retained' \in RootTerminals
      BY <2>3, <3>1, <3>2, <3>3 DEF RootTerminals
    <3> QED
      BY <2>1, <3>4 DEF RetainedIsJournaled
  <2> QED
    BY <2>2, <2>3 DEF StepOf
<1> QED
  BY <1>3, <1>4, <1>5, <1>6, <1>7, <1>8, <1>9, <1>10 DEF ControlInv

------------------------------------------------------------------------------
(* Steps of more than one coroutine, and processes.                        *)

LEMMA ForkFacts ==
  ASSUME RunInv, KidsWait, NEW c \in Coroutine, Fork(c)
  PROVE  /\ run = "up" /\ pc[c] = "ready" /\ pc'[c] = "join" /\ pos[c] \in DOMAIN def[c]
         /\ \A k \in At(c).kids : pc[k] = "idle" /\ k \in Coroutine \ {c}
         /\ \A k \in At(c).kids :
              IF HasClose(k) THEN pc'[k] \in {"parked", "ended"} ELSE pc'[k] = "ready"
         /\ \A d \in Coroutine \ {c} : d \notin At(c).kids => pc'[d] = pc[d]
         /\ UNCHANGED <<journal, indexed, cursors, disabled, run, def, pos, pending,
                        failure, root, seen>>
<1>1. pc \in [Coroutine -> PC] /\ pos \in [Coroutine -> Nat]
  BY Typed
<1>2. /\ run = "up" /\ pc[c] = "ready" /\ pos[c] \in DOMAIN def[c]
      /\ UNCHANGED <<journal, indexed, cursors, disabled, run, def, pos, pending,
                     failure, root, seen>>
  BY AtAStep DEF Fork, Forks, Ready, Moves, ClaimAll
<1>3. \A k \in At(c).kids : pc[k] = "idle" /\ k \in Coroutine
  BY <1>1, <1>2, KidsAreBeneath DEF KidsWait, At
<1>4. \A k \in At(c).kids : k # c
  BY <1>2, <1>3
<1>5. pc' = [d \in Coroutine |->
               IF d = c THEN "join"
               ELSE IF d \notin At(c).kids THEN pc[d]
               ELSE IF Restores(d, "cancelled") THEN "parked"
               ELSE IF HasClose(d) THEN "ended"
               ELSE "ready"]
  BY DEF Fork
<1>6. \A k \in At(c).kids : Restores(k, "cancelled") => HasClose(k)
  BY DEF Restores
<1> QED
  BY <1>2, <1>3, <1>4, <1>5, <1>6

LEMMA ForkKeepsControl ==
  ASSUME RunInv, ControlInv, NEW c \in Coroutine, Fork(c)
  PROVE  ControlInv'
<1>1. OwnEvents /\ StoredIsJournaled /\ KidsWait /\ IdleReplays /\ ClosedAreSpent
      /\ JoinsWhatRuns /\ ClosedIsFinal /\ RetainedIsJournaled
  BY DEF ControlInv
<1>2. /\ run = "up" /\ pc[c] = "ready" /\ pc'[c] = "join" /\ pos[c] \in DOMAIN def[c]
      /\ \A k \in At(c).kids : pc[k] = "idle" /\ k \in Coroutine \ {c}
      /\ \A k \in At(c).kids :
           IF HasClose(k) THEN pc'[k] \in {"parked", "ended"} ELSE pc'[k] = "ready"
      /\ \A d \in Coroutine \ {c} : d \notin At(c).kids => pc'[d] = pc[d]
  BY <1>1, ForkFacts
<1>3. UNCHANGED <<journal, indexed, cursors, disabled, run, def, pos, pending,
                  failure, root, seen>>
  BY <1>1, ForkFacts
<1>4. \A d \in Coroutine : pc'[d] = pc[d] \/ pc'[d] \in {"join", "parked", "ended", "ready"}
  BY <1>2
<1>5. OwnEvents' /\ StoredIsJournaled'
  BY <1>1, <1>3, <1>4 DEF OwnEvents, StoredIsJournaled, Appending
<1>6. KidsWait'
  <2> SUFFICES ASSUME NEW p \in Coroutine, NEW i \in DOMAIN def[p],
                      i > pos[p] \/ (i = pos[p] /\ pc'[p] \in {"idle", "ready"}),
                      NEW k \in def[p][i].kids
               PROVE  pc'[k] = "idle"
    BY <1>3 DEF KidsWait
  <2>1. i > pos[p] \/ (i = pos[p] /\ pc[p] \in {"idle", "ready"})
    BY <1>2
  <2>2. pc[k] = "idle" /\ k \in Coroutine /\ k # c
    BY <1>1, <1>2, <2>1, KidsAreBeneath DEF KidsWait
  <2>3. k \notin At(c).kids
    <3>1. SUFFICES ASSUME k \in def[c][pos[c]].kids PROVE FALSE
      BY <3>1 DEF At
    <3>2. p = c /\ i = pos[c]
      BY <1>2, <3>1, KidsAreBeneath
    <3>3. pos[c] \in Nat
      BY Typed
    <3> QED
      BY <1>2, <3>2, <3>3
  <2> QED
    BY <1>2, <2>2, <2>3
<1>7. IdleReplays'
  BY <1>1, <1>2, <1>3 DEF IdleReplays
<1>8. ClosedAreSpent'
  <2> SUFFICES ASSUME NEW d \in Coroutine, ClosesOf(d) # {} PROVE SpentAt(d)'
    BY <1>3 DEF ClosedAreSpent, ClosesOf
  <2>1. SpentAt(d)
    BY <1>1, <1>2 DEF ClosedAreSpent
  <2>2. d # c
    BY <1>2, <2>1 DEF SpentAt
  <2>3. CASE d \in At(c).kids
    <3>1. WasClosed(d) /\ d \notin disabled
      BY <1>1, <1>2, <2>1, <2>3 DEF SpentAt, IdleReplays
    <3> QED
      BY <1>2, <2>3, <3>1 DEF SpentAt, HasClose
  <2>4. CASE d \notin At(c).kids
    <3>1. WasClosed(d)' <=> WasClosed(d)
      BY <1>3 DEF WasClosed, RetainedCloses
    <3> QED
      BY <1>2, <1>3, <2>1, <2>2, <2>4, <3>1 DEF SpentAt, root
  <2> QED
    BY <2>3, <2>4
<1>9. JoinsWhatRuns'
  <2> SUFFICES ASSUME NEW p \in Coroutine, NEW d \in Subtree[p] \ {p}, ~Gone(d)'
               PROVE  pc'[p] = "join" /\ \E k \in def[p][pos[p]].kids : d \in Subtree[k]
    BY <1>3 DEF JoinsWhatRuns, At
  <2>1. d \in Coroutine /\ p # d
    BY TreeAssumption DEF TreeAssumption
  <2>2. CASE d \notin At(c).kids
    <3>1. ~Gone(d)
      BY <1>2, <2>1, <2>2 DEF Gone
    <3>2. pc[p] = "join" /\ \E k \in def[p][pos[p]].kids : d \in Subtree[k]
      BY <1>1, <1>2, <3>1 DEF JoinsWhatRuns, At
    <3> QED
      BY <1>2, <3>2
  <2>3. CASE d \in At(c).kids
    <3>1. c \in Subtree[p] /\ d \in Subtree[c] /\ d \in Subtree[d]
      BY <1>2, <2>1, <2>3, KidsAreBeneath, TreeAssumption DEF At, TreeAssumption
    <3>2. CASE p = c
      BY <1>2, <2>3, <3>1, <3>2 DEF At
    <3>3. CASE p # c
      <4>1. ~Gone(c)
        BY <1>2 DEF Gone
      <4>2. pc[p] = "join" /\ \E k \in def[p][pos[p]].kids : c \in Subtree[k]
        BY <1>1, <1>2, <3>1, <3>3, <4>1 DEF JoinsWhatRuns, At
      <4>3. PICK k \in def[p][pos[p]].kids : c \in Subtree[k]
        BY <4>2
      <4>4. pos[p] \in DOMAIN def[p]
        BY <4>2 DEF RunInv, Busy, BusyAt
      <4>5. d \in Subtree[k]
        BY <3>1, <4>3, <4>4, KidsAreBeneath, TreeAssumption DEF TreeAssumption
      <4> QED
        BY <1>2, <4>2, <4>5
    <3> QED
      BY <3>2, <3>3
  <2> QED
    BY <2>2, <2>3
<1>10. ClosedIsFinal' /\ RetainedIsJournaled'
  BY <1>1, <1>3 DEF ClosedIsFinal, ClosesOf, RetainedIsJournaled, RootTerminals, root
<1> QED
  BY <1>5, <1>6, <1>7, <1>8, <1>9, <1>10 DEF ControlInv

\* The kids of a definition are not the root.
LEMMA RootIsNoKid ==
  ASSUME NEW d \in Definition, NEW p \in Coroutine, NEW i \in DOMAIN d[p],
         NEW k \in d[p][i].kids
  PROVE  k # Root
<1>1. d[p] \in Seq(Step)
  BY DefinitionAssumption DEF DefinitionAssumption
<1>2. d[p][i] \in Step
  BY <1>1
<1> QED
  BY <1>2 DEF Step

\* A process that is down or restored runs nothing.
LEMMA NothingRuns ==
  ASSUME pc' = [c \in Coroutine |-> "idle"], run' # "up", journal' = journal,
         ClosedIsFinal, RetainedIsJournaled'
  PROVE  ControlInv'
<1>1. \A c \in Coroutine : pc'[c] = "idle"
  OBVIOUS
<1>2. ClosedIsFinal'
  BY DEF ClosedIsFinal, ClosesOf
<1> QED
  BY <1>1, <1>2 DEF ControlInv, OwnEvents, StoredIsJournaled, KidsWait, IdleReplays,
     ClosedAreSpent, JoinsWhatRuns, Appending

LEMMA ProcessesKeepControl ==
  ASSUME RunInv, ControlInv, RequestInterruption \/ Halt \/ Start \/ Restore \/ Crash
  PROVE  ControlInv'
<1>1. OwnEvents /\ StoredIsJournaled /\ KidsWait /\ IdleReplays /\ ClosedAreSpent
      /\ JoinsWhatRuns /\ ClosedIsFinal /\ RetainedIsJournaled
  BY DEF ControlInv
<1>2. ASSUME RequestInterruption \/ Halt PROVE ControlInv'
  <2>1. /\ UNCHANGED <<journal, indexVars, run, def, pc, pos, pending, retained>>
        /\ phase' = phase \/ phase = "open"
    BY <1>2 DEF RequestInterruption, Halt, root
  <2>2. \A c \in Coroutine : WasClosed(c)' <=> WasClosed(c)
    BY <2>1 DEF WasClosed, RetainedCloses, indexVars
  <2>3. ClosedAreSpent'
    BY <1>1, <2>1, <2>2 DEF ClosedAreSpent, SpentAt, ClosesOf
  <2>4. JoinsWhatRuns'
    BY <1>1, <2>1 DEF JoinsWhatRuns, Gone, At
  <2>5. OwnEvents' /\ StoredIsJournaled' /\ KidsWait' /\ IdleReplays'
    BY <1>1, <2>1 DEF OwnEvents, StoredIsJournaled, KidsWait, IdleReplays, indexVars
  <2>6. ClosedIsFinal' /\ RetainedIsJournaled'
    BY <1>1, <2>1 DEF ClosedIsFinal, ClosesOf, RetainedIsJournaled, RootTerminals
  <2> QED
    BY <2>3, <2>4, <2>5, <2>6 DEF ControlInv
<1>3. ASSUME Start PROVE ControlInv'
  <2>1. /\ journal' = journal /\ indexed' = Len(journal) /\ disabled' = {}
        /\ run' = "up" /\ retained' = "none" /\ RootTerminals = {} /\ def' \in Definition
        /\ pc' = [c \in Coroutine |-> IF c = Root THEN "ready" ELSE "idle"]
    BY <1>3 DEF Start, BuildIndex
  <2>2. DOMAIN journal = 1 .. Len(journal)
    BY Typed, LenProperties
  <2>3. OwnEvents' /\ StoredIsJournaled' /\ IdleReplays'
    BY <2>1 DEF OwnEvents, StoredIsJournaled, IdleReplays, Appending
  <2>4. KidsWait'
    <3>1. ASSUME NEW p \in Coroutine, NEW i \in DOMAIN def'[p], NEW k \in def'[p][i].kids
          PROVE  pc'[k] = "idle"
      BY <2>1, RootIsNoKid, ChildrenAssumption, TreeAssumption
         DEF ChildrenAssumption, TreeAssumption
    <3> QED
      BY <3>1 DEF KidsWait
  <2>5. ClosedAreSpent'
    <3> SUFFICES ASSUME NEW c \in Coroutine, ClosesOf(c) # {} PROVE SpentAt(c)'
      BY <2>1 DEF ClosedAreSpent, ClosesOf
    <3>1. c # Root
      BY <2>1 DEF ClosesOf, RootTerminals
    <3>2. WasClosed(c)'
      BY <2>1, <2>2 DEF WasClosed, RetainedCloses, ClosesOf
    <3> QED
      BY <2>1, <3>1, <3>2 DEF SpentAt
  <2>6. JoinsWhatRuns'
    <3>1. ASSUME NEW p \in Coroutine, NEW d \in Subtree[p] \ {p} PROVE pc'[d] = "idle"
      BY <2>1, TreeAssumption DEF TreeAssumption
    <3> QED
      BY <3>1 DEF JoinsWhatRuns, Gone
  <2>7. ClosedIsFinal' /\ RetainedIsJournaled'
    BY <1>1, <2>1 DEF ClosedIsFinal, ClosesOf, RetainedIsJournaled
  <2> QED
    BY <2>3, <2>4, <2>5, <2>6, <2>7 DEF ControlInv
<1>4. ASSUME Restore PROVE ControlInv'
  <2>1. RetainedIsJournaled'
    BY <1>4 DEF Restore, RetainedIsJournaled, RootTerminals
  <2> QED
    BY <1>1, <1>4, <2>1, NothingRuns DEF Restore
<1>5. ASSUME Crash PROVE ControlInv'
  BY <1>1, <1>5, NothingRuns DEF Crash, RetainedIsJournaled
<1> QED
  BY <1>2, <1>3, <1>4, <1>5

LEMMA ControlStep == RunInv /\ ControlInv /\ [Next]_vars => ControlInv'
<1> SUFFICES ASSUME RunInv, ControlInv, [Next]_vars PROVE ControlInv'
  OBVIOUS
<1>1. ASSUME Progress PROVE ControlInv'
  <2>1. CASE RootSteps
    BY <2>1, RootIsCoroutine, RootStepsAreSteps, StepKeepsControl
  <2>2. ASSUME NEW c \in Coroutine, Effects(c) \/ Appends(c) \/ Children(c)
        PROVE  ControlInv'
    BY <2>2, EffectsAreSteps, AppendsAreSteps, ChildrenAreSteps, StepKeepsControl,
       ForkKeepsControl
  <2> QED
    BY <1>1, <2>1, <2>2 DEF Progress
<1>2. ASSUME UNCHANGED vars PROVE ControlInv'
  <2>1. UNCHANGED <<journal, indexVars, run, def, pc, pos, pending, root>>
    BY <1>2 DEF vars
  <2>2. \A c \in Coroutine : WasClosed(c)' <=> WasClosed(c)
    BY <2>1 DEF WasClosed, RetainedCloses, indexVars
  <2>3. ClosedAreSpent'
    BY <2>1, <2>2 DEF ControlInv, ClosedAreSpent, SpentAt, ClosesOf, root
  <2> QED
    BY <2>1, <2>3 DEF ControlInv, OwnEvents, StoredIsJournaled, KidsWait, IdleReplays,
       JoinsWhatRuns, ClosedIsFinal, RetainedIsJournaled, Gone, At, ClosesOf,
       RootTerminals, indexVars, root
<1> QED
  BY <1>1, <1>2, ProcessesKeepControl DEF Next, Finished

LEMMA ControlInit ==
  ASSUME Init
  PROVE  ControlInv
<1>1. /\ journal = <<>> /\ run = "down" /\ retained = "none"
      /\ \A c \in Coroutine : pc[c] = "idle"
  BY DEF Init, IndexInit
<1> QED
  BY <1>1 DEF ControlInv, OwnEvents, StoredIsJournaled, KidsWait, IdleReplays,
     ClosedAreSpent, JoinsWhatRuns, ClosedIsFinal, RetainedIsJournaled, ClosesOf, Appending

LEMMA ControlInvariant == Spec => []ControlInv
<1>1. Init => ControlInv
  BY ControlInit
<1> QED
  BY <1>1, ControlStep, RunInvariant, PTL DEF Spec

\* A coroutine closes once and nothing of it follows its Close, however often the run
\* is started over, crashes, is stopped or halted, and whatever definition it is
\* started with.
THEOREM RunClosedIsFinal == Spec => []ClosedIsFinal
<1>1. ControlInv => ClosedIsFinal
  BY DEF ControlInv
<1> QED
  BY <1>1, ControlInvariant, PTL

\* The terminal a run reports is in its journal: a close is acknowledged only after it
\* was stored, and a restored terminal is read from what was retained.
THEOREM RunRetainedIsJournaled == Spec => []RetainedIsJournaled
<1>1. ControlInv => RetainedIsJournaled
  BY DEF ControlInv
<1> QED
  BY <1>1, ControlInvariant, PTL

\* A combinator returns, and a halted coroutine unwinds, only when nothing beneath it
\* runs any more.
THEOREM RunJoinsWhatRuns == Spec => []JoinsWhatRuns
<1>1. ControlInv => JoinsWhatRuns
  BY DEF ControlInv
<1> QED
  BY <1>1, ControlInvariant, PTL

------------------------------------------------------------------------------
(* Leaves close first.  A refused append leaves a coroutine without the    *)
(* Close it should have, and run-live leaves retained history unreached:   *)
(* what follows is about runs with neither.                                *)

EventsOf(c) == {j \in DOMAIN journal : journal[j].co = c}
Settled(c) == EventsOf(c) # {} => ClosesOf(c) # {}
SettledBeneath(c) == \A d \in Subtree[c] \ {c} : Settled(d)

\* c is writing its Close, or is a child whose body ended and that will.
Closes(c) ==
  \/ pc[c] \in {"turn", "write"} /\ pending[c].type = "close"
  \/ /\ pc[c] = "closing" /\ c # Root
     /\ outcome[c] \in {"ok", "err"} /\ failure = "none"

ReplayIsOn == run = "up" => disabled = {}

\* A coroutine that does not run yet has read nothing and written nothing.
IdleIsUntouched ==
  run = "up" =>
    \A d \in Coroutine :
      pc[d] = "idle" => cursors[d] = 0 /\ \A j \in EventsOf(d) : j <= indexed

EndedIsClosed ==
  (run = "up" /\ failure = "none") =>
    \A d \in Coroutine \ {Root} : pc[d] \in {"ended", "parked"} => ClosesOf(d) # {}

CloseIsLast == run = "up" => \A c \in Coroutine : Closes(c) => SettledBeneath(c)

LeafInv ==
  ReplayIsOn /\ IdleIsUntouched /\ EndedIsClosed /\ CloseIsLast /\ LeafFirst

\* Where the root's close is not refused no ending is written twice, and a claimed root
\* has no err on its way to the journal.
NeverCompensates == run = "up" => pc[Root] # "compensate"
NoErrIsWritten ==
  accepted => /\ retained # "err"
              /\ pending[Root].type = "close" => pending[Root].status # "err"

ErrInv == NeverCompensates /\ NoErrIsWritten

\* A step of c that does not turn an ending into an err.
ErrStep(c) ==
  /\ pc'[c] # "compensate"
  /\ accepted' = accepted
  /\ (c = Root /\ pending'[c].type = "close") =>
       pending'[c] = pending[c] \/ phase = "open" \/ pending'[c].status # "err"

\* What a step of c leaves alone, and when it may begin to close.
LeafStep(c) ==
  /\ ErrStep(c)
  /\ disabled' = disabled \/ RunLive(c)
  /\ \A d \in Coroutine \ {c} : cursors'[d] = cursors[d] /\ outcome'[d] = outcome[d]
  /\ failure' = "none" => failure = "none"
  /\ (failure' = "none" /\ pc'[c] \in {"ended", "parked"} /\ c # Root) =>
       pc[c] = "parked" \/ AckClose(c)
  /\ Closes(c)' => Closes(c) \/ (pc[c] # "join" /\ failure = "none" /\ ~Unaligned(c))

LEMMA LeafTyped ==
  ASSUME RunInv
  PROVE  /\ pc \in [Coroutine -> PC] /\ pos \in [Coroutine -> Nat]
         /\ pending \in [Coroutine -> Event \cup {NoEvent}]
         /\ outcome \in [Coroutine -> Status \cup {"none", "torn"}]
         /\ cursors \in [Coroutine -> Nat]
         /\ failure \in {"none", "divergence", "stale", "persistence"}
  BY DEF RunInv, TypeOK, IndexTypeOK

LEMMA EffectsAreLeafSteps ==
  ASSUME RunInv, NEW c \in Coroutine, Effects(c)
  PROVE  LeafStep(c)
<1>1. /\ pc \in [Coroutine -> PC] /\ pos \in [Coroutine -> Nat]
      /\ pending \in [Coroutine -> Event \cup {NoEvent}]
      /\ cursors \in [Coroutine -> Nat]
  BY LeafTyped
<1>2. ASSUME NEW s, Resume(c, s), failure' = "none" => failure = "none",
             \A d \in Coroutine \ {c} : cursors'[d] = cursors[d],
             UNCHANGED <<disabled, outcome, pending, accepted>>
      PROVE  LeafStep(c)
  BY <1>1, <1>2 DEF Resume, LeafStep, ErrStep, Closes
<1>3. ASSUME CallRefused(c) PROVE LeafStep(c)
  BY <1>2, <1>3 DEF CallRefused, indexVars, root
<1>4. ASSUME Replay(c) PROVE LeafStep(c)
  BY <1>1, <1>2, <1>4 DEF Replay, ConsumeYield, root
<1>5. ASSUME ReplayStale(c) PROVE LeafStep(c)
  BY <1>1, <1>2, <1>5 DEF ReplayStale, ConsumeYield, root
<1>6. ASSUME Diverge(c) PROVE LeafStep(c)
  BY <1>2, <1>6 DEF Diverge, indexVars, root
<1>7. ASSUME GoLive(c) PROVE LeafStep(c)
  BY <1>1, <1>7 DEF GoLive, indexVars, LeafStep, ErrStep, Closes, root
<1>8. ASSUME Execute(c) PROVE LeafStep(c)
  <2>1. PICK s \in Outcomes : BeginAppend(c, YieldOf(c, At(c).name, s))
    BY <1>8 DEF Execute
  <2>2. pending'[c].type = "yield" /\ pc'[c] = "turn"
    BY <1>1, <2>1 DEF BeginAppend, YieldOf
  <2> QED
    BY <1>8, <2>2 DEF Execute, indexVars, LeafStep, ErrStep, Closes, root
<1>9. ASSUME ExecuteTooLate(c) PROVE LeafStep(c)
  BY <1>2, <1>9 DEF ExecuteTooLate, indexVars, root
<1>10. ASSUME RunLive(c) PROVE LeafStep(c)
  <2>1. /\ UNCHANGED <<cursors, outcome, failure, pending, accepted>>
        /\ pc'[c] = "live"
    BY <1>1, <1>10 DEF RunLive, DisableReplay, root
  <2> QED
    BY <1>1, <1>10, <2>1 DEF LeafStep, ErrStep, Closes
<1> QED
  BY <1>3, <1>4, <1>5, <1>6, <1>7, <1>8, <1>9, <1>10 DEF Effects

LEMMA AppendsAreLeafSteps ==
  ASSUME RunInv, Refusable = {}, NEW c \in Coroutine, Appends(c)
  PROVE  LeafStep(c)
<1>1. /\ pc \in [Coroutine -> PC] /\ pos \in [Coroutine -> Nat]
      /\ pending \in [Coroutine -> Event \cup {NoEvent}]
      /\ outcome \in [Coroutine -> Status \cup {"none", "torn"}]
  BY LeafTyped
<1>2. ASSUME AppendRaised(c, FALSE), failure' # "none",
             UNCHANGED <<disabled, cursors>>
      PROVE  LeafStep(c)
  <2>1. /\ pending' = [pending EXCEPT ![c] = NoEvent] /\ accepted' = accepted
        /\ pc'[c] \in {"ready", "threw", "ended"}
        /\ \A d \in Coroutine \ {c} : outcome'[d] = outcome[d]
    BY <1>1, <1>2 DEF AppendRaised, Resume
  <2> QED
    BY <1>1, <1>2, <2>1 DEF LeafStep, ErrStep, Closes, NoEvent
<1>3. ASSUME Admit(c) PROVE LeafStep(c)
  BY <1>1, <1>3 DEF Admit, indexVars, LeafStep, ErrStep, Closes, root
<1>4. ASSUME RefuseAdmission(c) PROVE LeafStep(c)
  BY <1>2, <1>4 DEF RefuseAdmission, indexVars
<1>5. ASSUME BackendStores(c) PROVE LeafStep(c)
  BY <1>1, <1>5 DEF BackendStores, indexVars, LeafStep, ErrStep, Closes, root
<1>6. ASSUME BackendFailed(c) PROVE LeafStep(c)
  BY <1>2, <1>6 DEF BackendFailed, indexVars
<1>7. ASSUME AckYield(c) PROVE LeafStep(c)
  BY <1>1, <1>7 DEF AckYield, Resume, indexVars, LeafStep, ErrStep, Closes, root, NoEvent
<1>8. ASSUME AckClose(c) PROVE LeafStep(c)
  BY <1>1, <1>8 DEF AckClose, indexVars, LeafStep, ErrStep, Closes, root, NoEvent
<1> QED
  BY <1>3, <1>4, <1>5, <1>6, <1>7, <1>8 DEF Appends, GateRefuses

LEMMA ChildrenAreLeafSteps ==
  ASSUME RunInv, NEW c \in Coroutine, Children(c), ~Fork(c)
  PROVE  LeafStep(c)
<1>1. /\ pc \in [Coroutine -> PC] /\ pos \in [Coroutine -> Nat]
      /\ pending \in [Coroutine -> Event \cup {NoEvent}]
      /\ outcome \in [Coroutine -> Status \cup {"none", "torn"}]
  BY LeafTyped
<1>2. ASSUME ChildEnds(c) PROVE LeafStep(c)
  BY <1>1, <1>2 DEF ChildEnds, BodyEnds, Ready, indexVars, LeafStep, ErrStep, Closes, root
<1>3. ASSUME ChildEndsUnclosed(c) PROVE LeafStep(c)
  BY <1>1, <1>3 DEF ChildEndsUnclosed, indexVars, LeafStep, ErrStep, Closes, root
<1>4. ASSUME CancelledUnaligned(c) PROVE LeafStep(c)
  BY <1>1, <1>4 DEF CancelledUnaligned, indexVars, LeafStep, ErrStep, Closes, root
<1>5. ASSUME CloseChild(c) PROVE LeafStep(c)
  <2>1. outcome[c] \in Status
    BY <1>5 DEF CloseChild, RunInv, Busy, BusyAt
  <2>2. Closes(c) \/ ~Unaligned(c)
    BY <1>5, <2>1 DEF CloseChild, Closes, Status
  <2> QED
    BY <1>1, <1>5, <2>2 DEF CloseChild, BeginAppend, indexVars, LeafStep, ErrStep, root
<1>6. ASSUME Decide(c) PROVE LeafStep(c)
  BY <1>1, <1>6 DEF Decide, indexVars, LeafStep, ErrStep, Closes, root
<1>7. ASSUME Join(c) PROVE LeafStep(c)
  BY <1>1, <1>7 DEF Join, Resume, indexVars, LeafStep, ErrStep, Closes, root
<1>8. ASSUME Unwind(c) PROVE LeafStep(c)
  BY <1>1, <1>8 DEF Unwind, indexVars, LeafStep, ErrStep, Closes, root, NoEvent
<1> QED
  BY <1>2, <1>3, <1>4, <1>5, <1>6, <1>7, <1>8 DEF Children

LEMMA RootStepsAreLeafSteps ==
  ASSUME RunInv, NeverCompensates, RootSteps
  PROVE  LeafStep(Root)
<1>1. /\ pc \in [Coroutine -> PC] /\ Root \in Coroutine
      /\ pending \in [Coroutine -> Event \cup {NoEvent}]
  BY LeafTyped, RootIsCoroutine
<1>2. /\ run = "up" /\ pc[Root] \in {"ready", "threw", "closing"}
      /\ UNCHANGED <<disabled, cursors, outcome, accepted>>
      /\ failure' = "none" => failure = "none"
  BY DEF RootSteps, RootReturns, RootThrows, RootCompensates, RootFinalizes, BodyEnds,
     Ready, Moves, indexVars, NeverCompensates
<1>3. pending[Root] = NoEvent
  BY <1>1, <1>2 DEF RunInv, Busy, BusyAt
<1>4. ASSUME pc' = [pc EXCEPT ![Root] = "ended"] \/ pc' = [pc EXCEPT ![Root] = "closing"],
             pending' = pending
      PROVE  LeafStep(Root)
  BY <1>1, <1>2, <1>3, <1>4 DEF LeafStep, ErrStep, Closes, NoEvent
<1>5. ASSUME NEW s, BeginAppend(Root, CloseOf(Root, s)), failure = "none",
             ~Unaligned(Root), phase = "open" \/ s # "err"
      PROVE  LeafStep(Root)
  BY <1>1, <1>2, <1>5 DEF BeginAppend, CloseOf, LeafStep, ErrStep
<1>6. ASSUME RootReturns PROVE LeafStep(Root)
  BY <1>4, <1>5, <1>6 DEF RootReturns, RootEnds
<1>7. ASSUME RootThrows PROVE LeafStep(Root)
  <2>1. pc[Root] \in {"ready", "threw"}
    BY <1>7 DEF RootThrows, BodyEnds, Ready
  <2>2. phase \in {"open", "claimed"}
    BY <2>1 DEF RunInv, RootPhase
  <2> QED
    BY <1>4, <1>5, <1>7, <2>2 DEF RootThrows, RootEnds
<1>8. ASSUME RootFinalizes PROVE LeafStep(Root)
  BY <1>4, <1>5, <1>8 DEF RootFinalizes, RootEnds
<1> QED
  BY <1>2, <1>6, <1>7, <1>8 DEF RootSteps, RootCompensates

\* What the host may refuse short of the root's own ending.
LEMMA AppendsAreErrSteps ==
  ASSUME RunInv, \A e \in Refusable : ~(e.type = "close" /\ e.co = Root), OwnEvents,
         NEW c \in Coroutine, Appends(c)
  PROVE  ErrStep(c)
<1>1. /\ pc \in [Coroutine -> PC] /\ pos \in [Coroutine -> Nat]
      /\ pending \in [Coroutine -> Event \cup {NoEvent}]
  BY LeafTyped
<1>2. ASSUME NEW ordinary, AppendRaised(c, ordinary),
             ~(ordinary /\ c = Root /\ pending[c].type = "close")
      PROVE  ErrStep(c)
  <2>1. /\ pending' = [pending EXCEPT ![c] = NoEvent] /\ accepted' = accepted
        /\ pc'[c] \in {"ready", "threw", "ended"}
    BY <1>1, <1>2 DEF AppendRaised, Resume
  <2> QED
    BY <1>1, <2>1 DEF ErrStep, NoEvent
<1>3. ASSUME GateRefuses(c) PROVE ErrStep(c)
  BY <1>2, <1>3 DEF GateRefuses, OwnEvents, Appending
<1>4. ASSUME RefuseAdmission(c) PROVE ErrStep(c)
  BY <1>2, <1>4 DEF RefuseAdmission
<1>5. ASSUME BackendFailed(c) PROVE ErrStep(c)
  BY <1>2, <1>5 DEF BackendFailed
<1>6. ASSUME Admit(c) \/ BackendStores(c) PROVE ErrStep(c)
  BY <1>1, <1>6 DEF Admit, BackendStores, ErrStep, root
<1>7. ASSUME AckYield(c) \/ AckClose(c) PROVE ErrStep(c)
  BY <1>1, <1>7 DEF AckYield, AckClose, Resume, ErrStep, root, NoEvent
<1> QED
  BY <1>3, <1>4, <1>5, <1>6, <1>7 DEF Appends

\* A coroutine with no history left beneath it, and nothing running there, has only
\* closed coroutines beneath it.
LEMMA AlignedBeneath ==
  ASSUME RunInv, ControlInv, LeafInv, run = "up", failure = "none",
         NEW c \in Coroutine, pc[c] # "join", ~Unaligned(c)
  PROVE  SettledBeneath(c)
<1> SUFFICES ASSUME NEW d \in Subtree[c] \ {c}, EventsOf(d) # {}, ClosesOf(d) = {}
             PROVE  FALSE
  BY DEF SettledBeneath, Settled
<1>1. /\ journal \in Seq(Event) /\ indexed \in 0 .. Len(journal) /\ Len(journal) \in Nat
      /\ DOMAIN journal = 1 .. Len(journal)
  BY Typed, LenProperties
<1>2. d \in Coroutine /\ d # Root
  BY TreeAssumption DEF TreeAssumption
<1>3. Gone(d)
  BY <1>2 DEF ControlInv, JoinsWhatRuns
<1>4. cursors[d] = 0 /\ \A j \in EventsOf(d) : j <= indexed
  BY <1>2, <1>3 DEF LeafInv, EndedIsClosed, IdleIsUntouched, Gone
<1>5. PICK j \in DOMAIN journal : journal[j].co = d /\ j \in 1 .. indexed
  BY <1>1, <1>4 DEF EventsOf
<1>6. ~WasClosed(d)
  BY <1>1 DEF WasClosed, RetainedCloses, ClosesOf
<1>7. journal[j] \in YieldEvents(d)
  <2>1. journal[j] \in Event /\ journal[j].type # "close"
    BY <1>1, <1>5, ElementOfSeq DEF ClosesOf
  <2> QED
    BY <1>5, <2>1 DEF Event, YieldEvents
<1>8. /\ Retained \in Seq(Event) /\ Len(Retained) = indexed
      /\ Retained[j] = journal[j]
  BY <1>1, <1>5, SubSeqProperties DEF Retained
<1>9. Yields(d) # <<>> /\ Yields(d) \in Seq(Event \cap YieldEvents(d))
  BY <1>5, <1>7, <1>8, PickedNotEmpty, PickedType DEF Yields, YieldsIn
<1>10. 0 < Len(Yields(d))
  BY <1>9, LenProperties, EmptySeq
<1> QED
  BY <1>4, <1>6, <1>10 DEF Unaligned, LeafInv, ReplayIsOn

\* Nothing is appended beneath a coroutine that is not waiting for its children.
LEMMA SettledStays ==
  ASSUME RunInv, ControlInv, NEW c \in Coroutine, StepOf(c),
         NEW p \in Coroutine, pc[p] # "join", SettledBeneath(p)
  PROVE  SettledBeneath(p)'
<1> SUFFICES ASSUME NEW d \in Subtree[p] \ {p}, EventsOf(d)' # {}
             PROVE  ClosesOf(d)' # {}
  BY DEF SettledBeneath, Settled
<1>1. d \in Coroutine /\ run = "up" /\ pc[c] \notin {"idle", "ended"}
  BY TreeAssumption DEF TreeAssumption, StepOf
<1>2. d # c
  BY <1>1 DEF ControlInv, JoinsWhatRuns, Gone
<1>3. EventsOf(d)' = EventsOf(d)
  <2>1. CASE journal' = journal
    BY <2>1 DEF EventsOf
  <2>2. CASE BackendStores(c)
    BY <1>2, <2>2, StoreFacts DEF ControlInv, EventsOf
  <2> QED
    BY <2>1, <2>2 DEF StepOf
<1>4. ClosesOf(d)' = ClosesOf(d)
  BY <1>1, <1>2, ClosesFacts DEF ControlInv
<1> QED
  BY <1>3, <1>4 DEF SettledBeneath, Settled

LEMMA StepKeepsLeaf ==
  ASSUME RunInv, ControlInv, LeafInv,
         NEW c \in Coroutine, ~RunLive(c), StepOf(c), LeafStep(c)
  PROVE  LeafInv'
<1>1. /\ run = "up" /\ run' = "up" /\ indexed' = indexed
      /\ pc[c] \notin {"idle", "ended"}
      /\ \A d \in Coroutine \ {c} : pc'[d] = pc[d] /\ pending'[d] = pending[d]
  BY DEF StepOf
<1>2. OwnEvents /\ StoredIsJournaled /\ ClosedAreSpent /\ JoinsWhatRuns
  BY DEF ControlInv
<1>3. ReplayIsOn /\ IdleIsUntouched /\ EndedIsClosed /\ CloseIsLast /\ LeafFirst
  BY DEF LeafInv
<1>4. ReplayIsOn'
  BY <1>1, <1>3 DEF ReplayIsOn, LeafStep
<1>5. ASSUME NEW d \in Coroutine, d # c \/ pc[c] # "write"
      PROVE  EventsOf(d)' = EventsOf(d) /\ ClosesOf(d)' = ClosesOf(d)
  <2>1. ClosesOf(d)' = ClosesOf(d)
    BY <1>2, <1>5, ClosesFacts
  <2>2. CASE journal' = journal
    BY <2>1, <2>2 DEF EventsOf
  <2>3. CASE BackendStores(c)
    BY <1>2, <1>5, <2>1, <2>3, StoreFacts DEF EventsOf
  <2> QED
    BY <2>2, <2>3 DEF StepOf
<1>6. IdleIsUntouched'
  <2> SUFFICES ASSUME NEW d \in Coroutine, pc'[d] = "idle"
               PROVE  cursors'[d] = 0 /\ \A j \in EventsOf(d)' : j <= indexed
    BY <1>1 DEF IdleIsUntouched
  <2>1. d # c /\ pc[d] = "idle"
    BY <1>1 DEF StepOf
  <2> QED
    BY <1>1, <1>3, <1>5, <2>1 DEF IdleIsUntouched, LeafStep
<1>7. EndedIsClosed'
  <2> SUFFICES ASSUME failure' = "none", NEW d \in Coroutine \ {Root},
                      pc'[d] \in {"ended", "parked"}
               PROVE  ClosesOf(d)' # {}
    BY DEF EndedIsClosed
  <2>1. failure = "none"
    BY DEF LeafStep
  <2>2. CASE d # c \/ pc[c] = "parked"
    BY <1>1, <1>3, <1>5, <2>1, <2>2 DEF EndedIsClosed
  <2>3. CASE d = c /\ AckClose(c)
    <3>1. pc[c] = "stored" /\ pending[c].type = "close" /\ pending[c].co = c
      BY <1>2, <2>3 DEF AckClose, OwnEvents, Appending
    <3>2. ClosesOf(c) # {}
      BY <1>2, <3>1 DEF StoredIsJournaled, ClosesOf
    <3> QED
      BY <1>5, <2>3, <3>1, <3>2
  <2> QED
    BY <2>2, <2>3 DEF LeafStep
<1>8. CloseIsLast'
  <2> SUFFICES ASSUME NEW p \in Coroutine, Closes(p)' PROVE SettledBeneath(p)'
    BY DEF CloseIsLast
  <2>1. CASE p # c
    <3>1. Closes(p) /\ pc[p] # "join"
      BY <1>1, <2>1 DEF Closes, LeafStep
    <3>2. SettledBeneath(p)
      BY <1>1, <1>3, <3>1 DEF CloseIsLast
    <3> QED
      BY <3>1, <3>2, SettledStays
  <2>2. CASE p = c /\ Closes(c)
    <3>1. pc[c] # "join" /\ SettledBeneath(c)
      BY <1>1, <1>3, <2>2 DEF CloseIsLast, Closes
    <3> QED
      BY <2>2, <3>1, SettledStays
  <2>3. CASE p = c /\ pc[c] # "join" /\ failure = "none" /\ ~Unaligned(c)
    <3>1. SettledBeneath(c)
      BY <1>1, <2>3, AlignedBeneath
    <3> QED
      BY <2>3, <3>1, SettledStays
  <2> QED
    BY <2>1, <2>2, <2>3 DEF LeafStep
<1>9. LeafFirst'
  <2>1. CASE journal' = journal
    BY <1>3, <2>1 DEF LeafFirst, ClosesOf
  <2>2. CASE BackendStores(c)
    <3>1. /\ pc[c] = "write" /\ pending[c].co = c
          /\ DOMAIN journal = 1 .. Len(journal) /\ Len(journal) \in Nat
          /\ DOMAIN journal' = 1 .. (Len(journal) + 1)
          /\ \A i \in 1 .. Len(journal) : journal'[i] = journal[i]
          /\ journal'[Len(journal) + 1] = pending[c]
      BY <1>2, <2>2, StoreFacts
    <3> SUFFICES ASSUME NEW p \in Coroutine, NEW i \in ClosesOf(p)',
                        NEW d \in Subtree[p] \ {p},
                        NEW j \in DOMAIN journal', journal'[j].co = d
                 PROVE  j < i /\ \E k \in ClosesOf(d)' : k < i
      BY DEF LeafFirst
    <3>2. d \in Coroutine
      BY TreeAssumption DEF TreeAssumption
    <3>3. d # c => ClosesOf(d)' = ClosesOf(d)
      BY <1>5, <3>2
    <3>4. CASE i = Len(journal) + 1
      <4>1. p = c /\ pending[c].type = "close"
        BY <3>1, <3>4 DEF ClosesOf
      <4>2. SettledBeneath(c)
        BY <1>1, <1>3, <3>1, <4>1 DEF CloseIsLast, Closes
      <4>3. j \in 1 .. Len(journal) /\ journal[j].co = d /\ d # c
        BY <3>1, <4>1
      <4>4. ClosesOf(d) # {}
        BY <3>1, <4>1, <4>2, <4>3 DEF SettledBeneath, Settled, EventsOf
      <4> QED
        BY <3>1, <3>3, <3>4, <4>3, <4>4 DEF ClosesOf
    <3>5. CASE i # Len(journal) + 1
      <4>1. i \in ClosesOf(p)
        BY <3>1, <3>5 DEF ClosesOf
      <4>2. d # c
        <5>1. SUFFICES ASSUME d = c PROVE FALSE
          BY <5>1
        <5>2. pc[p] = "join"
          BY <1>1, <1>2, <5>1 DEF JoinsWhatRuns, Gone
        <5> QED
          BY <1>1, <1>2, <4>1, <5>2 DEF ClosedAreSpent, SpentAt
      <4>3. j \in 1 .. Len(journal) /\ journal[j].co = d
        BY <3>1, <4>2
      <4> QED
        BY <1>3, <3>1, <3>3, <4>1, <4>2, <4>3 DEF LeafFirst
    <3> QED
      BY <3>4, <3>5
  <2> QED
    BY <2>1, <2>2 DEF StepOf
<1> QED
  BY <1>4, <1>6, <1>7, <1>8, <1>9 DEF LeafInv

LEMMA StepKeepsErr ==
  ASSUME RunInv, ErrInv, NEW c \in Coroutine, StepOf(c), ErrStep(c)
  PROVE  ErrInv'
<1>1. NeverCompensates'
  BY RootIsCoroutine DEF ErrInv, NeverCompensates, StepOf, ErrStep
<1>2. NoErrIsWritten'
  <2> SUFFICES ASSUME accepted
               PROVE  /\ retained' # "err"
                      /\ pending'[Root].type = "close" => pending'[Root].status # "err"
    BY DEF NoErrIsWritten, ErrStep
  <2>1. phase # "open"
    BY DEF RunInv, Claim
  <2>2. retained' # "err"
    BY DEF ErrInv, NoErrIsWritten, StepOf, AckClose
  <2> QED
    BY <2>1, <2>2, RootIsCoroutine DEF ErrInv, NoErrIsWritten, ErrStep, StepOf
<1> QED
  BY <1>1, <1>2 DEF ErrInv

LEMMA ForkKeepsLeaf ==
  ASSUME RunInv, ControlInv, LeafInv, NEW c \in Coroutine, Fork(c)
  PROVE  LeafInv'
<1>1. /\ run = "up" /\ pc[c] = "ready" /\ pc'[c] = "join"
      /\ \A k \in At(c).kids : pc[k] = "idle" /\ k \in Coroutine \ {c}
      /\ \A k \in At(c).kids :
           IF HasClose(k) THEN pc'[k] \in {"parked", "ended"} ELSE pc'[k] = "ready"
      /\ \A d \in Coroutine \ {c} : d \notin At(c).kids => pc'[d] = pc[d]
  BY ForkFacts DEF ControlInv
<1>2. UNCHANGED <<journal, indexed, cursors, disabled, run, pending, failure, root>>
  BY ForkFacts DEF ControlInv
<1>3. \A d \in Coroutine : d \notin At(c).kids => outcome'[d] = outcome[d]
  BY DEF Fork
<1>4. \A d \in Coroutine :
        /\ pc'[d] \in {"idle", "turn", "write", "closing", "compensate"} =>
             d \notin At(c).kids /\ pc'[d] = pc[d]
        /\ EventsOf(d)' = EventsOf(d) /\ ClosesOf(d)' = ClosesOf(d)
  BY <1>1, <1>2 DEF EventsOf, ClosesOf
<1>5. ReplayIsOn' /\ IdleIsUntouched'
  BY <1>1, <1>2, <1>4 DEF LeafInv, ReplayIsOn, IdleIsUntouched
<1>6. EndedIsClosed'
  <2> SUFFICES ASSUME failure = "none", NEW d \in Coroutine \ {Root},
                      pc'[d] \in {"ended", "parked"}
               PROVE  ClosesOf(d) # {}
    BY <1>2, <1>4 DEF EndedIsClosed
  <2>1. CASE d \in At(c).kids
    <3>1. WasClosed(d)
      BY <1>1, <2>1 DEF HasClose
    <3>2. 1 .. indexed \subseteq DOMAIN journal
      BY Typed, LenProperties
    <3> QED
      BY <3>1, <3>2 DEF WasClosed, RetainedCloses, ClosesOf
  <2>2. CASE d \notin At(c).kids
    BY <1>1, <2>2 DEF LeafInv, EndedIsClosed
  <2> QED
    BY <2>1, <2>2
<1>7. CloseIsLast'
  BY <1>1, <1>2, <1>3, <1>4
     DEF LeafInv, CloseIsLast, Closes, SettledBeneath, Settled, EventsOf, ClosesOf
<1>8. LeafFirst'
  BY <1>2 DEF LeafInv, LeafFirst, ClosesOf
<1> QED
  BY <1>5, <1>6, <1>7, <1>8 DEF LeafInv

LEMMA ForkKeepsErr ==
  ASSUME RunInv, ControlInv, ErrInv, NEW c \in Coroutine, Fork(c)
  PROVE  ErrInv'
<1>1. /\ run = "up" /\ pc[c] = "ready" /\ pc'[c] = "join"
      /\ \A k \in At(c).kids :
           IF HasClose(k) THEN pc'[k] \in {"parked", "ended"} ELSE pc'[k] = "ready"
      /\ \A d \in Coroutine \ {c} : d \notin At(c).kids => pc'[d] = pc[d]
      /\ UNCHANGED <<run, pending, root>>
  BY ForkFacts DEF ControlInv
<1> QED
  BY <1>1, RootIsCoroutine DEF ErrInv, NeverCompensates, NoErrIsWritten, root

LEMMA ProcessesKeepErr ==
  ASSUME RunInv, ErrInv, RequestInterruption \/ Halt \/ Start \/ Restore \/ Crash
  PROVE  ErrInv'
<1>1. ASSUME RequestInterruption \/ Halt PROVE ErrInv'
  <2>1. /\ UNCHANGED <<run, pc, pending, retained>>
        /\ accepted' = accepted \/ (accepted' = TRUE /\ phase = "open")
    BY <1>1 DEF RequestInterruption, Halt, root
  <2> QED
    BY <2>1 DEF ErrInv, NeverCompensates, NoErrIsWritten, RunInv, RootPhase
<1>2. ASSUME Start \/ Restore \/ Crash PROVE ErrInv'
  BY <1>2, RootIsCoroutine DEF Start, Restore, Crash, ForgetRun, ErrInv, NeverCompensates,
     NoErrIsWritten
<1> QED
  BY <1>1, <1>2

LEMMA ProcessesKeepLeaf ==
  ASSUME RunInv, LeafInv, RequestInterruption \/ Halt \/ Start \/ Restore \/ Crash
  PROVE  LeafInv'
<1>1. ASSUME RequestInterruption \/ Halt PROVE LeafInv'
  <2>1. UNCHANGED <<journal, indexVars, run, pc, pending, outcome, failure>>
    BY <1>1 DEF RequestInterruption, Halt
  <2> QED
    BY <2>1 DEF LeafInv, ReplayIsOn, IdleIsUntouched, EndedIsClosed, CloseIsLast,
       LeafFirst, Closes, SettledBeneath, Settled, EventsOf, ClosesOf, indexVars
<1>2. ASSUME Start \/ Restore \/ Crash PROVE LeafFirst'
  BY <1>2 DEF Start, Restore, Crash, LeafInv, LeafFirst, ClosesOf
<1>3. ASSUME Restore \/ Crash PROVE LeafInv'
  BY <1>2, <1>3 DEF Restore, Crash, LeafInv, ReplayIsOn, IdleIsUntouched, EndedIsClosed,
     CloseIsLast
<1>4. ASSUME Start PROVE LeafInv'
  <2>1. /\ disabled' = {} /\ indexed' = Len(journal) /\ journal' = journal
        /\ cursors' = [c \in Coroutine |-> 0]
        /\ pc' = [c \in Coroutine |-> IF c = Root THEN "ready" ELSE "idle"]
    BY <1>4 DEF Start, BuildIndex
  <2>2. Len(journal) \in Nat /\ DOMAIN journal = 1 .. Len(journal)
    BY Typed, LenProperties
  <2>3. ReplayIsOn' /\ IdleIsUntouched'
    BY <2>1, <2>2 DEF ReplayIsOn, IdleIsUntouched, EventsOf
  <2>4. EndedIsClosed' /\ CloseIsLast'
    BY <2>1 DEF EndedIsClosed, CloseIsLast, Closes
  <2> QED
    BY <1>2, <1>4, <2>3, <2>4 DEF LeafInv
<1> QED
  BY <1>1, <1>3, <1>4

LEMMA ErrKept ==
  ASSUME \A e \in Refusable : ~(e.type = "close" /\ e.co = Root)
  PROVE  RunInv /\ ControlInv /\ ErrInv /\ [Next]_vars => ErrInv'
<1> SUFFICES ASSUME RunInv, ControlInv, ErrInv, [Next]_vars PROVE ErrInv'
  OBVIOUS
<1>1. ASSUME Progress PROVE ErrInv'
  <2>1. CASE RootSteps
    BY <2>1, RootIsCoroutine, RootStepsAreSteps, RootStepsAreLeafSteps, StepKeepsErr
       DEF ErrInv, LeafStep
  <2>2. ASSUME NEW c \in Coroutine, Effects(c) \/ Appends(c) \/ Children(c)
        PROVE  ErrInv'
    BY <2>2, EffectsAreSteps, AppendsAreSteps, ChildrenAreSteps, EffectsAreLeafSteps,
       AppendsAreErrSteps, ChildrenAreLeafSteps, StepKeepsErr, ForkKeepsErr
       DEF LeafStep, ControlInv
  <2> QED
    BY <1>1, <2>1, <2>2 DEF Progress
<1>2. ASSUME UNCHANGED vars PROVE ErrInv'
  BY <1>2 DEF vars, ErrInv, NeverCompensates, NoErrIsWritten, root
<1> QED
  BY <1>1, <1>2, ProcessesKeepErr DEF Next, Finished

LEMMA ErrInvariant ==
  ASSUME \A e \in Refusable : ~(e.type = "close" /\ e.co = Root)
  PROVE  Spec => []ErrInv
<1>1. Init => ErrInv
  BY DEF Init, ErrInv, NeverCompensates, NoErrIsWritten
<1>2. RunInv /\ ControlInv /\ ErrInv /\ [Next]_vars => ErrInv'
  BY ErrKept
<1> QED
  BY <1>1, <1>2, RunInvariant, ControlInvariant, PTL DEF Spec

LEMMA LeafKept ==
  ASSUME Refusable = {}, RunInv, ControlInv, ErrInv, LeafInv, [Next]_vars,
         \A c \in Coroutine : ~RunLive(c)
  PROVE  LeafInv'
<1>1. ASSUME Progress PROVE LeafInv'
  <2>1. CASE RootSteps
    BY <2>1, RootIsCoroutine, RootStepsAreSteps, RootStepsAreLeafSteps, StepKeepsLeaf
       DEF ErrInv
  <2>2. ASSUME NEW c \in Coroutine, Effects(c) \/ Appends(c) \/ Children(c)
        PROVE  LeafInv'
    BY <2>2, EffectsAreSteps, AppendsAreSteps, ChildrenAreSteps, EffectsAreLeafSteps,
       AppendsAreLeafSteps, ChildrenAreLeafSteps, StepKeepsLeaf, ForkKeepsLeaf
  <2> QED
    BY <1>1, <2>1, <2>2 DEF Progress
<1>2. ASSUME UNCHANGED vars PROVE LeafInv'
  BY <1>2 DEF vars, LeafInv, ReplayIsOn, IdleIsUntouched, EndedIsClosed, CloseIsLast,
     LeafFirst, Closes, SettledBeneath, Settled, EventsOf, ClosesOf, indexVars
<1> QED
  BY <1>1, <1>2, ProcessesKeepLeaf DEF Next, Finished

LEMMA LeafInit ==
  ASSUME Init
  PROVE  LeafInv
  BY DEF Init, IndexInit, LeafInv, ReplayIsOn, IdleIsUntouched, EndedIsClosed,
     CloseIsLast, LeafFirst, ClosesOf

LEMMA LeafInvariant ==
  ASSUME Refusable = {}, LivePolicy = FALSE
  PROVE  Spec => []LeafInv
<1>1. Init => LeafInv
  BY LeafInit
<1>2. RunInv /\ ControlInv /\ ErrInv /\ LeafInv /\ [Next]_vars => LeafInv'
  BY LeafKept DEF RunLive
<1>3. Spec => []ErrInv
  BY ErrInvariant
<1> QED
  BY <1>1, <1>2, <1>3, RunInvariant, ControlInvariant, PTL DEF Spec

\* Where the host refuses no append and a divergence ends the run, leaves close before
\* their parents: whatever is halted, stopped, failed by the backend or crashed, and
\* whatever the definition is changed to between runs.
THEOREM RunLeafFirst ==
  ASSUME Refusable = {}, LivePolicy = FALSE
  PROVE  Spec => []LeafFirst
<1>1. LeafInv => LeafFirst
  BY DEF LeafInv
<1> QED
  BY <1>1, LeafInvariant, PTL

\* Where the host does not refuse the root's own Close, a run that accepted a Stop
\* reports no err either, whatever else is refused or fails (StoppedRootErr shows the
\* run in which it does).
THEOREM RunAcceptedNeverErr ==
  ASSUME \A e \in Refusable : ~(e.type = "close" /\ e.co = Root)
  PROVE  Spec => []AcceptedNeverErr
<1>1. ErrInv => AcceptedNeverErr
  BY DEF ErrInv, NoErrIsWritten, AcceptedNeverErr
<1> QED
  BY <1>1, ErrInvariant, PTL

------------------------------------------------------------------------------
(* What the program is given.                                              *)

\* The yields of c this run appended, and all that it knows of its history: the
\* retained yields it consumed, then its own.
Appended(c) == YieldsIn(SubSeq(journal, indexed + 1, Len(journal)), c)
Known(c)    == SubSeq(Yields(c), 1, cursors[c]) \o Appended(c)

Executes(c) == pc[c] = "live" \/ (pc[c] \in Appending /\ pending[c].type = "yield")
Stored(c)   == pc[c] = "stored" /\ pending[c].type = "yield"

\* Where the generator of c was given everything its history holds.
KnowsAll(c) ==
  \/ pc[c] = "idle"
  \/ pc[c] \in {"ready", "join", "live"} /\ failure = "none"
  \/ pc[c] \in {"turn", "write"} /\ pending[c].type = "yield"

\* What the journal holds of c is the retained part and what this run appended; and it
\* appends only when it consumed what was retained.
ReadsBeforeWriting(c) ==
  /\ cursors[c] <= Len(Yields(c))
  /\ YieldsIn(journal, c) = Yields(c) \o Appended(c)
  /\ (Appended(c) # <<>> \/ Executes(c)) => ~HasEntry(c)

\* The program was given what is known, but for one result that is stored and not yet
\* acknowledged.
SeesWhatIsKnown(c) ==
  /\ seen[c] \in Seq(Event)
  /\ KnowsAll(c) => seen[c] = Known(c)
  /\ Stored(c) => Appended(c) # <<>> /\ Known(c) = Append(seen[c], pending[c])
  /\ failure # "stale" =>
       \/ seen[c] = Known(c)
       \/ Appended(c) # <<>> /\ \E e \in Event : Known(c) = Append(seen[c], e)

HistoryAt(c) == ReadsBeforeWriting(c) /\ SeesWhatIsKnown(c)
HistoryInv   == run = "up" => \A c \in Coroutine : HistoryAt(c)

------------------------------------------------------------------------------
(* Steps that neither read nor write a result.                             *)

QuietAt(c) ==
  /\ KnowsAll(c)' => KnowsAll(c)
  /\ Executes(c)' => Executes(c) \/ ~HasEntry(c)'
  /\ Stored(c)' => Stored(c) /\ pending'[c] = pending[c]

Quiet ==
  /\ UNCHANGED <<journal, indexed, cursors, seen, run>>
  /\ disabled \subseteq disabled'
  /\ failure = "stale" => failure' = "stale"
  /\ \A c \in Coroutine : QuietAt(c)

LEMMA QuietKeeps ==
  ASSUME HistoryInv, Quiet
  PROVE  HistoryInv'
<1>1. /\ UNCHANGED <<journal, indexed, cursors, seen, run>>
      /\ disabled \subseteq disabled'
      /\ failure = "stale" => failure' = "stale"
  BY DEF Quiet
<1> SUFFICES ASSUME run = "up", NEW c \in Coroutine PROVE HistoryAt(c)'
  BY <1>1 DEF HistoryInv
<1>2. HistoryAt(c) /\ QuietAt(c)
  BY DEF HistoryInv, Quiet
<1>3. Yields(c)' = Yields(c) /\ Appended(c)' = Appended(c)
  BY <1>1 DEF Yields, Appended, Retained, YieldsIn
<1>4. Known(c)' = Known(c) /\ YieldsIn(journal, c)' = YieldsIn(journal, c)
  BY <1>1, <1>3 DEF Known, YieldsIn
<1>5. HasEntry(c)' => HasEntry(c)
  BY <1>1, <1>3 DEF HasEntry
<1>6. ReadsBeforeWriting(c)'
  BY <1>1, <1>2, <1>3, <1>4, <1>5 DEF HistoryAt, ReadsBeforeWriting, QuietAt
<1>7. SeesWhatIsKnown(c)'
  BY <1>1, <1>2, <1>3, <1>4 DEF HistoryAt, SeesWhatIsKnown, QuietAt
<1> QED
  BY <1>6, <1>7 DEF HistoryAt

\* What a single coroutine has to do to be quiet.
QuietStep(c) ==
  /\ UNCHANGED <<journal, cursors, seen>>
  /\ disabled \subseteq disabled'
  /\ failure' = "none" => failure = "none"
  /\ failure = "stale" => failure' = "stale"
  /\ KnowsAll(c)' => KnowsAll(c)
  /\ Executes(c)' => Executes(c) \/ ~HasEntry(c)'
  /\ pc'[c] # "stored"

LEMMA QuietSteps ==
  ASSUME NEW c \in Coroutine, StepOf(c), QuietStep(c)
  PROVE  Quiet
<1>1. ASSUME NEW d \in Coroutine, d # c PROVE QuietAt(d)
  BY <1>1 DEF QuietStep, StepOf, QuietAt, KnowsAll, Executes, Stored
<1>2. QuietAt(c)
  BY DEF QuietStep, QuietAt, Stored
<1> QED
  BY <1>1, <1>2 DEF Quiet, QuietStep, StepOf

\* An effect that reads no entry.
LEMMA QuietEffects ==
  ASSUME RunInv, NEW c \in Coroutine, Effects(c), ~Replay(c), ~ReplayStale(c)
  PROVE  QuietStep(c)
<1>1. /\ pc \in [Coroutine -> PC] /\ pos \in [Coroutine -> Nat]
      /\ pending \in [Coroutine -> Event \cup {NoEvent}]
  BY Typed
<1>2. ASSUME NEW s, Resume(c, s), failure' # "none",
             failure = "stale" => failure' = "stale",
             UNCHANGED <<journal, cursors, disabled, seen>>
      PROVE  QuietStep(c)
  BY <1>1, <1>2 DEF Resume, QuietStep, KnowsAll, Executes, Appending
<1>3. ASSUME CallRefused(c) PROVE QuietStep(c)
  BY <1>2, <1>3 DEF CallRefused, indexVars
<1>4. ASSUME Diverge(c) PROVE QuietStep(c)
  BY <1>2, <1>4 DEF Diverge, indexVars
<1>5. ASSUME RunLive(c) PROVE QuietStep(c)
  BY <1>1, <1>5 DEF RunLive, Calls, Ready, DisableReplay, HasEntry, QuietStep, KnowsAll,
     Executes, Appending
<1>6. ASSUME GoLive(c) PROVE QuietStep(c)
  <2>1. Yields(c)' = Yields(c)
    BY <1>6 DEF GoLive, Yields, Retained, YieldsIn, indexVars
  <2>2. ~HasEntry(c)'
    BY <1>6, <2>1 DEF GoLive, HasEntry, indexVars
  <2> QED
    BY <1>1, <1>6, <2>2 DEF GoLive, Calls, Ready, QuietStep, KnowsAll, indexVars
<1>7. ASSUME Execute(c) PROVE QuietStep(c)
  BY <1>1, <1>7 DEF Execute, BeginAppend, QuietStep, KnowsAll, Executes, indexVars
<1>8. ASSUME ExecuteTooLate(c) PROVE QuietStep(c)
  BY <1>2, <1>8 DEF ExecuteTooLate, indexVars
<1> QED
  BY <1>3, <1>4, <1>5, <1>6, <1>7, <1>8 DEF Effects

\* A stage of an append that stores nothing and hands out nothing.
LEMMA QuietAppends ==
  ASSUME RunInv, NEW c \in Coroutine, Appends(c), ~BackendStores(c), ~AckYield(c)
  PROVE  QuietStep(c)
<1>1. /\ pc \in [Coroutine -> PC] /\ pos \in [Coroutine -> Nat]
      /\ pending \in [Coroutine -> Event \cup {NoEvent}]
  BY Typed
<1>2. ASSUME NEW ordinary, AppendRaised(c, ordinary), pc[c] \in Appending,
             failure' = "none" => failure = "none" /\ pc[c] = "write",
             failure = "stale" => failure' = "stale",
             UNCHANGED <<journal, cursors, disabled, seen>>
      PROVE  QuietStep(c)
  <2>1. pending[c] \in Event
    BY <1>2 DEF RunInv, Busy, BusyAt, Appending
  <2>2. \/ pc'[c] \in {"ended", "compensate"}
        \/ pc'[c] \in {"ready", "threw"} /\ pending[c].type = "yield"
    BY <1>1, <1>2, <2>1 DEF AppendRaised, Resume
  <2> QED
    BY <1>2, <2>2 DEF QuietStep, KnowsAll, Executes, Appending
<1>3. ASSUME Admit(c) PROVE QuietStep(c)
  BY <1>1, <1>3 DEF Admit, indexVars, QuietStep, KnowsAll, Executes, Appending
<1>4. ASSUME RefuseAdmission(c) PROVE QuietStep(c)
  BY <1>2, <1>4 DEF RefuseAdmission, indexVars, Appending
<1>5. ASSUME GateRefuses(c) PROVE QuietStep(c)
  BY <1>2, <1>5 DEF GateRefuses, indexVars, Appending
<1>6. ASSUME BackendFailed(c) PROVE QuietStep(c)
  BY <1>2, <1>6 DEF BackendFailed, indexVars, Appending
<1>7. ASSUME AckClose(c) PROVE QuietStep(c)
  BY <1>1, <1>7 DEF AckClose, indexVars, QuietStep, KnowsAll, Executes, Appending
<1> QED
  BY <1>3, <1>4, <1>5, <1>6, <1>7 DEF Appends

LEMMA QuietChildren ==
  ASSUME RunInv, NEW c \in Coroutine, Children(c), ~Fork(c)
  PROVE  QuietStep(c)
<1>1. /\ pc \in [Coroutine -> PC] /\ pos \in [Coroutine -> Nat]
      /\ pending \in [Coroutine -> Event \cup {NoEvent}]
  BY Typed
<1>2. ASSUME ChildEnds(c) PROVE QuietStep(c)
  BY <1>1, <1>2 DEF ChildEnds, indexVars, QuietStep, KnowsAll, Executes, Appending
<1>3. ASSUME ChildEndsUnclosed(c) PROVE QuietStep(c)
  BY <1>1, <1>3 DEF ChildEndsUnclosed, indexVars, QuietStep, KnowsAll, Executes, Appending
<1>4. ASSUME CancelledUnaligned(c) PROVE QuietStep(c)
  BY <1>1, <1>4 DEF CancelledUnaligned, indexVars, QuietStep, KnowsAll, Executes, Appending
<1>5. ASSUME CloseChild(c) PROVE QuietStep(c)
  BY <1>1, <1>5 DEF CloseChild, BeginAppend, CloseOf, indexVars, QuietStep, KnowsAll,
     Executes, Appending
<1>6. ASSUME Decide(c) PROVE QuietStep(c)
  BY <1>1, <1>6 DEF Decide, indexVars, QuietStep, KnowsAll, Executes, Appending
<1>7. ASSUME Join(c) PROVE QuietStep(c)
  BY <1>1, <1>7 DEF Join, Resume, indexVars, QuietStep, KnowsAll, Executes, Appending
<1>8. ASSUME Unwind(c) PROVE QuietStep(c)
  BY <1>1, <1>8 DEF Unwind, indexVars, QuietStep, KnowsAll, Executes, Appending
<1> QED
  BY <1>2, <1>3, <1>4, <1>5, <1>6, <1>7, <1>8 DEF Children

LEMMA QuietRoot ==
  ASSUME RunInv, RootSteps
  PROVE  QuietStep(Root)
<1>1. /\ pc \in [Coroutine -> PC] /\ Root \in Coroutine
      /\ pending \in [Coroutine -> Event \cup {NoEvent}]
  BY Typed, RootIsCoroutine
<1>2. /\ UNCHANGED <<journal, cursors, disabled, seen>>
      /\ failure' = "none" => failure = "none"
      /\ failure = "stale" => failure' = "stale"
  BY DEF RootSteps, RootReturns, RootThrows, RootCompensates, RootFinalizes, indexVars
<1>3. \/ pc' = [pc EXCEPT ![Root] = "ended"]
      \/ pc' = [pc EXCEPT ![Root] = "closing"]
      \/ \E s : BeginAppend(Root, CloseOf(Root, s))
  BY DEF RootSteps, RootReturns, RootThrows, RootCompensates, RootFinalizes, RootEnds
<1> QED
  BY <1>1, <1>2, <1>3 DEF BeginAppend, CloseOf, QuietStep, KnowsAll, Executes, Appending

LEMMA QuietFork ==
  ASSUME RunInv, ControlInv, NEW c \in Coroutine, Fork(c)
  PROVE  Quiet
<1>1. /\ run = "up" /\ pc[c] = "ready" /\ pc'[c] = "join"
      /\ \A k \in At(c).kids : pc[k] = "idle" /\ k \in Coroutine \ {c}
      /\ \A k \in At(c).kids :
           IF HasClose(k) THEN pc'[k] \in {"parked", "ended"} ELSE pc'[k] = "ready"
      /\ \A d \in Coroutine \ {c} : d \notin At(c).kids => pc'[d] = pc[d]
      /\ UNCHANGED <<journal, indexed, cursors, disabled, run, pending, failure, seen>>
  BY ForkFacts DEF ControlInv
<1>2. ASSUME NEW d \in Coroutine PROVE QuietAt(d)
  <2>1. \/ pc'[d] = pc[d]
        \/ pc[d] = "ready" /\ pc'[d] = "join"
        \/ pc[d] = "idle" /\ pc'[d] \in {"parked", "ended", "ready"}
    BY <1>1
  <2> QED
    BY <1>1, <2>1 DEF QuietAt, KnowsAll, Executes, Stored, Appending
<1> QED
  BY <1>1, <1>2 DEF Quiet

------------------------------------------------------------------------------
(* Steps that hand out a result, or store one.                             *)

LEMMA HistoryTyped ==
  ASSUME RunInv, NEW c \in Coroutine
  PROVE  /\ Yields(c) \in Seq(Event) /\ Len(Yields(c)) \in Nat
         /\ Appended(c) \in Seq(Event) /\ Len(Appended(c)) \in Nat
         /\ YieldsIn(journal, c) \in Seq(Event)
<1>1. /\ journal \in Seq(Event) /\ indexed \in 0 .. Len(journal) /\ Len(journal) \in Nat
  BY Typed, LenProperties
<1>2. /\ \A i \in 1 .. indexed : journal[i] \in Event
      /\ \A i \in indexed + 1 .. Len(journal) : journal[i] \in Event
  BY <1>1, ElementOfSeq
<1>3. /\ Retained \in Seq(Event)
      /\ SubSeq(journal, indexed + 1, Len(journal)) \in Seq(Event)
  BY <1>1, <1>2, SubSeqProperties DEF Retained
<1>4. ASSUME NEW s \in Seq(Event)
      PROVE  YieldsIn(s, c) \in Seq(Event) /\ Len(YieldsIn(s, c)) \in Nat
  <2>1. YieldsIn(s, c) \in Seq(Event \cap YieldEvents(c))
    BY PickedType DEF YieldsIn
  <2>2. YieldsIn(s, c) \in Seq(Event)
    BY <2>1, SeqMonotonic
  <2> QED
    BY <2>2, LenProperties
<1> QED
  BY <1>1, <1>3, <1>4 DEF Yields, Appended

\* Whoever does not move keeps what it knows while nothing is stored.
LEMMA OthersKeep ==
  ASSUME HistoryInv, NEW c \in Coroutine, StepOf(c), journal' = journal,
         disabled \subseteq disabled', failure' = "none" => failure = "none",
         failure = "stale" => failure' = "stale",
         NEW d \in Coroutine, d # c, cursors'[d] = cursors[d], seen'[d] = seen[d]
  PROVE  HistoryAt(d)'
<1>1. /\ indexed' = indexed /\ pc'[d] = pc[d] /\ pending'[d] = pending[d]
      /\ HistoryAt(d)
  BY DEF StepOf, HistoryInv
<1>2. Yields(d)' = Yields(d) /\ Appended(d)' = Appended(d)
  BY <1>1 DEF Yields, Appended, Retained, YieldsIn
<1>3. Known(d)' = Known(d) /\ YieldsIn(journal, d)' = YieldsIn(journal, d)
  BY <1>1, <1>2 DEF Known, YieldsIn
<1>4. HasEntry(d)' => HasEntry(d)
  BY <1>1, <1>2 DEF HasEntry
<1>5. /\ KnowsAll(d)' => KnowsAll(d)
      /\ Executes(d)' <=> Executes(d)
      /\ Stored(d)' <=> Stored(d)
  BY <1>1 DEF KnowsAll, Executes, Stored
<1>6. ReadsBeforeWriting(d)'
  BY <1>1, <1>2, <1>3, <1>4, <1>5 DEF HistoryAt, ReadsBeforeWriting
<1>7. SeesWhatIsKnown(d)'
  BY <1>1, <1>2, <1>3, <1>5 DEF HistoryAt, SeesWhatIsKnown
<1> QED
  BY <1>6, <1>7 DEF HistoryAt

\* The next entry is the first result of its history the program has not seen.
LEMMA EntryIsNext ==
  ASSUME RunInv, HistoryInv, NEW c \in Coroutine, Calls(c), failure = "none", HasEntry(c)
  PROVE  /\ Appended(c) = <<>> /\ ~Executes(c) /\ cursors[c] \in Nat
         /\ cursors[c] < Len(Yields(c)) /\ Len(seen[c]) = cursors[c]
         /\ Entry(c) \in Event /\ seen[c] \in Seq(Event)
         /\ Append(seen[c], Entry(c)) = SubSeq(Yields(c), 1, cursors[c] + 1)
<1>1. /\ HistoryAt(c) /\ pc[c] = "ready" /\ cursors[c] \in Nat
      /\ cursors[c] < Len(Yields(c))
  BY Typed DEF HistoryInv, Calls, Ready, Moves, HasEntry
<1>2. Appended(c) = <<>> /\ ~Executes(c) /\ seen[c] = Known(c) /\ seen[c] \in Seq(Event)
  BY <1>1 DEF HistoryAt, ReadsBeforeWriting, SeesWhatIsKnown, KnowsAll
<1>3. Yields(c) \in Seq(Event) /\ Len(Yields(c)) \in Nat
  BY HistoryTyped
<1>4. PICK n \in Nat : n = cursors[c]
  BY <1>1
<1>5. \A i \in 1 .. n : Yields(c)[i] \in Event
  BY <1>1, <1>3, <1>4, ElementOfSeq
<1>6. SubSeq(Yields(c), 1, n) \in Seq(Event) /\ Len(SubSeq(Yields(c), 1, n)) = n
  BY <1>5, SubSeqProperties
<1>7. seen[c] = SubSeq(Yields(c), 1, n)
  BY <1>2, <1>4, <1>6, WholeAndNone DEF Known
<1>8. Entry(c) \in Event /\ Entry(c) = Yields(c)[n + 1]
  BY <1>1, <1>3, <1>4, ElementOfSeq DEF Entry
<1>9. Append(seen[c], Entry(c)) = SubSeq(Yields(c), 1, n + 1)
  BY <1>1, <1>3, <1>4, <1>7, <1>8, OneMore
<1> QED
  BY <1>1, <1>2, <1>4, <1>6, <1>7, <1>8, <1>9

LEMMA ReadKeeps ==
  ASSUME RunInv, HistoryInv, NEW c \in Coroutine, Replay(c) \/ ReplayStale(c)
  PROVE  HistoryInv'
<1>1. /\ Calls(c) /\ failure = "none" /\ HasEntry(c) /\ ConsumeYield(c)
      /\ journal' = journal /\ run = "up" /\ run' = "up" /\ pc'[c] \in {"ready", "threw"}
      /\ \/ seen' = [seen EXCEPT ![c] = Append(@, Entry(c))] /\ failure' = "none"
         \/ seen' = seen /\ failure' = "stale"
  BY Typed DEF Replay, ReplayStale, Calls, Ready, Moves, Resume
<1>2. StepOf(c)
  BY EffectsAreSteps DEF Effects
<1>3. /\ cursors' = [cursors EXCEPT ![c] = @ + 1] /\ indexed' = indexed
      /\ disabled' = disabled
      /\ cursors \in [Coroutine -> Nat] /\ DOMAIN seen = Coroutine
  BY <1>1, Typed DEF ConsumeYield
<1> SUFFICES ASSUME NEW d \in Coroutine PROVE HistoryAt(d)'
  BY DEF HistoryInv
<1>4. CASE d # c
  <2>1. cursors'[d] = cursors[d] /\ seen'[d] = seen[d]
    BY <1>1, <1>3, <1>4
  <2> QED
    BY <1>1, <1>2, <1>3, <1>4, <2>1, OthersKeep
<1>5. CASE d = c
  <2>1. /\ Appended(c) = <<>> /\ ~Executes(c) /\ cursors[c] < Len(Yields(c))
        /\ Entry(c) \in Event /\ seen[c] \in Seq(Event)
        /\ Append(seen[c], Entry(c)) = SubSeq(Yields(c), 1, cursors[c] + 1)
    BY <1>1, EntryIsNext
  <2>2. Yields(c)' = Yields(c) /\ Appended(c)' = Appended(c)
    BY <1>1, <1>3 DEF Yields, Appended, Retained, YieldsIn
  <2>3. YieldsIn(journal, c)' = YieldsIn(journal, c) /\ cursors'[c] = cursors[c] + 1
    BY <1>1, <1>3 DEF YieldsIn
  <2>4. ReadsBeforeWriting(c)'
    <3>1. YieldsIn(journal, c) = Yields(c) \o Appended(c)
      BY <1>1 DEF HistoryInv, HistoryAt, ReadsBeforeWriting
    <3>2. ~Executes(c)'
      BY <1>1 DEF Executes, Appending
    <3>3. cursors'[c] <= Len(Yields(c))
      BY <1>3, <2>1, <2>3, HistoryTyped
    <3> QED
      BY <2>1, <2>2, <2>3, <3>1, <3>2, <3>3 DEF ReadsBeforeWriting
  <2>5. SeesWhatIsKnown(c)'
    <3>1. ~Stored(c)' /\ (failure' # "none" => ~KnowsAll(c)')
      BY <1>1 DEF Stored, KnowsAll
    <3>2. CASE failure' = "stale" /\ seen' = seen
      BY <2>1, <3>1, <3>2 DEF SeesWhatIsKnown
    <3>3. CASE failure' = "none" /\ seen' = [seen EXCEPT ![c] = Append(@, Entry(c))]
      <4>1. seen'[c] = Append(seen[c], Entry(c)) /\ seen'[c] \in Seq(Event)
        BY <1>3, <2>1, <3>3, AppendProperties
      <4>2. Known(c)' = SubSeq(Yields(c), 1, cursors[c] + 1) \o <<>>
        BY <2>1, <2>2, <2>3 DEF Known
      <4>3. seen'[c] = Known(c)'
        BY <2>1, <4>1, <4>2, WholeAndNone
      <4> QED
        BY <3>1, <4>1, <4>3 DEF SeesWhatIsKnown
    <3> QED
      BY <1>1, <3>2, <3>3
  <2> QED
    BY <1>5, <2>4, <2>5 DEF HistoryAt
<1> QED
  BY <1>4, <1>5

LEMMA YieldsOfAppend ==
  ASSUME NEW s \in Seq(Event), NEW e \in Event, NEW c \in Coroutine
  PROVE  YieldsIn(Append(s, e), c) =
           IF e \in YieldEvents(c) THEN Append(YieldsIn(s, c), e) ELSE YieldsIn(s, c)
  BY PickedAppend DEF YieldsIn

\* What a stored event adds to the histories.
LEMMA JournalGrows ==
  ASSUME RunInv, OwnEvents, NEW c \in Coroutine, BackendStores(c), NEW d \in Coroutine
  PROVE  /\ Yields(d)' = Yields(d)
         /\ IF d = c /\ pending[c].type = "yield"
            THEN /\ Appended(d)' = Append(Appended(d), pending[c])
                 /\ YieldsIn(journal, d)' = Append(YieldsIn(journal, d), pending[c])
            ELSE /\ Appended(d)' = Appended(d)
                 /\ YieldsIn(journal, d)' = YieldsIn(journal, d)
<1>1. /\ journal \in Seq(Event) /\ indexed \in 0 .. Len(journal) /\ Len(journal) \in Nat
      /\ indexed' = indexed /\ journal' = Append(journal, pending[c])
  BY Typed, LenProperties DEF BackendStores, indexVars
<1>2. pending[c] \in Event /\ pending[c].co = c
  BY StoreFacts
<1>3. pending[c] \in YieldEvents(d) <=> (d = c /\ pending[c].type = "yield")
  BY <1>2 DEF Event, YieldEvents
<1>4. SubSeq(journal', 1, indexed) = SubSeq(journal, 1, indexed)
  BY <1>1, <1>2, HeadOfAppend
<1>5. SubSeq(journal', indexed + 1, Len(journal')) =
        Append(SubSeq(journal, indexed + 1, Len(journal)), pending[c])
  BY <1>1, <1>2, TailOfAppend
<1>6. SubSeq(journal, indexed + 1, Len(journal)) \in Seq(Event)
  <2>1. \A i \in indexed + 1 .. Len(journal) : journal[i] \in Event
    BY <1>1, ElementOfSeq
  <2> QED
    BY <1>1, <2>1, SubSeqProperties
<1>7. Yields(d)' = Yields(d)
  BY <1>1, <1>4 DEF Yields, Retained, YieldsIn
<1>8. Appended(d)' = IF pending[c] \in YieldEvents(d)
                     THEN Append(Appended(d), pending[c]) ELSE Appended(d)
  <2>1. Appended(d)' = YieldsIn(SubSeq(journal', indexed + 1, Len(journal')), d)
    BY <1>1 DEF Appended, YieldsIn
  <2> DEFINE own == SubSeq(journal, indexed + 1, Len(journal))
  <2>2. own \in Seq(Event) /\ Appended(d)' = YieldsIn(Append(own, pending[c]), d)
        /\ Appended(d) = YieldsIn(own, d)
    BY <1>5, <1>6, <2>1 DEF Appended
  <2> HIDE DEF own
  <2> QED
    BY <1>2, <2>2, YieldsOfAppend
<1>9. YieldsIn(journal, d)' = IF pending[c] \in YieldEvents(d)
                              THEN Append(YieldsIn(journal, d), pending[c])
                              ELSE YieldsIn(journal, d)
  <2>1. YieldsIn(journal, d)' = YieldsIn(journal', d)
    BY DEF YieldsIn
  <2> QED
    BY <1>1, <1>2, <2>1, YieldsOfAppend
<1> QED
  BY <1>3, <1>7, <1>8, <1>9

LEMMA StoreKeeps ==
  ASSUME RunInv, OwnEvents, HistoryInv, NEW c \in Coroutine, BackendStores(c)
  PROVE  HistoryInv'
<1>1. /\ run = "up" /\ run' = "up" /\ UNCHANGED <<cursors, disabled, pending, failure, seen>>
      /\ pc[c] = "write" /\ pc'[c] = "stored"
      /\ \A d \in Coroutine \ {c} : pc'[d] = pc[d]
  BY Typed DEF BackendStores, Moves, indexVars
<1> SUFFICES ASSUME NEW d \in Coroutine PROVE HistoryAt(d)'
  BY <1>1 DEF HistoryInv
<1>2. /\ ReadsBeforeWriting(d) /\ SeesWhatIsKnown(d)
      /\ Yields(d)' = Yields(d)
  BY <1>1, JournalGrows DEF HistoryInv, HistoryAt
<1>3. HasEntry(d)' <=> HasEntry(d)
  BY <1>1, <1>2 DEF HasEntry
<1>4. CASE ~(d = c /\ pending[c].type = "yield")
  <2>1. /\ Appended(d)' = Appended(d)
        /\ YieldsIn(journal, d)' = YieldsIn(journal, d)
    BY <1>4, JournalGrows
  <2>2. Known(d)' = Known(d)
    BY <1>1, <1>2, <2>1 DEF Known
  <2>3. /\ KnowsAll(d)' => KnowsAll(d)
        /\ Executes(d)' => Executes(d)
        /\ Stored(d)' => Stored(d)
    BY <1>1, <1>4 DEF KnowsAll, Executes, Stored, Appending
  <2>4. ReadsBeforeWriting(d)'
    BY <1>1, <1>2, <1>3, <2>1, <2>3 DEF ReadsBeforeWriting
  <2>5. SeesWhatIsKnown(d)'
    BY <1>1, <1>2, <2>1, <2>2, <2>3 DEF SeesWhatIsKnown
  <2> QED
    BY <2>4, <2>5 DEF HistoryAt
<1>5. CASE d = c /\ pending[c].type = "yield"
  <2>1. /\ Appended(c)' = Append(Appended(c), pending[c])
        /\ YieldsIn(journal, c)' = Append(YieldsIn(journal, c), pending[c])
    BY <1>5, JournalGrows
  <2>2. /\ pending[c] \in Event /\ Yields(c) \in Seq(Event) /\ Appended(c) \in Seq(Event)
        /\ Len(Yields(c)) \in Nat /\ cursors[c] \in Nat
    BY StoreFacts, HistoryTyped, Typed
  <2>3. Appended(c)' # <<>>
    BY <2>1, <2>2, AppendProperties
  <2>4. ~HasEntry(c)' /\ seen[c] = Known(c)
    BY <1>1, <1>2, <1>3, <1>5
       DEF ReadsBeforeWriting, SeesWhatIsKnown, Executes, KnowsAll, Appending
  <2>5. SubSeq(Yields(c), 1, cursors[c]) \in Seq(Event)
    <3>1. \A i \in 1 .. cursors[c] : Yields(c)[i] \in Event
      BY <1>2, <1>5, <2>2, ElementOfSeq DEF ReadsBeforeWriting
    <3> QED
      BY <2>2, <3>1, SubSeqProperties
  <2>6. Known(c)' = Append(Known(c), pending[c])
    <3>1. Known(c)' =
            SubSeq(Yields(c), 1, cursors[c]) \o Append(Appended(c), pending[c])
      BY <1>1, <1>2, <1>5, <2>1 DEF Known
    <3>2. SubSeq(Yields(c), 1, cursors[c]) \o Append(Appended(c), pending[c])
            = Append(SubSeq(Yields(c), 1, cursors[c]) \o Appended(c), pending[c])
      <4> DEFINE read == SubSeq(Yields(c), 1, cursors[c])
      <4>1. read \in Seq(Event)
        BY <2>5
      <4> HIDE DEF read
      <4>2. read \o Append(Appended(c), pending[c]) = Append(read \o Appended(c), pending[c])
        BY <2>2, <4>1, ConcatOfAppend
      <4> QED
        BY <4>2 DEF read
    <3> QED
      BY <3>1, <3>2 DEF Known
  <2>7. ReadsBeforeWriting(c)'
    <3>1. YieldsIn(journal, c)' = Yields(c)' \o Appended(c)'
      <4>1. YieldsIn(journal, c) = Yields(c) \o Appended(c)
        BY <1>2, <1>5 DEF ReadsBeforeWriting
      <4>2. Yields(c) \o Append(Appended(c), pending[c])
              = Append(Yields(c) \o Appended(c), pending[c])
        BY <2>2, ConcatOfAppend
      <4> QED
        BY <1>2, <1>5, <2>1, <4>1, <4>2
    <3> QED
      BY <1>1, <1>2, <1>5, <2>4, <3>1 DEF ReadsBeforeWriting
  <2>8. SeesWhatIsKnown(c)'
    <3>1. ~KnowsAll(c)'
      BY <1>1 DEF KnowsAll
    <3>2. seen'[c] \in Seq(Event) /\ Known(c)' = Append(seen'[c], pending'[c])
      BY <1>1, <1>2, <1>5, <2>4, <2>6 DEF SeesWhatIsKnown
    <3> QED
      BY <1>1, <2>2, <2>3, <3>1, <3>2 DEF SeesWhatIsKnown
  <2> QED
    BY <1>5, <2>7, <2>8 DEF HistoryAt
<1> QED
  BY <1>4, <1>5

LEMMA AckKeeps ==
  ASSUME RunInv, HistoryInv, NEW c \in Coroutine, AckYield(c)
  PROVE  HistoryInv'
<1>1. /\ run = "up" /\ run' = "up" /\ Stored(c) /\ pc'[c] \in {"ready", "threw"}
      /\ UNCHANGED <<journal, indexed, cursors, disabled, failure>>
      /\ seen' = [seen EXCEPT ![c] = Append(@, pending[c])] /\ DOMAIN seen = Coroutine
  BY Typed DEF AckYield, Moves, Stored, Resume, indexVars
<1>2. StepOf(c)
  BY AppendsAreSteps DEF Appends
<1> SUFFICES ASSUME NEW d \in Coroutine PROVE HistoryAt(d)'
  BY <1>1 DEF HistoryInv
<1>3. CASE d # c
  <2>1. cursors'[d] = cursors[d] /\ seen'[d] = seen[d]
    BY <1>1, <1>3
  <2> QED
    BY <1>1, <1>2, <1>3, <2>1, OthersKeep
<1>4. CASE d = c
  <2>1. ReadsBeforeWriting(c) /\ SeesWhatIsKnown(c)
    BY <1>1 DEF HistoryInv, HistoryAt
  <2>2. Yields(c)' = Yields(c) /\ Appended(c)' = Appended(c)
    BY <1>1 DEF Yields, Appended, Retained, YieldsIn
  <2>3. Known(c)' = Known(c) /\ YieldsIn(journal, c)' = YieldsIn(journal, c)
    BY <1>1, <2>2 DEF Known, YieldsIn
  <2>4. pending[c] \in Event
    BY <1>1 DEF Stored, RunInv, Busy, BusyAt
  <2>5. seen'[c] = Known(c) /\ seen'[c] \in Seq(Event)
    BY <1>1, <2>1, <2>4, AppendProperties DEF SeesWhatIsKnown
  <2>6. ReadsBeforeWriting(c)'
    BY <1>1, <2>1, <2>2, <2>3 DEF ReadsBeforeWriting, HasEntry, Executes, Stored, Appending
  <2>7. SeesWhatIsKnown(c)'
    BY <1>1, <2>3, <2>5 DEF SeesWhatIsKnown, Stored
  <2> QED
    BY <1>4, <2>6, <2>7 DEF HistoryAt
<1> QED
  BY <1>3, <1>4

LEMMA StartKeepsHistory ==
  ASSUME RunInv, Start
  PROVE  HistoryInv'
<1>1. /\ journal' = journal /\ indexed' = Len(journal)
      /\ cursors' = [c \in Coroutine |-> 0]
      /\ seen' = [c \in Coroutine |-> <<>>]
      /\ pc' = [c \in Coroutine |-> IF c = Root THEN "ready" ELSE "idle"]
  BY DEF Start, BuildIndex, ForgetRun
<1>2. journal \in Seq(Event) /\ Len(journal) \in Nat
  BY Typed, LenProperties
<1> SUFFICES ASSUME NEW c \in Coroutine PROVE HistoryAt(c)'
  BY DEF HistoryInv
<1>3. YieldsIn(journal, c) \in Seq(Event) /\ Len(YieldsIn(journal, c)) \in Nat
  BY HistoryTyped, LenProperties
<1>4. Yields(c)' = YieldsIn(journal, c)
  BY <1>1, <1>2, WholeAndNone DEF Yields, Retained, YieldsIn
<1>5. Appended(c)' = <<>>
  BY <1>1, <1>2, WholeAndNone, PickedEmpty DEF Appended, YieldsIn
<1>6. Known(c)' = <<>>
  <2>1. SubSeq(YieldsIn(journal, c), 1, 0) = <<>> /\ <<>> \o <<>> = <<>>
    BY <1>3, WholeAndNone, EmptySeq
  <2> QED
    BY <1>1, <1>4, <1>5, <2>1 DEF Known
<1>7. ReadsBeforeWriting(c)'
  <2>1. YieldsIn(journal, c)' = Yields(c)' \o Appended(c)'
    BY <1>1, <1>3, <1>4, <1>5, WholeAndNone DEF YieldsIn
  <2> QED
    BY <1>1, <1>3, <1>4, <1>5, <2>1 DEF ReadsBeforeWriting, Executes, Appending
<1>8. SeesWhatIsKnown(c)'
  BY <1>1, <1>6, EmptySeq DEF SeesWhatIsKnown, Stored
<1> QED
  BY <1>7, <1>8 DEF HistoryAt

LEMMA HistoryKept == RunInv /\ ControlInv /\ HistoryInv /\ [Next]_vars => HistoryInv'
<1> SUFFICES ASSUME RunInv, ControlInv, HistoryInv, [Next]_vars PROVE HistoryInv'
  OBVIOUS
<1>1. ASSUME Progress PROVE HistoryInv'
  <2>1. CASE RootSteps
    BY <2>1, RootIsCoroutine, RootStepsAreSteps, QuietRoot, QuietSteps, QuietKeeps
  <2>2. ASSUME NEW c \in Coroutine, Effects(c) PROVE HistoryInv'
    BY <2>2, EffectsAreSteps, QuietEffects, QuietSteps, QuietKeeps, ReadKeeps
  <2>3. ASSUME NEW c \in Coroutine, Appends(c) PROVE HistoryInv'
    BY <2>3, AppendsAreSteps, QuietAppends, QuietSteps, QuietKeeps, StoreKeeps, AckKeeps
       DEF ControlInv
  <2>4. ASSUME NEW c \in Coroutine, Children(c) PROVE HistoryInv'
    BY <2>4, ChildrenAreSteps, QuietChildren, QuietSteps, QuietKeeps, QuietFork
  <2> QED
    BY <1>1, <2>1, <2>2, <2>3, <2>4 DEF Progress
<1>2. ASSUME RequestInterruption \/ Halt \/ UNCHANGED vars PROVE HistoryInv'
  <2>1. UNCHANGED <<journal, indexVars, run, pc, pending, failure, seen>>
    BY <1>2 DEF RequestInterruption, Halt, vars
  <2>2. Quiet
    BY <2>1 DEF Quiet, QuietAt, KnowsAll, Executes, Stored, indexVars
  <2> QED
    BY <2>2, QuietKeeps
<1>3. ASSUME Restore \/ Crash PROVE HistoryInv'
  BY <1>3 DEF Restore, Crash, HistoryInv
<1> QED
  BY <1>1, <1>2, <1>3, StartKeepsHistory DEF Next, Finished

LEMMA HistoryInvariant == Spec => []HistoryInv
<1>1. Init => HistoryInv
  BY DEF Init, HistoryInv
<1> QED
  BY <1>1, HistoryKept, RunInvariant, ControlInvariant, PTL DEF Spec

LEMMA ResumedWithHistory == RunInv /\ HistoryInv => PersistBeforeResume
<1> SUFFICES ASSUME RunInv, HistoryInv, run = "up", failure # "stale", NEW c \in Coroutine
             PROVE  /\ Len(seen[c]) <= Len(Known(c))
                    /\ seen[c] = SubSeq(Known(c), 1, Len(seen[c]))
                    /\ Len(seen[c]) >= Len(SubSeq(Yields(c), 1, cursors[c]))
  BY DEF PersistBeforeResume, Known, Appended
<1>1. ReadsBeforeWriting(c) /\ SeesWhatIsKnown(c)
  BY DEF HistoryInv, HistoryAt
<1>2. /\ Yields(c) \in Seq(Event) /\ Len(Yields(c)) \in Nat /\ cursors[c] \in Nat
      /\ Appended(c) \in Seq(Event) /\ seen[c] \in Seq(Event)
  BY <1>1, HistoryTyped, Typed DEF SeesWhatIsKnown
<1> DEFINE read == SubSeq(Yields(c), 1, cursors[c])
<1>3. read \in Seq(Event)
  <2>1. \A i \in 1 .. cursors[c] : Yields(c)[i] \in Event
    BY <1>1, <1>2, ElementOfSeq DEF ReadsBeforeWriting
  <2> QED
    BY <1>2, <2>1, SubSeqProperties
<1>4. Known(c) = read \o Appended(c)
  BY DEF Known
<1> HIDE DEF read
<1>5. /\ Known(c) \in Seq(Event) /\ Len(Known(c)) = Len(read) + Len(Appended(c))
      /\ Len(read) \in Nat /\ Len(Appended(c)) \in Nat /\ Len(seen[c]) \in Nat
  BY <1>2, <1>3, <1>4, ConcatProperties, LenProperties
<1>6. ASSUME seen[c] = Known(c)
      PROVE  /\ Len(seen[c]) <= Len(Known(c))
             /\ seen[c] = SubSeq(Known(c), 1, Len(seen[c]))
             /\ Len(seen[c]) >= Len(read)
  <2>1. SubSeq(Known(c), 1, Len(Known(c))) = Known(c)
    BY <1>5, WholeAndNone
  <2> QED
    BY <1>5, <1>6, <2>1
<1>7. ASSUME Appended(c) # <<>>, NEW e \in Event, Known(c) = Append(seen[c], e)
      PROVE  /\ Len(seen[c]) <= Len(Known(c))
             /\ seen[c] = SubSeq(Known(c), 1, Len(seen[c]))
             /\ Len(seen[c]) >= Len(read)
  <2>1. Len(Known(c)) = Len(seen[c]) + 1
    BY <1>2, <1>7, AppendProperties
  <2>2. Len(Appended(c)) # 0
    BY <1>2, <1>7, EmptySeq
  <2>3. Len(seen[c]) \in 0 .. Len(seen[c])
    BY <1>5
  <2>4. SubSeq(Append(seen[c], e), 1, Len(seen[c])) = SubSeq(seen[c], 1, Len(seen[c]))
    BY <1>2, <2>3, HeadOfAppend
  <2>5. seen[c] = SubSeq(Known(c), 1, Len(seen[c]))
    BY <1>2, <1>7, <2>4, WholeAndNone
  <2> QED
    BY <1>5, <2>1, <2>2, <2>5
<1> QED
  BY <1>1, <1>6, <1>7 DEF SeesWhatIsKnown, read

\* Under every policy, refusal, failure, halt and crash, the program of a coroutine was
\* resumed with what the journal holds of it, in order, and with nothing else.
THEOREM RunPersistBeforeResume == Spec => []PersistBeforeResume
  BY ResumedWithHistory, HistoryInvariant, RunInvariant, PTL

------------------------------------------------------------------------------
(* The refinement.  A run-live coroutine decides anew what its journal     *)
(* already holds, so the policy is excluded.                               *)

LEMMA ReplayStaysOn ==
  ASSUME LivePolicy = FALSE
  PROVE  ReplayIsOn /\ [Next]_vars => ReplayIsOn'
<1> SUFFICES ASSUME ReplayIsOn, [Next]_vars PROVE ReplayIsOn'
  OBVIOUS
<1>1. ASSUME Start \/ Restore \/ Crash PROVE ReplayIsOn'
  BY <1>1 DEF Start, Restore, Crash, BuildIndex, DropIndex, ReplayIsOn
<1>2. ASSUME RootSteps PROVE UNCHANGED <<run, disabled>>
  BY <1>2 DEF RootSteps, RootReturns, RootThrows, RootCompensates, RootFinalizes, indexVars
<1>3. ASSUME NEW c \in Coroutine, Effects(c) PROVE UNCHANGED <<run, disabled>>
  BY <1>3 DEF Effects, CallRefused, Replay, ReplayStale, Diverge, RunLive, GoLive, Execute,
     ExecuteTooLate, ConsumeYield, indexVars
<1>4. ASSUME NEW c \in Coroutine, Appends(c) PROVE UNCHANGED <<run, disabled>>
  BY <1>4 DEF Appends, Admit, RefuseAdmission, GateRefuses, BackendStores, BackendFailed,
     AckYield, AckClose, indexVars
<1>5. ASSUME NEW c \in Coroutine, Children(c) PROVE UNCHANGED <<run, disabled>>
  BY <1>5 DEF Children, Fork, ClaimAll, ChildEnds, ChildEndsUnclosed, CancelledUnaligned,
     CloseChild, Decide, Join, Unwind, indexVars
<1>6. ASSUME RequestInterruption \/ Halt \/ Finished \/ UNCHANGED vars
      PROVE  UNCHANGED <<run, disabled>>
  BY <1>6 DEF RequestInterruption, Halt, Finished, vars, indexVars
<1>7. UNCHANGED <<run, disabled>> => ReplayIsOn'
  BY DEF ReplayIsOn
<1> QED
  BY <1>1, <1>2, <1>3, <1>4, <1>5, <1>6, <1>7 DEF Next, Progress

Decided == [c \in Coroutine |-> YieldsIn(journal, c)]
Ended   == {c \in Coroutine : ClosesOf(c) # {}}

LEMMA SameHistory ==
  ASSUME journal' = journal
  PROVE  Decided' = Decided /\ Ended' = Ended
  BY DEF Decided, Ended, YieldsIn, ClosesOf

\* Nothing at or above a coroutine that is writing has closed.
LEMMA WritersAreOpen ==
  ASSUME RunInv, ControlInv, run = "up", NEW c \in Coroutine, pc[c] = "write",
         NEW d \in Coroutine, c \in Subtree[d]
  PROVE  ClosesOf(d) = {}
<1>1. ClosedAreSpent /\ JoinsWhatRuns
  BY DEF ControlInv
<1>2. CASE d = c
  BY <1>1, <1>2 DEF ClosedAreSpent, SpentAt
<1>3. CASE d # c
  <2>1. pc[d] = "join"
    BY <1>1, <1>3 DEF JoinsWhatRuns, Gone
  <2> QED
    BY <1>1, <2>1 DEF ClosedAreSpent, SpentAt
<1> QED
  BY <1>2, <1>3

\* A stored yield decides a result, a stored close ends its coroutine.
LEMMA StoreIsHistory ==
  ASSUME RunInv, ControlInv, NEW c \in Coroutine, BackendStores(c)
  PROVE  History!DecideResult(c) \/ History!End(c)
<1>1. /\ OwnEvents /\ run = "up" /\ seen' = seen /\ pc[c] = "write"
      /\ pending[c] \in Event /\ pending[c].co = c
  BY StoreFacts DEF ControlInv, BackendStores, Moves
<1>2. History!Open(c)
  BY <1>1, WritersAreOpen DEF History!Open
<1>3. \A d \in Coroutine \ {c} : ClosesOf(d)' = ClosesOf(d)
  BY <1>1, AppendsAreSteps, ClosesFacts DEF Appends
<1>4. CASE pending[c].type = "yield"
  <2>1. ClosesOf(c)' = ClosesOf(c)
    BY <1>1, <1>4, StoreFacts DEF ClosesOf
  <2>2. Ended' = Ended
    BY <1>3, <2>1 DEF Ended
  <2>3. Decided' = [Decided EXCEPT ![c] = Append(@, pending[c])]
    <3>1. \A d \in Coroutine :
            YieldsIn(journal, d)' = IF d = c THEN Append(YieldsIn(journal, c), pending[c])
                                    ELSE YieldsIn(journal, d)
      BY <1>1, <1>4, JournalGrows
    <3> QED
      BY <3>1 DEF Decided
  <2>4. Len(Decided'[c]) = Len(Decided[c]) + 1
    <3>1. Decided[c] \in Seq(Event) /\ Decided'[c] = Append(Decided[c], pending[c])
      BY <2>3, HistoryTyped DEF Decided
    <3> QED
      BY <1>1, <3>1, AppendProperties
  <2>5. pending[c] \in {e \in Event : e.type = "yield"}
    BY <1>1, <1>4
  <2>6. History!DecideResult(c)
    BY <1>1, <1>2, <2>2, <2>3, <2>4, <2>5 DEF History!DecideResult, Decided, Ended
  <2> QED
    BY <2>6
<1>5. CASE pending[c].type = "close"
  <2>1. ClosesOf(c)' # {}
    BY <1>1, <1>5, StoreFacts DEF ClosesOf
  <2>2. Ended' = Ended \cup {c}
    BY <1>3, <2>1 DEF Ended
  <2>3. Decided' = Decided
    <3>1. \A d \in Coroutine : YieldsIn(journal, d)' = YieldsIn(journal, d)
      BY <1>1, <1>5, JournalGrows
    <3> QED
      BY <3>1 DEF Decided
  <2>4. History!End(c)
    BY <1>1, <1>2, <2>2, <2>3 DEF History!End, Decided, Ended
  <2> QED
    BY <2>4
<1> QED
  BY <1>1, <1>4, <1>5 DEF Event

\* A replayed entry and an acknowledged append are each the next decided result.
LEMMA ReplayIsHistory ==
  ASSUME RunInv, HistoryInv, NEW c \in Coroutine, Replay(c)
  PROVE  History!See(c)
<1>1. /\ Calls(c) /\ failure = "none" /\ HasEntry(c) /\ run = "up" /\ journal' = journal
      /\ seen' = [seen EXCEPT ![c] = Append(@, Entry(c))]
  BY DEF Replay, Calls, Ready, Moves
<1>2. /\ Appended(c) = <<>> /\ cursors[c] < Len(Yields(c)) /\ Len(seen[c]) = cursors[c]
  BY <1>1, EntryIsNext
<1>3. YieldsIn(journal, c) = Yields(c)
  <2>1. YieldsIn(journal, c) = Yields(c) \o <<>>
    BY <1>1, <1>2 DEF HistoryInv, HistoryAt, ReadsBeforeWriting
  <2> QED
    BY <2>1, HistoryTyped, WholeAndNone
<1>4. Decided[c] = Yields(c) /\ Entry(c) = Decided[c][Len(seen[c]) + 1]
  BY <1>2, <1>3 DEF Decided, Entry
<1> QED
  BY <1>1, <1>2, <1>4, SameHistory DEF History!See, Decided, Ended

LEMMA AckIsHistory ==
  ASSUME RunInv, HistoryInv, ReplayIsOn, NEW c \in Coroutine, AckYield(c)
  PROVE  History!See(c)
<1>1. /\ run = "up" /\ Stored(c) /\ journal' = journal /\ pending[c] \in Event
      /\ seen' = [seen EXCEPT ![c] = Append(@, pending[c])]
  BY DEF AckYield, Moves, Stored, RunInv, Busy, BusyAt
<1>2. ReadsBeforeWriting(c) /\ SeesWhatIsKnown(c)
  BY <1>1 DEF HistoryInv, HistoryAt
<1>3. Appended(c) # <<>> /\ Known(c) = Append(seen[c], pending[c]) /\ seen[c] \in Seq(Event)
  BY <1>1, <1>2 DEF SeesWhatIsKnown
<1>4. cursors[c] = Len(Yields(c))
  <2>1. cursors[c] \in Nat /\ Len(Yields(c)) \in Nat
    BY Typed, HistoryTyped
  <2> QED
    BY <1>1, <1>2, <1>3, <2>1 DEF ReadsBeforeWriting, HasEntry, ReplayIsOn
<1>5. Known(c) = YieldsIn(journal, c)
  <2>1. SubSeq(Yields(c), 1, cursors[c]) = Yields(c)
    BY <1>4, HistoryTyped, WholeAndNone
  <2> QED
    BY <1>2, <2>1 DEF Known, ReadsBeforeWriting
<1>6. Decided[c] = Append(seen[c], pending[c])
  BY <1>3, <1>5 DEF Decided
<1>7. /\ Len(Decided[c]) = Len(seen[c]) + 1 /\ Len(seen[c]) \in Nat
      /\ Decided[c][Len(seen[c]) + 1] = pending[c]
  BY <1>1, <1>3, <1>6, AppendProperties, LenProperties
<1>8. Len(seen[c]) < Len(Decided[c])
  BY <1>7
<1> QED
  BY <1>1, <1>7, <1>8, SameHistory DEF History!See, Decided, Ended

LEMMA StepIsHistory ==
  ASSUME RunInv, ControlInv, HistoryInv, ReplayIsOn, [Next]_vars
  PROVE  [History!HistoryNext]_History!hvars
<1>1. ASSUME UNCHANGED <<journal, seen>> PROVE UNCHANGED History!hvars
  BY <1>1, SameHistory DEF History!hvars, Decided, Ended
<1>2. ASSUME Start \/ Restore \/ Crash PROVE History!StartOver
  <2>1. seen' = [c \in Coroutine |-> <<>>] /\ journal' = journal
    BY <1>2 DEF Start, Restore, Crash, ForgetRun
  <2> QED
    BY <2>1, SameHistory DEF History!StartOver, Decided, Ended
<1>3. ASSUME RequestInterruption \/ Halt \/ UNCHANGED vars PROVE UNCHANGED <<journal, seen>>
  BY <1>3 DEF RequestInterruption, Halt, vars
<1>4. ASSUME RootSteps PROVE UNCHANGED <<journal, seen>>
  BY <1>4, QuietRoot DEF QuietStep
<1>5. ASSUME NEW c \in Coroutine, Effects(c)
      PROVE  UNCHANGED <<journal, seen>> \/ History!See(c)
  <2>1. ReplayStale(c) => UNCHANGED <<journal, seen>>
    BY DEF ReplayStale
  <2>2. ~Replay(c) /\ ~ReplayStale(c) => UNCHANGED <<journal, seen>>
    BY <1>5, QuietEffects DEF QuietStep
  <2> QED
    BY <2>1, <2>2, ReplayIsHistory
<1>6. ASSUME NEW c \in Coroutine, Appends(c)
      PROVE  \/ UNCHANGED <<journal, seen>>
             \/ History!DecideResult(c) \/ History!End(c) \/ History!See(c)
  <2>1. ~BackendStores(c) /\ ~AckYield(c) => UNCHANGED <<journal, seen>>
    BY <1>6, QuietAppends DEF QuietStep
  <2> QED
    BY <2>1, StoreIsHistory, AckIsHistory
<1>7. ASSUME NEW c \in Coroutine, Children(c) PROVE UNCHANGED <<journal, seen>>
  <2>1. Fork(c) => UNCHANGED <<journal, seen>>
    BY DEF Fork
  <2> QED
    BY <1>7, <2>1, QuietChildren DEF QuietStep
<1> QED
  BY <1>1, <1>2, <1>3, <1>4, <1>5, <1>6, <1>7
     DEF Next, Progress, Finished, History!HistoryNext

LEMMA InitIsHistory ==
  ASSUME Init
  PROVE  History!HistoryInit
<1>1. journal = <<>> /\ seen = [c \in Coroutine |-> <<>>]
  BY DEF Init, IndexInit
<1>2. \A c \in Coroutine : YieldsIn(journal, c) = <<>> /\ ClosesOf(c) = {}
  BY <1>1, PickedEmpty DEF YieldsIn, ClosesOf
<1> QED
  BY <1>1, <1>2 DEF History!HistoryInit

\* Every run - refused, failing, stopped, halted, crashed, started over with another
\* definition - is a run of DurableHistory: what was decided stays decided, nothing is
\* decided in or beneath what has ended, and results are seen once, in order.
THEOREM RunImplementsHistory ==
  ASSUME LivePolicy = FALSE
  PROVE  Spec => ImplementsHistory
<1>1. Init => History!HistoryInit
  BY InitIsHistory
<1>2. Init => ReplayIsOn
  BY DEF Init, IndexInit, ReplayIsOn
<1>3. ReplayIsOn /\ [Next]_vars => ReplayIsOn'
  BY ReplayStaysOn
<1>4. RunInv /\ ControlInv /\ HistoryInv /\ ReplayIsOn /\ [Next]_vars
        => [History!HistoryNext]_History!hvars
  BY StepIsHistory
<1> QED
  BY <1>1, <1>2, <1>3, <1>4, RunInvariant, ControlInvariant, HistoryInvariant, PTL
     DEF Spec, ImplementsHistory, History!HistorySpec
==============================================================================
