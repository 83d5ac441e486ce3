--------------------------- MODULE DurableRunProofs ---------------------------
(***************************************************************************)
(* What holds of every durable run, whatever its coroutines, definitions,  *)
(* policies and number of restarts.                                        *)
(***************************************************************************)
EXTENDS DurableRun, SequenceTheorems, TLAPS

FenceProofs == INSTANCE AppendFenceProofs WITH Turn <- Coroutine

\* Whoever appends has an event to append (and the root none otherwise), whoever closes
\* has an outcome to record, and whoever works or waits is at a step of its definition.
BusyAt(c) ==
  /\ pos[c] # 0
  /\ IF pc[c] \in {"turn", "write", "stored"} THEN pending[c] \in Event
     ELSE c = Root => pending[c] = NoEvent
  /\ (pc[c] = "closing" /\ c # Root) => outcome[c] \in Status
  /\ pc[c] \in {"live", "join"} => pos[c] \in DOMAIN def[c]

Busy == \A c \in Coroutine : BusyAt(c)

\* Only a coroutine whose turn was granted is inside the stream's append.
WriterAt(c) == pc[c] \in {"write", "stored"} => c \in granted
WritersHoldTheFence == \A c \in Coroutine : WriterAt(c)

FenceSafe == FenceProofs!FenceInv

\* The root's phase follows where the root stands: it can only be claimed while its
\* body runs, and it writes a close only when it no longer can be.
RootPhase ==
  /\ pc[Root] \in {"ready", "live", "join", "parked", "threw"} => phase \in {"open", "claimed"}
  /\ pending[Root].type = "yield" => phase \in {"open", "claimed"}
  /\ pending[Root].type = "close" => phase = "appending"
  /\ phase \in {"open", "claimed"} => retained = "none"

\* A claimed root is not open any more and no ok close of it is on its way.
Claim == accepted => phase # "open"

RunInv ==
  TypeOK /\ Busy /\ FenceSafe /\ WritersHoldTheFence /\ RootPhase /\ Claim /\ AcceptedNeverOk

LEMMA FenceSteps ==
  ASSUME FenceSafe, NEW c \in Coroutine,
         Fence!Hold(c) \/ Fence!Release(c) \/ Fence!Withdraw(c) \/ UNCHANGED fence
  PROVE  FenceSafe' /\ Fence!TypeOK'
<1>1. ASSUME Fence!Hold(c) PROVE FenceSafe'
  <2>1. FenceProofs!Hold(c)
    BY <1>1 DEF Fence!Hold, FenceProofs!Hold, Fence!Queued, FenceProofs!Queued
  <2> QED
    BY <2>1, FenceProofs!HoldKeeps DEF FenceSafe
<1>2. ASSUME Fence!Release(c) PROVE FenceSafe'
  <2>1. FenceProofs!Release(c)
    BY <1>2 DEF Fence!Release, FenceProofs!Release
  <2> QED
    BY <2>1, FenceProofs!ReleaseKeeps DEF FenceSafe
<1>3. ASSUME Fence!Withdraw(c) PROVE FenceSafe'
  <2>1. FenceProofs!Withdraw(c)
    BY <1>3 DEF Fence!Withdraw, FenceProofs!Withdraw
  <2> QED
    BY <2>1, FenceProofs!WithdrawKeeps DEF FenceSafe
<1>4. ASSUME UNCHANGED fence PROVE FenceSafe'
  BY <1>4 DEF fence, FenceSafe, FenceProofs!FenceInv, FenceProofs!TypeOK,
     FenceProofs!MutualExclusion, FenceProofs!NoStrandedFence, FenceProofs!OneTurnEach
<1>5. FenceSafe' => Fence!TypeOK'
  BY DEF FenceSafe, FenceProofs!FenceInv, FenceProofs!TypeOK, Fence!TypeOK
<1> QED
  BY <1>1, <1>2, <1>3, <1>4, <1>5

------------------------------------------------------------------------------
(* The building blocks of the actions.                                     *)

Working == {"ready", "live", "join", "parked", "threw"}
Failures == {"none", "divergence", "stale", "persistence"}

LEMMA RootIsCoroutine == Root \in Coroutine
  BY TreeAssumption DEF TreeAssumption

LEMMA LocalTypes ==
  ASSUME TypeOK
  PROVE  /\ pc \in [Coroutine -> PC] /\ pos \in [Coroutine -> Nat]
         /\ outcome \in [Coroutine -> Status \cup {"none", "torn"}]
         /\ pending \in [Coroutine -> Event \cup {NoEvent}]
         /\ closer \in {"none", "return", "catch", "finalizer"}
  BY DEF TypeOK

\* Nothing of any coroutine but c moved.
OnlyMoved(c) ==
  \A d \in Coroutine \ {c} : pc'[d] = pc[d] /\ pos'[d] = pos[d] /\ outcome'[d] = outcome[d]

LEMMA ResumeFacts ==
  ASSUME TypeOK, NEW c \in Coroutine, NEW s, Resume(c, s), outcome' = outcome
  PROVE  /\ pc' \in [Coroutine -> PC] /\ pos' \in [Coroutine -> Nat]
         /\ pc'[c] \in {"ready", "threw"}
         /\ pos'[c] # 0 \/ pos'[c] = pos[c]
         /\ OnlyMoved(c)
  BY DEF Resume, TypeOK, PC, OnlyMoved

LEMMA BeginAppendFacts ==
  ASSUME TypeOK, FenceSafe, NEW c \in Coroutine, NEW e \in Event, BeginAppend(c, e)
  PROVE  /\ pc' = [pc EXCEPT ![c] = "turn"] /\ pc' \in [Coroutine -> PC]
         /\ pending' = [pending EXCEPT ![c] = e]
         /\ pending' \in [Coroutine -> Event \cup {NoEvent}]
         /\ FenceSafe' /\ Fence!TypeOK'
         /\ granted \subseteq granted'
<1>1. FenceSafe' /\ Fence!TypeOK'
  BY FenceSteps DEF BeginAppend
<1>2. granted \subseteq granted'
  BY DEF BeginAppend, Fence!Hold
<1> QED
  BY <1>1, <1>2 DEF BeginAppend, TypeOK, PC

\* What an append that raised leaves behind: c goes on, and the root at most ends.
Raised(c) ==
  /\ pc' \in [Coroutine -> PC] /\ pos' \in [Coroutine -> Nat]
  /\ outcome' \in [Coroutine -> Status \cup {"none", "torn"}]
  /\ closer' \in {"none", "return", "catch", "finalizer"}
  /\ phase' = phase \/ (c = Root /\ pc'[c] = "ended" /\ phase' = "ended")
  /\ pc'[c] \in {"ready", "threw", "ended", "compensate"}
  /\ pos'[c] # 0 \/ pos'[c] = pos[c]
  /\ OnlyMoved(c)
  /\ (c = Root /\ pc'[c] \in {"ready", "threw"}) => phase' \in {"open", "claimed"}

LEMMA AppendRaisedFacts ==
  ASSUME TypeOK, RootPhase, NEW c \in Coroutine, pending[c] \in Event,
         NEW ordinary, AppendRaised(c, ordinary)
  PROVE  /\ Raised(c)
         /\ pending' = [pending EXCEPT ![c] = NoEvent]
         /\ retained' = retained /\ accepted' = accepted
<1>1. ASSUME pending[c].type = "yield" PROVE Raised(c)
  <2>1. Resume(c, "err") /\ outcome' = outcome /\ phase' = phase /\ closer' = closer
    BY <1>1 DEF AppendRaised
  <2>2. c = Root => phase \in {"open", "claimed"}
    BY <1>1 DEF RootPhase
  <2>3. /\ pc' \in [Coroutine -> PC] /\ pos' \in [Coroutine -> Nat]
        /\ pc'[c] \in {"ready", "threw"}
        /\ pos'[c] # 0 \/ pos'[c] = pos[c]
        /\ OnlyMoved(c)
    BY <2>1, ResumeFacts
  <2>4. /\ outcome' \in [Coroutine -> Status \cup {"none", "torn"}]
        /\ closer' \in {"none", "return", "catch", "finalizer"}
    BY <2>1 DEF TypeOK
  <2> QED
    BY <2>1, <2>2, <2>3, <2>4 DEF Raised
<1>2. ASSUME pending[c].type = "close", c # Root PROVE Raised(c)
  <2>1. /\ pc' = [pc EXCEPT ![c] = "ended"]
        /\ outcome' = [outcome EXCEPT ![c] = "torn"]
        /\ pos' = pos /\ phase' = phase /\ closer' = closer
    BY <1>2 DEF AppendRaised
  <2> QED
    BY <1>2, <2>1, LocalTypes DEF PC, Raised, OnlyMoved
<1>3. ASSUME pending[c].type = "close", c = Root, ordinary, closer = "return"
      PROVE  Raised(c)
  <2>1. /\ pc' = [pc EXCEPT ![c] = "compensate"]
        /\ pos' = pos /\ outcome' = outcome /\ phase' = phase /\ closer' = closer
    BY <1>3 DEF AppendRaised
  <2> QED
    BY <1>3, <2>1, LocalTypes DEF PC, Raised, OnlyMoved
<1>4. ASSUME pending[c].type # "yield",
             ~(pending[c].type = "close" /\ c # Root),
             ~(pending[c].type = "close" /\ c = Root /\ ordinary /\ closer = "return")
      PROVE  Raised(c)
  <2>1. /\ pc' = [pc EXCEPT ![c] = "ended"]
        /\ phase' = "ended"
        /\ closer' = "none"
        /\ pos' = pos /\ outcome' = outcome
    BY <1>4 DEF AppendRaised
  <2>2. c = Root
    BY <1>4 DEF Event
  <2> QED
    BY <2>1, <2>2, LocalTypes DEF PC, Raised, OnlyMoved
<1>5. /\ pending' = [pending EXCEPT ![c] = NoEvent]
      /\ retained' = retained /\ accepted' = accepted
  BY DEF AppendRaised
<1> QED
  BY <1>1, <1>2, <1>3, <1>4, <1>5

------------------------------------------------------------------------------
(* What one coroutine's step has to establish.                             *)

\* A step that moves c alone, and gives up no turn but that of c, keeps what holds of
\* the others.
LEMMA StepKeeps ==
  ASSUME RunInv, NEW c \in Coroutine,
         TypeOK', FenceSafe', def' = def, OnlyMoved(c),
         \A d \in Coroutine \ {c} : pending'[d] = pending[d],
         granted \ {c} \subseteq granted',
         BusyAt(c)', WriterAt(c)',
         RootPhase', Claim', AcceptedNeverOk'
  PROVE  RunInv'
<1>1. Busy'
  BY DEF RunInv, Busy, BusyAt, OnlyMoved
<1>2. WritersHoldTheFence'
  BY DEF RunInv, WritersHoldTheFence, WriterAt, OnlyMoved
<1> QED
  BY <1>1, <1>2 DEF RunInv

\* A child's step leaves the root where it was.
LEMMA ChildLeavesRoot ==
  ASSUME RunInv, NEW c \in Coroutine, c # Root, OnlyMoved(c),
         \A d \in Coroutine \ {c} : pending'[d] = pending[d], UNCHANGED root
  PROVE  RootPhase' /\ Claim' /\ AcceptedNeverOk'
  BY RootIsCoroutine DEF RunInv, OnlyMoved, root, RootPhase, Claim, AcceptedNeverOk

\* So does a step that neither ends the root's body nor touches its close.
LEMMA RootStaysPut ==
  ASSUME RunInv, pending' = pending, UNCHANGED root,
         pc'[Root] \in Working => pc[Root] \in Working
  PROVE  RootPhase' /\ Claim' /\ AcceptedNeverOk'
  BY DEF RunInv, root, RootPhase, Claim, AcceptedNeverOk, Working

\* No step of a run but an append touches the journal, and the index stays typed.
LEMMA IndexSteps ==
  ASSUME IndexTypeOK, journal' = journal, NEW c \in Coroutine,
         UNCHANGED indexVars \/ ConsumeYield(c) \/ DisableReplay(c)
  PROVE  IndexTypeOK'
<1>1. CASE UNCHANGED indexVars
  BY <1>1 DEF IndexTypeOK, indexVars
<1>2. CASE ConsumeYield(c)
  BY <1>2 DEF IndexTypeOK, ConsumeYield
<1>3. CASE DisableReplay(c)
  BY <1>3 DEF IndexTypeOK, DisableReplay
<1> QED
  BY <1>1, <1>2, <1>3

\* An effect or a combinator that hands its result to the generator.
LEMMA ResumeKeeps ==
  ASSUME RunInv, NEW c \in Coroutine, NEW s, Resume(c, s), pc[c] \in Working,
         IndexTypeOK', DOMAIN seen' = Coroutine,
         winner' \in [Coroutine -> Coroutine], failure' \in Failures,
         UNCHANGED <<fence, run, runs, def, pending, outcome, halting, root>>
  PROVE  RunInv'
<1>1. FenceSafe' /\ Fence!TypeOK'
  BY FenceSteps DEF RunInv
<1>2. /\ pc' \in [Coroutine -> PC] /\ pos' \in [Coroutine -> Nat]
      /\ pc'[c] \in {"ready", "threw"}
      /\ pos'[c] # 0 \/ pos'[c] = pos[c]
      /\ OnlyMoved(c)
  BY ResumeFacts DEF RunInv
<1>3. TypeOK'
  BY <1>1, <1>2 DEF RunInv, TypeOK, root, Failures
<1>4. BusyAt(c)' /\ WriterAt(c)'
  BY <1>2 DEF RunInv, Busy, BusyAt, WriterAt, Working
<1>5. pc'[Root] \in Working => pc[Root] \in Working
  BY <1>2, RootIsCoroutine DEF OnlyMoved
<1>6. RootPhase' /\ Claim' /\ AcceptedNeverOk'
  BY <1>5, RootStaysPut
<1> QED
  BY <1>1, <1>2, <1>3, <1>4, <1>6, StepKeeps DEF fence

\* A coroutine that moves on without an append or a result.
LEMMA MoveKeeps ==
  ASSUME RunInv, NEW c \in Coroutine, NEW new \in PC, pc' = [pc EXCEPT ![c] = new],
         IndexTypeOK', failure' \in Failures, halting' \in SUBSET Coroutine,
         winner' \in [Coroutine -> Coroutine],
         \/ new = pc[c]
         \/ new \in {"write", "stored"} /\ pending[c] \in Event /\ c \in granted
         \/ /\ new \in {"live", "closing", "ended"}
            /\ pc[c] \in Working \cup {"closing"}
            /\ new = "live" => pc[c] \in Working /\ pos[c] \in DOMAIN def[c],
         UNCHANGED <<fence, run, runs, def, pos, pending, root, seen>>,
         outcome' \in [Coroutine -> Status \cup {"none", "torn"}],
         \A d \in Coroutine \ {c} : outcome'[d] = outcome[d],
         new = "closing" /\ c # Root => outcome'[c] \in Status
  PROVE  RunInv'
<1>1. FenceSafe' /\ Fence!TypeOK'
  BY FenceSteps DEF RunInv
<1>2. pc \in [Coroutine -> PC]
  BY DEF RunInv, TypeOK
<1>3. OnlyMoved(c) /\ pc'[c] = new
  BY <1>2 DEF OnlyMoved
<1>4. TypeOK'
  BY <1>1, <1>2 DEF RunInv, TypeOK, root, Failures
<1>5. BusyAt(c)' /\ WriterAt(c)'
  BY <1>3 DEF RunInv, Busy, BusyAt, WritersHoldTheFence, WriterAt, fence, Working
<1>6. pc'[Root] \in Working => pc[Root] \in Working
  BY <1>3, RootIsCoroutine DEF OnlyMoved, Working
<1>7. RootPhase' /\ Claim' /\ AcceptedNeverOk'
  BY <1>6, RootStaysPut
<1> QED
  BY <1>1, <1>3, <1>4, <1>5, <1>7, StepKeeps DEF fence

\* A coroutine that starts an append: of an effect's result while its body runs, or of
\* the close that ends it.
LEMMA BeginAppendKeeps ==
  ASSUME RunInv, NEW c \in Coroutine, NEW e \in Event, BeginAppend(c, e),
         UNCHANGED <<journal, indexVars, run, runs, def, pos, outcome, winner, halting,
                     failure, retained, accepted, seen>>,
         closer' \in {"none", "return", "catch", "finalizer"},
         IF c = Root /\ e.type = "close"
           THEN phase' = "appending" /\ (accepted => e.status # "ok")
           ELSE phase' = phase /\ (c = Root => pc[Root] \in Working)
  PROVE  RunInv'
<1>1. /\ pc' = [pc EXCEPT ![c] = "turn"] /\ pc' \in [Coroutine -> PC]
      /\ pending' = [pending EXCEPT ![c] = e]
      /\ pending' \in [Coroutine -> Event \cup {NoEvent}]
      /\ FenceSafe' /\ Fence!TypeOK'
      /\ granted \subseteq granted'
  BY BeginAppendFacts DEF RunInv
<1>2. pc \in [Coroutine -> PC] /\ pending \in [Coroutine -> Event \cup {NoEvent}]
  BY DEF RunInv, TypeOK
<1>3. OnlyMoved(c) /\ pc'[c] = "turn"
  BY <1>1, <1>2 DEF OnlyMoved
<1>4. pending'[c] = e /\ \A d \in Coroutine \ {c} : pending'[d] = pending[d]
  BY <1>1, <1>2
<1>5. IndexTypeOK'
  BY IndexSteps DEF RunInv, TypeOK
<1>6. phase' \in {"open", "claimed", "appending", "settled", "ended"}
  BY DEF RunInv, TypeOK
<1>7. TypeOK'
  BY <1>1, <1>5, <1>6 DEF RunInv, TypeOK
<1>8. BusyAt(c)' /\ WriterAt(c)'
  BY <1>3, <1>4 DEF RunInv, Busy, BusyAt, WriterAt
<1>9. RootPhase' /\ Claim' /\ AcceptedNeverOk'
  <2>1. CASE c = Root
    BY <2>1, <1>3, <1>4 DEF RunInv, RootPhase, Claim, AcceptedNeverOk, Working, Event
  <2>2. CASE c # Root
    BY <2>2, <1>3, <1>4, RootIsCoroutine
       DEF RunInv, RootPhase, Claim, AcceptedNeverOk, OnlyMoved
  <2> QED
    BY <2>1, <2>2
<1> QED
  BY <1>1, <1>3, <1>4, <1>7, <1>8, <1>9, StepKeeps

\* A turn that is given back is the only one that ends.
LEMMA ReleaseFacts ==
  ASSUME FenceSafe, NEW c \in Coroutine, Fence!Release(c)
  PROVE  FenceSafe' /\ Fence!TypeOK' /\ granted \ {c} \subseteq granted'
<1>1. FenceSafe' /\ Fence!TypeOK'
  BY FenceSteps
<1>2. granted \ {c} \subseteq granted'
  BY DEF Fence!Release
<1> QED
  BY <1>1, <1>2

\* An append that raised gives its turn back and is over.
LEMMA RaisedKeeps ==
  ASSUME RunInv, NEW c \in Coroutine, pending[c] \in Event,
         NEW ordinary, AppendRaised(c, ordinary), Fence!Release(c),
         failure' \in Failures,
         UNCHANGED <<journal, indexVars, run, runs, def, winner, halting, seen>>
  PROVE  RunInv'
<1>1. /\ Raised(c)
      /\ pending' = [pending EXCEPT ![c] = NoEvent]
      /\ retained' = retained /\ accepted' = accepted
  BY AppendRaisedFacts DEF RunInv
<1>2. FenceSafe' /\ Fence!TypeOK' /\ granted \ {c} \subseteq granted'
  BY ReleaseFacts DEF RunInv
<1>3. pending \in [Coroutine -> Event \cup {NoEvent}]
  BY DEF RunInv, TypeOK
<1>4. /\ pending'[c] = NoEvent /\ \A d \in Coroutine \ {c} : pending'[d] = pending[d]
      /\ pending' \in [Coroutine -> Event \cup {NoEvent}]
  BY <1>1, <1>3
<1>5. IndexTypeOK'
  BY IndexSteps DEF RunInv, TypeOK
<1>6. phase' \in {"open", "claimed", "appending", "settled", "ended"}
  BY <1>1 DEF RunInv, TypeOK, Raised
<1>7. TypeOK'
  BY <1>1, <1>2, <1>4, <1>5, <1>6 DEF RunInv, TypeOK, Raised, Failures
<1>8. BusyAt(c)' /\ WriterAt(c)'
  BY <1>1, <1>4 DEF RunInv, Busy, BusyAt, WriterAt, Raised
<1>9. RootPhase' /\ Claim' /\ AcceptedNeverOk'
  <2>1. CASE c = Root
    BY <2>1, <1>1, <1>4
       DEF RunInv, RootPhase, Claim, AcceptedNeverOk, Raised, NoEvent
  <2>2. CASE c # Root
    BY <2>2, <1>1, <1>4, RootIsCoroutine
       DEF RunInv, RootPhase, Claim, AcceptedNeverOk, OnlyMoved, Raised
  <2> QED
    BY <2>1, <2>2
<1> QED
  BY <1>1, <1>2, <1>4, <1>7, <1>8, <1>9, StepKeeps DEF Raised

------------------------------------------------------------------------------
(* Effects and appends.                                                    *)

\* A coroutine that has a step to take is at a step of its definition.
LEMMA AtAStep ==
  ASSUME RunInv, NEW c \in Coroutine, HasStep(c)
  PROVE  pos[c] \in DOMAIN def[c] /\ At(c) \in Step
<1>1. def[c] \in Seq(Step) /\ pos[c] \in Nat /\ pos[c] # 0
  BY DefinitionAssumption DEF DefinitionAssumption, RunInv, TypeOK, Busy, BusyAt
<1> QED
  BY <1>1 DEF HasStep, At

\* So is one that works on a step or waits at it.
LEMMA AtItsStep ==
  ASSUME RunInv, NEW c \in Coroutine, pos[c] \in DOMAIN def[c]
  PROVE  At(c) \in Step
<1>1. def[c] \in Seq(Step)
  BY DefinitionAssumption DEF DefinitionAssumption, RunInv, TypeOK
<1> QED
  BY <1>1 DEF At

LEMMA EffectsKeep ==
  ASSUME RunInv, NEW c \in Coroutine, Effects(c)
  PROVE  RunInv'
<1>1. /\ IndexTypeOK /\ failure \in Failures /\ DOMAIN seen = Coroutine
      /\ winner \in [Coroutine -> Coroutine] /\ halting \in SUBSET Coroutine
      /\ outcome \in [Coroutine -> Status \cup {"none", "torn"}]
  BY DEF RunInv, TypeOK, Failures
<1>2. ASSUME Calls(c) PROVE pc[c] \in Working /\ pos[c] \in DOMAIN def[c] /\ At(c) \in Step
  BY <1>2, AtAStep DEF Calls, Ready, Working
<1>3. ASSUME CallRefused(c) PROVE RunInv'
  BY <1>1, <1>2, <1>3, IndexSteps, ResumeKeeps DEF CallRefused
<1>4. ASSUME Replay(c) PROVE RunInv'
  <2>1. DOMAIN seen' = Coroutine
    BY <1>1, <1>4 DEF Replay
  <2> QED
    BY <1>1, <1>2, <1>4, <2>1, IndexSteps, ResumeKeeps DEF Replay
<1>5. ASSUME ReplayStale(c) PROVE RunInv'
  BY <1>1, <1>2, <1>5, IndexSteps, ResumeKeeps DEF ReplayStale, Failures
<1>6. ASSUME Diverge(c) PROVE RunInv'
  BY <1>1, <1>2, <1>6, IndexSteps, ResumeKeeps DEF Diverge, Failures
<1>7. ASSUME RunLive(c) PROVE RunInv'
  BY <1>1, <1>2, <1>7, IndexSteps, MoveKeeps DEF RunLive, PC
<1>8. ASSUME GoLive(c) PROVE RunInv'
  BY <1>1, <1>2, <1>8, IndexSteps, MoveKeeps DEF GoLive, PC
<1>9. ASSUME Execute(c) PROVE RunInv'
  <2>1. PICK s \in Outcomes : BeginAppend(c, YieldOf(c, At(c).name, s))
    BY <1>9 DEF Execute
  <2>2. At(c) \in Step
    BY <1>9, AtItsStep DEF Execute, RunInv, Busy, BusyAt
  <2>3. /\ YieldOf(c, At(c).name, s) \in Event
        /\ YieldOf(c, At(c).name, s).type = "yield"
    BY <2>2, PolicyAssumption DEF PolicyAssumption, YieldOf, Event, Step, Status
  <2>4. closer \in {"none", "return", "catch", "finalizer"}
    BY DEF RunInv, TypeOK
  <2> QED
    BY <1>9, <2>1, <2>3, <2>4, BeginAppendKeeps DEF Execute, Working, root
<1>10. ASSUME ExecuteTooLate(c) PROVE RunInv'
  BY <1>1, <1>10, IndexSteps, ResumeKeeps DEF ExecuteTooLate, Working
<1> QED
  BY <1>3, <1>4, <1>5, <1>6, <1>7, <1>8, <1>9, <1>10 DEF Effects

\* The append of a stored event ends: a result resumes its coroutine, a close ends it.
LEMMA AckYieldKeeps ==
  ASSUME RunInv, NEW c \in Coroutine, AckYield(c)
  PROVE  RunInv'
<1>1. Resume(c, pending[c].status) /\ outcome' = outcome /\ UNCHANGED root
  BY DEF AckYield
<1>2. /\ pc' \in [Coroutine -> PC] /\ pos' \in [Coroutine -> Nat]
      /\ pc'[c] \in {"ready", "threw"}
      /\ pos'[c] # 0 \/ pos'[c] = pos[c]
      /\ OnlyMoved(c)
  BY <1>1, ResumeFacts DEF RunInv
<1>3. FenceSafe' /\ Fence!TypeOK' /\ granted \ {c} \subseteq granted'
  BY ReleaseFacts DEF RunInv, AckYield
<1>4. /\ pending \in [Coroutine -> Event \cup {NoEvent}]
      /\ pending' = [pending EXCEPT ![c] = NoEvent]
      /\ DOMAIN seen = Coroutine
  BY DEF RunInv, TypeOK, AckYield
<1>5. /\ pending'[c] = NoEvent /\ \A d \in Coroutine \ {c} : pending'[d] = pending[d]
      /\ pending' \in [Coroutine -> Event \cup {NoEvent}]
      /\ DOMAIN seen' = Coroutine
  BY <1>4 DEF AckYield
<1>6. IndexTypeOK'
  BY IndexSteps DEF RunInv, TypeOK, AckYield
<1>7. TypeOK'
  BY <1>1, <1>2, <1>3, <1>5, <1>6 DEF RunInv, TypeOK, AckYield, root
<1>8. BusyAt(c)' /\ WriterAt(c)'
  BY <1>2, <1>5 DEF RunInv, Busy, BusyAt, WriterAt
<1>9. RootPhase' /\ Claim' /\ AcceptedNeverOk'
  <2>1. CASE c = Root
    <3>1. phase \in {"open", "claimed"}
      BY <2>1 DEF RunInv, RootPhase, AckYield
    <3> QED
      BY <2>1, <1>1, <1>5, <3>1
         DEF RunInv, RootPhase, Claim, AcceptedNeverOk, NoEvent, root
  <2>2. CASE c # Root
    BY <2>2, <1>1, <1>2, <1>5, ChildLeavesRoot
  <2> QED
    BY <2>1, <2>2
<1>10. def' = def
  BY DEF AckYield
<1> QED
  BY <1>2, <1>3, <1>5, <1>7, <1>8, <1>9, <1>10, StepKeeps

LEMMA AckCloseKeeps ==
  ASSUME RunInv, NEW c \in Coroutine, AckClose(c)
  PROVE  RunInv'
<1>1. /\ pc \in [Coroutine -> PC] /\ pending \in [Coroutine -> Event \cup {NoEvent}]
      /\ pending[c] \in Event
  BY DEF RunInv, TypeOK, Busy, BusyAt, AckClose
<1>2. /\ OnlyMoved(c) /\ pc'[c] = "ended" /\ pc' \in [Coroutine -> PC]
      /\ pending'[c] = NoEvent /\ \A d \in Coroutine \ {c} : pending'[d] = pending[d]
      /\ pending' \in [Coroutine -> Event \cup {NoEvent}]
  BY <1>1 DEF AckClose, OnlyMoved, PC
<1>3. FenceSafe' /\ Fence!TypeOK' /\ granted \ {c} \subseteq granted'
  BY ReleaseFacts DEF RunInv, AckClose
<1>4. IndexTypeOK'
  BY IndexSteps DEF RunInv, TypeOK, AckClose
<1>5. \/ c # Root /\ UNCHANGED root
      \/ /\ c = Root /\ phase' = "settled" /\ retained' = pending[c].status
         /\ closer' = "none" /\ accepted' = accepted
  BY DEF AckClose
<1>6. TypeOK'
  <2>1. /\ phase' \in {"open", "claimed", "appending", "settled", "ended"}
        /\ retained' \in Status \cup {"none"}
        /\ closer' \in {"none", "return", "catch", "finalizer"}
        /\ accepted' \in BOOLEAN
    BY <1>1, <1>5 DEF RunInv, TypeOK, root, Event
  <2> QED
    BY <1>2, <1>3, <1>4, <2>1 DEF RunInv, TypeOK, AckClose
<1>7. BusyAt(c)' /\ WriterAt(c)'
  BY <1>2 DEF RunInv, Busy, BusyAt, WriterAt, AckClose
<1>8. RootPhase' /\ Claim' /\ AcceptedNeverOk'
  <2>1. CASE c = Root
    BY <2>1, <1>2, <1>5
       DEF RunInv, RootPhase, Claim, AcceptedNeverOk, NoEvent, AckClose
  <2>2. CASE c # Root
    BY <2>2, <1>2, <1>5, ChildLeavesRoot
  <2> QED
    BY <2>1, <2>2
<1>9. def' = def
  BY DEF AckClose
<1> QED
  BY <1>2, <1>3, <1>6, <1>7, <1>8, <1>9, StepKeeps

LEMMA AppendsKeep ==
  ASSUME RunInv, NEW c \in Coroutine, Appends(c)
  PROVE  RunInv'
<1>1. /\ IndexTypeOK /\ failure \in Failures
      /\ winner \in [Coroutine -> Coroutine] /\ halting \in SUBSET Coroutine
      /\ outcome \in [Coroutine -> Status \cup {"none", "torn"}]
  BY DEF RunInv, TypeOK, Failures
<1>2. ASSUME pc[c] \in {"turn", "write", "stored"} PROVE pending[c] \in Event
  BY <1>2 DEF RunInv, Busy, BusyAt
<1>3. ASSUME Admit(c) PROVE RunInv'
  BY <1>1, <1>2, <1>3, IndexSteps, MoveKeeps DEF Admit, PC
<1>4. ASSUME RefuseAdmission(c) PROVE RunInv'
  BY <1>1, <1>2, <1>4, RaisedKeeps DEF RefuseAdmission
<1>5. ASSUME GateRefuses(c) PROVE RunInv'
  BY <1>1, <1>2, <1>5, RaisedKeeps DEF GateRefuses
<1>6. ASSUME BackendStores(c) PROVE RunInv'
  <2>1. pending[c] \in Event /\ c \in granted
    BY <1>2, <1>6 DEF BackendStores, RunInv, WritersHoldTheFence, WriterAt
  <2>2. IndexTypeOK'
    BY <1>1, <1>6, <2>1 DEF BackendStores, IndexTypeOK, indexVars
  <2> QED
    BY <1>1, <1>6, <2>1, <2>2, MoveKeeps DEF BackendStores, PC
<1>7. ASSUME BackendFailed(c) PROVE RunInv'
  BY <1>1, <1>2, <1>7, RaisedKeeps DEF BackendFailed, Failures
<1> QED
  BY <1>3, <1>4, <1>5, <1>6, <1>7, AckYieldKeeps, AckCloseKeeps DEF Appends

------------------------------------------------------------------------------
(* Children.                                                               *)

\* Claiming identities reaches nothing but coroutines.
LEMMA ClaimsAreCoroutines ==
  ASSUME IndexTypeOK, journal' = journal, NEW ids \in SUBSET Coroutine, ClaimAll(ids)
  PROVE  IndexTypeOK'
<1>1. \A k \in ids : ClaimSet(k) \subseteq Coroutine
  BY TreeAssumption DEF TreeAssumption, ClaimSet
<1>2. claimed' \in SUBSET Coroutine
  BY <1>1 DEF ClaimAll, IndexTypeOK
<1> QED
  BY <1>2 DEF ClaimAll, IndexTypeOK

LEMMA ForkKeeps ==
  ASSUME RunInv, NEW c \in Coroutine, Fork(c)
  PROVE  RunInv'
<1>1. /\ At(c).kids \in SUBSET (Coroutine \ {Root})
      /\ pos[c] \in DOMAIN def[c] /\ pc[c] = "ready"
  BY AtAStep DEF Fork, Forks, Ready, Step
<1>2. IndexTypeOK'
  BY <1>1, ClaimsAreCoroutines DEF Fork, RunInv, TypeOK
<1>3. FenceSafe' /\ Fence!TypeOK'
  BY FenceSteps DEF RunInv, Fork
<1>4. pc' \in [Coroutine -> PC]
  BY DEF Fork, RunInv, TypeOK, PC
<1>5. outcome' \in [Coroutine -> Status \cup {"none", "torn"}]
  BY DEF Fork, RunInv, TypeOK, Status
<1>6. TypeOK'
  BY <1>2, <1>3, <1>4, <1>5 DEF RunInv, TypeOK, Fork, root
<1>7. \A d \in Coroutine :
        \/ pc'[d] = pc[d] /\ outcome'[d] = outcome[d]
        \/ d = c /\ pc'[d] = "join"
        \/ d \in At(c).kids /\ pc'[d] \in {"parked", "ended", "ready"}
  BY DEF Fork
<1>8. Busy'
  BY <1>1, <1>7 DEF RunInv, Busy, BusyAt, Fork
<1>9. WritersHoldTheFence'
  BY <1>7 DEF RunInv, WritersHoldTheFence, WriterAt, Fork, fence
<1>10. RootPhase' /\ Claim' /\ AcceptedNeverOk'
  <2>1. pc'[Root] \in Working => pc[Root] \in Working
    BY <1>1, <1>7, RootIsCoroutine DEF Working
  <2> QED
    BY <2>1, RootStaysPut DEF Fork
<1> QED
  BY <1>3, <1>6, <1>8, <1>9, <1>10 DEF RunInv

\* A halted coroutine gives its turn back, or its place in the queue.
LEMMA UnwindKeeps ==
  ASSUME RunInv, NEW c \in Coroutine, Unwind(c)
  PROVE  RunInv'
<1>1. /\ pc \in [Coroutine -> PC] /\ pending \in [Coroutine -> Event \cup {NoEvent}]
      /\ outcome \in [Coroutine -> Status \cup {"none", "torn"}]
  BY DEF RunInv, TypeOK
<1>2. /\ OnlyMoved(c) /\ pc'[c] \in {"ended", "closing"} /\ pc' \in [Coroutine -> PC]
      /\ outcome'[c] = "cancelled"
      /\ outcome' \in [Coroutine -> Status \cup {"none", "torn"}]
      /\ pending'[c] = NoEvent /\ \A d \in Coroutine \ {c} : pending'[d] = pending[d]
      /\ pending' \in [Coroutine -> Event \cup {NoEvent}]
  BY <1>1 DEF Unwind, OnlyMoved, PC, Status
<1>3. Fence!Release(c) \/ Fence!Withdraw(c) \/ UNCHANGED fence
  BY DEF Unwind
<1>4. FenceSafe' /\ Fence!TypeOK'
  BY <1>3, FenceSteps DEF RunInv
<1>5. granted \ {c} \subseteq granted'
  BY <1>3 DEF Fence!Release, Fence!Withdraw, fence
<1>6. IndexTypeOK'
  BY IndexSteps DEF RunInv, TypeOK, Unwind
<1>7. TypeOK'
  BY <1>2, <1>4, <1>6 DEF RunInv, TypeOK, Unwind, root
<1>8. BusyAt(c)' /\ WriterAt(c)'
  BY <1>2 DEF RunInv, Busy, BusyAt, WriterAt, Unwind, Status
<1>9. RootPhase' /\ Claim' /\ AcceptedNeverOk'
  <2>1. CASE c = Root
    BY <2>1, <1>2 DEF RunInv, RootPhase, Claim, AcceptedNeverOk, NoEvent, Unwind, root
  <2>2. CASE c # Root
    BY <2>2, <1>2, ChildLeavesRoot DEF Unwind
  <2> QED
    BY <2>1, <2>2
<1>10. def' = def
  BY DEF Unwind
<1> QED
  BY <1>2, <1>4, <1>5, <1>7, <1>8, <1>9, <1>10, StepKeeps

LEMMA ChildrenKeep ==
  ASSUME RunInv, NEW c \in Coroutine, Children(c)
  PROVE  RunInv'
<1>1. /\ IndexTypeOK /\ failure \in Failures /\ DOMAIN seen = Coroutine
      /\ winner \in [Coroutine -> Coroutine] /\ halting \in SUBSET Coroutine
      /\ outcome \in [Coroutine -> Status \cup {"none", "torn"}]
      /\ pc \in [Coroutine -> PC]
  BY DEF RunInv, TypeOK, Failures
<1>2. ASSUME ChildEnds(c) PROVE RunInv'
  <2>1. PICK s \in {"ok", "err"} : outcome' = [outcome EXCEPT ![c] = s]
    BY <1>2 DEF ChildEnds, BodyResult
  <2>2. /\ outcome' \in [Coroutine -> Status \cup {"none", "torn"}]
        /\ \A d \in Coroutine \ {c} : outcome'[d] = outcome[d]
        /\ outcome'[c] \in Status
    BY <1>1, <2>1 DEF Status
  <2>3. failure' \in Failures
    BY <1>1, <1>2 DEF ChildEnds, Failures
  <2>4. pc[c] \in Working
    BY <1>2 DEF ChildEnds, BodyEnds, Ready, Working
  <2> QED
    BY <1>1, <1>2, <2>2, <2>3, <2>4, IndexSteps, MoveKeeps DEF ChildEnds, PC
<1>3. ASSUME ChildEndsUnclosed(c) PROVE RunInv'
  BY <1>1, <1>3, IndexSteps, MoveKeeps DEF ChildEndsUnclosed, PC
<1>4. ASSUME CancelledUnaligned(c) PROVE RunInv'
  BY <1>1, <1>4, IndexSteps, MoveKeeps DEF CancelledUnaligned, PC, Failures
<1>5. ASSUME CloseChild(c) PROVE RunInv'
  <2>1. c # Root /\ outcome[c] \in Status
    BY <1>5 DEF CloseChild, RunInv, Busy, BusyAt
  <2>2. CloseOf(c, outcome[c]) \in Event
    BY <2>1 DEF CloseOf, Event
  <2>3. closer \in {"none", "return", "catch", "finalizer"}
    BY DEF RunInv, TypeOK
  <2> QED
    BY <1>5, <2>1, <2>2, <2>3, BeginAppendKeeps DEF CloseChild, root
<1>6. ASSUME Decide(c) PROVE RunInv'
  <2>1. At(c).kids \in SUBSET Coroutine
    <3>1. At(c) \in Step
      BY <1>6, AtItsStep DEF Decide, RunInv, Busy, BusyAt
    <3> QED
      BY <3>1 DEF Step
  <2>2. PICK k \in At(c).kids :
          /\ winner' = [winner EXCEPT ![c] = k]
          /\ halting' = halting \cup
                {d \in UNION {Subtree[j] : j \in At(c).kids \ {k}} : ~Gone(d)}
    BY <1>6 DEF Decide
  <2>3. winner' \in [Coroutine -> Coroutine]
    BY <1>1, <2>1, <2>2
  <2>4. UNION {Subtree[j] : j \in At(c).kids \ {k}} \subseteq Coroutine
    BY <2>1, TreeAssumption DEF TreeAssumption
  <2>5. halting' \in SUBSET Coroutine
    BY <1>1, <2>2, <2>4
  <2>6. pc[c] = "join" /\ pc[c] \in PC /\ pc' = [pc EXCEPT ![c] = pc[c]]
    BY <1>1, <1>6 DEF Decide
  <2> QED
    BY <1>1, <1>6, <2>3, <2>5, <2>6, IndexSteps, MoveKeeps DEF Decide
<1>7. ASSUME Join(c) PROVE RunInv'
  <2>1. winner' \in [Coroutine -> Coroutine]
    BY <1>1, <1>7, RootIsCoroutine DEF Join, Nobody
  <2> QED
    BY <1>1, <1>7, <2>1, IndexSteps, ResumeKeeps DEF Join, Working
<1> QED
  BY <1>2, <1>3, <1>4, <1>5, <1>6, <1>7, ForkKeeps, UnwindKeeps DEF Children

------------------------------------------------------------------------------
(* The root.                                                               *)

\* The root leaves its body or its finalizer without a close.
LEMMA RootLeaves ==
  ASSUME RunInv, NEW new \in {"ended", "closing"}, pc' = [pc EXCEPT ![Root] = new],
         phase' = phase \/ phase' = "ended", failure' \in Failures,
         pc[Root] \in Working \cup {"closing"},
         UNCHANGED <<journal, indexVars, fence, run, runs, def, pos, pending, outcome,
                     winner, halting, retained, closer, accepted, seen>>
  PROVE  RunInv'
<1>1. pc \in [Coroutine -> PC]
  BY DEF RunInv, TypeOK
<1>2. pc' \in [Coroutine -> PC] /\ pc'[Root] = new /\ OnlyMoved(Root)
  BY <1>1, RootIsCoroutine DEF PC, OnlyMoved
<1>3. FenceSafe' /\ Fence!TypeOK'
  BY RootIsCoroutine, FenceSteps DEF RunInv
<1>4. IndexTypeOK'
  BY RootIsCoroutine, IndexSteps DEF RunInv, TypeOK
<1>5. phase' \in {"open", "claimed", "appending", "settled", "ended"}
  BY DEF RunInv, TypeOK
<1>6. TypeOK'
  BY <1>2, <1>3, <1>4, <1>5 DEF RunInv, TypeOK, Failures
<1>7. BusyAt(Root)' /\ WriterAt(Root)'
  BY <1>2, RootIsCoroutine DEF RunInv, Busy, BusyAt, WriterAt, Working
<1>8. RootPhase' /\ Claim' /\ AcceptedNeverOk'
  <2>1. pending[Root].type = "none"
    BY RootIsCoroutine DEF RunInv, Busy, BusyAt, Working, NoEvent
  <2> QED
    BY <1>2, <2>1 DEF RunInv, RootPhase, Claim, AcceptedNeverOk, Working
<1> QED
  BY <1>2, <1>3, <1>6, <1>7, <1>8, RootIsCoroutine, StepKeeps DEF fence

LEMMA RootStepsKeep ==
  ASSUME RunInv, RootSteps
  PROVE  RunInv'
<1>1. /\ closer \in {"none", "return", "catch", "finalizer"} /\ failure \in Failures
      /\ accepted => phase # "open"
  BY DEF RunInv, TypeOK, Failures, Claim
<1>2. ASSUME BodyEnds(Root) PROVE pc[Root] \in Working
  BY <1>2 DEF BodyEnds, Ready, Working
<1>3. \A s \in Status : /\ CloseOf(Root, s) \in Event
                        /\ CloseOf(Root, s).type = "close" /\ CloseOf(Root, s).status = s
  BY RootIsCoroutine DEF CloseOf, Event
<1>4. ASSUME RootReturns PROVE RunInv'
  <2>1. CASE failure # "none" \/ Unaligned(Root)
    <3>1. failure' \in Failures /\ RootEnds /\ UNCHANGED <<pending, fence, closer>>
      BY <1>1, <1>4, <2>1 DEF RootReturns, Failures
    <3> QED
      BY <1>2, <1>4, <3>1, RootLeaves DEF RootReturns, RootEnds
  <2>2. CASE ~(failure # "none" \/ Unaligned(Root))
    <3> DEFINE s == IF phase = "claimed" THEN "cancelled" ELSE "ok"
    <3>1. /\ phase' = "appending" /\ closer' = "return" /\ failure' = failure
          /\ BeginAppend(Root, CloseOf(Root, s))
      BY <1>4, <2>2 DEF RootReturns
    <3>2. s \in Status
      BY DEF Status
    <3>3. phase \in {"open", "claimed"}
      BY <1>2, <1>4 DEF RootReturns, RunInv, RootPhase, Working
    <3>4. accepted => s # "ok"
      BY <1>1, <3>3
    <3> HIDE DEF s
    <3>5. CloseOf(Root, s) \in Event /\ CloseOf(Root, s).type = "close"
          /\ CloseOf(Root, s).status = s
      BY <1>3, <3>2
    <3> QED
      BY <1>4, <3>1, <3>4, <3>5, RootIsCoroutine, BeginAppendKeeps DEF RootReturns
  <2> QED
    BY <2>1, <2>2
<1>5. ASSUME RootThrows PROVE RunInv'
  <2>1. CASE failure # "none" \/ Unaligned(Root)
    <3>1. failure' \in Failures /\ RootEnds /\ UNCHANGED <<pending, fence, closer>>
      BY <1>1, <1>5, <2>1 DEF RootThrows, Failures
    <3> QED
      BY <1>2, <1>5, <3>1, RootLeaves DEF RootThrows, RootEnds
  <2>2. CASE ~(failure # "none" \/ Unaligned(Root)) /\ phase = "claimed"
    <3>1. /\ pc' = [pc EXCEPT ![Root] = "closing"]
          /\ UNCHANGED <<pending, fence, phase, closer, failure>>
      BY <1>5, <2>2 DEF RootThrows
    <3> QED
      BY <1>1, <1>2, <1>5, <3>1, RootLeaves DEF RootThrows
  <2>3. CASE ~(failure # "none" \/ Unaligned(Root)) /\ phase # "claimed"
    <3>1. /\ phase' = "appending" /\ closer' = "catch" /\ failure' = failure
          /\ BeginAppend(Root, CloseOf(Root, "err"))
      BY <1>5, <2>3 DEF RootThrows
    <3>2. /\ CloseOf(Root, "err") \in Event /\ CloseOf(Root, "err").type = "close"
          /\ CloseOf(Root, "err").status = "err"
      BY <1>3 DEF Status
    <3> QED
      BY <1>5, <3>1, <3>2, RootIsCoroutine, BeginAppendKeeps DEF RootThrows
  <2> QED
    BY <2>1, <2>2, <2>3
<1>6. ASSUME RootCompensates PROVE RunInv'
  <2>1. /\ CloseOf(Root, "err") \in Event /\ CloseOf(Root, "err").type = "close"
        /\ CloseOf(Root, "err").status = "err"
    BY <1>3 DEF Status
  <2> QED
    BY <1>6, <2>1, RootIsCoroutine, BeginAppendKeeps DEF RootCompensates
<1>7. ASSUME RootFinalizes PROVE RunInv'
  <2>1. CASE phase # "claimed"
    <3>1. RootEnds /\ UNCHANGED <<pending, fence, closer, failure>>
      BY <1>7, <2>1 DEF RootFinalizes
    <3> QED
      BY <1>1, <1>7, <3>1, RootLeaves DEF RootFinalizes, RootEnds
  <2>2. CASE phase = "claimed" /\ (failure # "none" \/ Unaligned(Root))
    <3>1. failure' \in Failures /\ RootEnds /\ UNCHANGED <<pending, fence, closer>>
      BY <1>1, <1>7, <2>2 DEF RootFinalizes, Failures
    <3> QED
      BY <1>7, <3>1, RootLeaves DEF RootFinalizes, RootEnds
  <2>3. CASE phase = "claimed" /\ ~(failure # "none" \/ Unaligned(Root))
    <3>1. /\ phase' = "appending" /\ closer' = "finalizer" /\ failure' = failure
          /\ BeginAppend(Root, CloseOf(Root, "cancelled"))
      BY <1>7, <2>3 DEF RootFinalizes
    <3>2. /\ CloseOf(Root, "cancelled") \in Event
          /\ CloseOf(Root, "cancelled").type = "close"
          /\ CloseOf(Root, "cancelled").status = "cancelled"
      BY <1>3 DEF Status
    <3> QED
      BY <1>7, <3>1, <3>2, RootIsCoroutine, BeginAppendKeeps DEF RootFinalizes
  <2> QED
    BY <2>1, <2>2, <2>3
<1> QED
  BY <1>4, <1>5, <1>6, <1>7 DEF RootSteps

------------------------------------------------------------------------------
(* Processes.                                                              *)

\* A free fence nobody waits for is a safe one.
LEMMA FreshFence ==
  ASSUME held' = FALSE, waiting' = <<>>, granted' = {}
  PROVE  FenceSafe' /\ Fence!TypeOK'
<1>1. waiting' \in Seq(Coroutine) /\ DOMAIN waiting' = {}
  OBVIOUS
<1> QED
  BY <1>1 DEF FenceSafe, FenceProofs!FenceInv, FenceProofs!TypeOK,
     FenceProofs!MutualExclusion, FenceProofs!NoStrandedFence, FenceProofs!OneTurnEach,
     Fence!TypeOK

\* A process that knows nothing but the journal is in order, whether it comes up or
\* went down.
LEMMA FreshRunInv ==
  ASSUME IndexTypeOK', ForgetRun, run' \in {"down", "up", "restored"},
         runs' \in 0 .. MaxRuns, def' \in Definition,
         \/ pc' = [c \in Coroutine |-> "idle"] /\ phase' = "ended"
         \/ /\ pc' = [c \in Coroutine |-> IF c = Root THEN "ready" ELSE "idle"]
            /\ phase' = "open" /\ retained' = "none",
         retained' \in Status \cup {"none"}
  PROVE  RunInv'
<1>1. FenceSafe' /\ Fence!TypeOK'
  BY FreshFence DEF ForgetRun
<1>2. /\ pc' \in [Coroutine -> PC]
      /\ \A c \in Coroutine : pc'[c] \in {"ready", "idle"}
  BY DEF PC
<1>3. /\ pos' = [c \in Coroutine |-> 1] /\ pending' = [c \in Coroutine |-> NoEvent]
      /\ outcome' = [c \in Coroutine |-> "none"] /\ winner' = [c \in Coroutine |-> Root]
      /\ halting' = {} /\ failure' = "none" /\ closer' = "none" /\ accepted' = FALSE
      /\ seen' = [c \in Coroutine |-> <<>>]
  BY DEF ForgetRun, Nobody
<1>4. TypeOK'
  BY <1>1, <1>2, <1>3, RootIsCoroutine DEF TypeOK
<1>5. Busy'
  BY <1>2, <1>3 DEF Busy, BusyAt
<1>6. WritersHoldTheFence'
  BY <1>2 DEF WritersHoldTheFence, WriterAt
<1>7. RootPhase'
  BY <1>3, RootIsCoroutine DEF RootPhase, NoEvent
<1>8. Claim' /\ AcceptedNeverOk'
  BY <1>3 DEF Claim, AcceptedNeverOk
<1> QED
  BY <1>1, <1>4, <1>5, <1>6, <1>7, <1>8 DEF RunInv

LEMMA RunInit ==
  ASSUME Init
  PROVE  RunInv
<1>1. FenceSafe /\ Fence!TypeOK
  BY FenceProofs!FenceInit DEF Init, Fence!Init, FenceProofs!Init, FenceSafe,
     FenceProofs!FenceInv, FenceProofs!TypeOK, Fence!TypeOK
<1>2. IndexTypeOK
  BY DEF Init, IndexInit, IndexTypeOK
<1>3. /\ pc = [c \in Coroutine |-> "idle"] /\ phase = "ended"
      /\ pos = [c \in Coroutine |-> 1] /\ pending = [c \in Coroutine |-> NoEvent]
      /\ outcome = [c \in Coroutine |-> "none"] /\ winner = [c \in Coroutine |-> Root]
      /\ accepted = FALSE /\ seen = [c \in Coroutine |-> <<>>]
  BY DEF Init, Nobody
<1>4. TypeOK
  <2>1. runs \in 0 .. MaxRuns
    BY PolicyAssumption DEF PolicyAssumption, Init
  <2>2. pc \in [Coroutine -> PC] /\ winner \in [Coroutine -> Coroutine]
    BY <1>3, RootIsCoroutine DEF PC
  <2>3. /\ pos \in [Coroutine -> Nat] /\ pending \in [Coroutine -> Event \cup {NoEvent}]
        /\ outcome \in [Coroutine -> Status \cup {"none", "torn"}]
        /\ DOMAIN seen = Coroutine
    BY <1>3
  <2>4. /\ run = "down" /\ def \in Definition /\ halting = {} /\ failure = "none"
        /\ retained = "none" /\ closer = "none"
    BY DEF Init
  <2> QED
    BY <1>1, <1>2, <1>3, <2>1, <2>2, <2>3, <2>4 DEF TypeOK
<1>5. Busy /\ WritersHoldTheFence
  BY <1>3 DEF Busy, BusyAt, WritersHoldTheFence, WriterAt
<1>6. RootPhase /\ Claim /\ AcceptedNeverOk
  BY <1>3, RootIsCoroutine DEF RootPhase, Claim, AcceptedNeverOk, NoEvent
<1> QED
  BY <1>1, <1>4, <1>5, <1>6 DEF RunInv

LEMMA ProcessesKeep ==
  ASSUME RunInv, RequestInterruption \/ Halt \/ Start \/ Restore \/ Crash
  PROVE  RunInv'
<1>1. /\ IndexTypeOK /\ runs \in Nat /\ runs \in 0 .. MaxRuns /\ def \in Definition
      /\ MaxRuns \in Nat
  BY PolicyAssumption DEF PolicyAssumption, RunInv, TypeOK
<1>2. ASSUME RequestInterruption PROVE RunInv'
  <2>1. FenceSafe' /\ Fence!TypeOK'
    BY <1>2, RootIsCoroutine, FenceSteps DEF RequestInterruption, RunInv
  <2>2. IndexTypeOK'
    BY <1>1, <1>2, RootIsCoroutine, IndexSteps DEF RequestInterruption
  <2>3. TypeOK'
    BY <1>2, <2>1, <2>2 DEF RequestInterruption, RunInv, TypeOK
  <2>4. Busy' /\ WritersHoldTheFence'
    BY <1>2 DEF RequestInterruption, RunInv, Busy, BusyAt, WritersHoldTheFence, WriterAt,
       fence
  <2>5. RootPhase' /\ Claim' /\ AcceptedNeverOk'
    BY <1>2 DEF RequestInterruption, RunInv, RootPhase, Claim, AcceptedNeverOk
  <2> QED
    BY <2>1, <2>3, <2>4, <2>5 DEF RunInv
<1>3. ASSUME Halt PROVE RunInv'
  <2>1. pc[Root] \in PC /\ pc' = [pc EXCEPT ![Root] = pc[Root]]
    BY <1>3, RootIsCoroutine DEF Halt, RunInv, TypeOK
  <2>2. /\ IndexTypeOK' /\ halting' \in SUBSET Coroutine
    BY <1>1, <1>3, RootIsCoroutine, IndexSteps DEF Halt, RunInv, TypeOK
  <2>3. /\ failure' \in Failures /\ winner' \in [Coroutine -> Coroutine]
        /\ outcome' \in [Coroutine -> Status \cup {"none", "torn"}]
    BY <1>3 DEF Halt, RunInv, TypeOK, Failures
  <2> QED
    BY <1>3, <2>1, <2>2, <2>3, RootIsCoroutine, MoveKeeps DEF Halt
<1>4. ASSUME Start PROVE RunInv'
  <2>1. IndexTypeOK'
    BY <1>1, <1>4, RootIsCoroutine DEF Start, BuildIndex, IndexTypeOK
  <2>2. runs' \in 0 .. MaxRuns /\ def' \in Definition
    BY <1>1, <1>4 DEF Start
  <2> QED
    BY <1>4, <2>1, <2>2, FreshRunInv DEF Start
<1>5. ASSUME Restore PROVE RunInv'
  <2>1. IndexTypeOK'
    BY <1>1, <1>5 DEF Restore, DropIndex, IndexTypeOK
  <2>2. runs' \in 0 .. MaxRuns /\ def' \in Definition
    BY <1>1, <1>5 DEF Restore
  <2>3. RootTerminals \subseteq Status
    <3>1. \A i \in DOMAIN journal : journal[i] \in Event
      BY <1>1 DEF IndexTypeOK
    <3>2. \A i \in DOMAIN journal : journal[i].status \in Status
      BY <3>1 DEF Event
    <3> QED
      BY <3>2 DEF RootTerminals
  <2> QED
    BY <1>5, <2>1, <2>2, <2>3, FreshRunInv DEF Restore
<1>6. ASSUME Crash PROVE RunInv'
  <2>1. IndexTypeOK'
    BY <1>1, <1>6 DEF Crash, DropIndex, IndexTypeOK
  <2> QED
    BY <1>1, <1>6, <2>1, FreshRunInv DEF Crash
<1> QED
  BY <1>2, <1>3, <1>4, <1>5, <1>6

------------------------------------------------------------------------------
(* The theorems.                                                           *)

LEMMA RunStep == RunInv /\ [Next]_vars => RunInv'
<1> SUFFICES ASSUME RunInv, [Next]_vars PROVE RunInv'
  OBVIOUS
<1>1. ASSUME Progress PROVE RunInv'
  BY <1>1, RootStepsKeep, EffectsKeep, AppendsKeep, ChildrenKeep DEF Progress
<1>2. ASSUME UNCHANGED vars PROVE RunInv'
  <2>1. pc[Root] \in PC /\ pc' = [pc EXCEPT ![Root] = pc[Root]]
    BY <1>2, RootIsCoroutine DEF vars, RunInv, TypeOK
  <2>2. IndexTypeOK'
    BY <1>2, RootIsCoroutine, IndexSteps DEF vars, RunInv, TypeOK
  <2>3. /\ failure' \in Failures /\ winner' \in [Coroutine -> Coroutine]
        /\ outcome' \in [Coroutine -> Status \cup {"none", "torn"}]
        /\ halting' \in SUBSET Coroutine
    BY <1>2 DEF vars, RunInv, TypeOK, Failures
  <2>4. pc[Root] = "closing" /\ Root # Root => outcome'[Root] \in Status
    OBVIOUS
  <2> QED
    BY <1>2, <2>1, <2>2, <2>3, <2>4, RootIsCoroutine, MoveKeeps DEF vars
<1> QED
  BY <1>1, <1>2, ProcessesKeep DEF Next, Finished

\* In every run and restart of durableRun, with any policy, gate, failing stream or
\* stop, the run's state is one the code can be in.
THEOREM RunInvariant == Spec => []RunInv
<1>1. Init => RunInv
  BY RunInit
<1> QED
  BY <1>1, RunStep, PTL DEF Spec

THEOREM RunTypes == Spec => []TypeOK
<1>1. RunInv => TypeOK
  BY DEF RunInv
<1> QED
  BY <1>1, RunInvariant, PTL

\* Two coroutines are never inside the stream's append at once, however many wait,
\* are cancelled, refused or fail: a writer holds the fence, and one turn does.
THEOREM RunSingleWriter == Spec => []SingleWriter
<1>1. RunInv => SingleWriter
  BY DEF RunInv, WritersHoldTheFence, WriterAt, FenceSafe, FenceProofs!FenceInv,
     FenceProofs!MutualExclusion, SingleWriter
<1> QED
  BY <1>1, RunInvariant, PTL

\* A run that accepted a Stop neither stores nor acknowledges an ok terminal, whether
\* its body returns, throws or is halted and whatever its gate refuses.
THEOREM RunAcceptedNeverOk == Spec => []AcceptedNeverOk
<1>1. RunInv => AcceptedNeverOk
  BY DEF RunInv
<1> QED
  BY <1>1, RunInvariant, PTL

------------------------------------------------------------------------------
(* Fail stop: what is left to a run that failed.                           *)

\* No coroutine goes to its executor or into the backend.
NoneAdvances == \A d \in Coroutine : pc'[d] \in {"live", "write"} => pc'[d] = pc[d]

\* The steps open to c once the run failed leave the failure and the cursors alone.
Frozen == failure' = failure /\ cursors' = cursors /\ NoneAdvances

LEMMA MovedOnly ==
  ASSUME NEW c \in Coroutine, OnlyMoved(c), pc'[c] \notin {"live", "write"}
  PROVE  NoneAdvances
  BY DEF OnlyMoved, NoneAdvances

LEMMA SetFreezes ==
  ASSUME RunInv, NEW c \in Coroutine, NEW new, new \notin {"live", "write"},
         pc' = [pc EXCEPT ![c] = new]
  PROVE  NoneAdvances
<1>1. pc \in [Coroutine -> PC]
  BY DEF RunInv, TypeOK
<1> QED
  BY <1>1 DEF NoneAdvances

LEMMA ResumeFreezes ==
  ASSUME RunInv, NEW c \in Coroutine, NEW s, Resume(c, s), outcome' = outcome
  PROVE  NoneAdvances
<1>1. pc'[c] \in {"ready", "threw"} /\ OnlyMoved(c)
  BY ResumeFacts DEF RunInv
<1> QED
  BY <1>1, MovedOnly

LEMMA RaisedFreezes ==
  ASSUME RunInv, NEW c \in Coroutine, pc[c] \in {"turn", "write", "stored"},
         NEW ordinary, AppendRaised(c, ordinary)
  PROVE  NoneAdvances
<1>1. pending[c] \in Event
  BY DEF RunInv, Busy, BusyAt
<1>2. Raised(c)
  BY <1>1, AppendRaisedFacts DEF RunInv
<1> QED
  BY <1>2, MovedOnly DEF Raised

LEMMA CoroutineFrozen ==
  ASSUME RunInv, failure # "none", NEW c \in Coroutine,
         Effects(c) \/ Appends(c) \/ Children(c)
  PROVE  Frozen
<1>1. ASSUME CallRefused(c) PROVE Frozen
  BY <1>1, ResumeFreezes DEF CallRefused, Frozen, indexVars
<1>2. ASSUME ExecuteTooLate(c) PROVE Frozen
  BY <1>2, ResumeFreezes DEF ExecuteTooLate, Frozen, indexVars
<1>3. ASSUME Effects(c) PROVE CallRefused(c) \/ ExecuteTooLate(c)
  BY <1>3 DEF Effects, Replay, ReplayStale, Diverge, RunLive, GoLive, Execute
<1>4. ASSUME RefuseAdmission(c) PROVE Frozen
  BY <1>4, RaisedFreezes DEF RefuseAdmission, Frozen, indexVars
<1>5. ASSUME GateRefuses(c) PROVE Frozen
  BY <1>5, RaisedFreezes DEF GateRefuses, Frozen, indexVars
<1>6. ASSUME BackendStores(c) PROVE Frozen
  BY <1>6, SetFreezes DEF BackendStores, Frozen, indexVars
<1>7. ASSUME BackendFailed(c) PROVE Frozen
  BY <1>7, RaisedFreezes DEF BackendFailed, Frozen, indexVars
<1>8. ASSUME AckYield(c) PROVE Frozen
  BY <1>8, ResumeFreezes DEF AckYield, Frozen, indexVars
<1>9. ASSUME AckClose(c) PROVE Frozen
  BY <1>9, SetFreezes DEF AckClose, Frozen, indexVars
<1>10. ~Admit(c)
  BY DEF Admit
<1>11. ASSUME Fork(c) PROVE Frozen
  BY <1>11 DEF Fork, ClaimAll, Frozen, NoneAdvances
<1>12. ASSUME ChildEnds(c) PROVE Frozen
  BY <1>12, SetFreezes DEF ChildEnds, Frozen, indexVars
<1>13. ASSUME ChildEndsUnclosed(c) PROVE Frozen
  BY <1>13, SetFreezes DEF ChildEndsUnclosed, Frozen, indexVars
<1>14. ~CancelledUnaligned(c) /\ ~CloseChild(c)
  BY DEF CancelledUnaligned, CloseChild
<1>15. ASSUME Decide(c) PROVE Frozen
  BY <1>15 DEF Decide, Frozen, NoneAdvances, indexVars
<1>16. ASSUME Join(c) PROVE Frozen
  BY <1>16, ResumeFreezes DEF Join, Frozen, indexVars
<1>17. ASSUME Unwind(c) PROVE Frozen
  <2>1. PICK new \in {"ended", "closing"} : pc' = [pc EXCEPT ![c] = new]
    BY <1>17 DEF Unwind
  <2> QED
    BY <1>17, <2>1, SetFreezes DEF Unwind, Frozen, indexVars
<1> QED
  BY <1>1, <1>2, <1>3, <1>4, <1>5, <1>6, <1>7, <1>8, <1>9, <1>10, <1>11, <1>12, <1>13,
     <1>14, <1>15, <1>16, <1>17 DEF Appends, Children

LEMMA RootFrozen ==
  ASSUME RunInv, failure # "none", RootSteps
  PROVE  Frozen
<1>1. PICK new \in {"ended", "turn"} : pc' = [pc EXCEPT ![Root] = new]
  BY DEF RootSteps, RootReturns, RootThrows, RootCompensates, RootFinalizes, RootEnds,
     BeginAppend
<1>2. failure' = failure /\ cursors' = cursors
  BY DEF RootSteps, RootReturns, RootThrows, RootCompensates, RootFinalizes, indexVars
<1> QED
  BY <1>1, <1>2, RootIsCoroutine, SetFreezes DEF Frozen

\* From the first persistence failure, divergence or stale input of a run on, no
\* coroutine of it replays, executes or appends anything.
THEOREM RunFailStop == Spec => FailStop
<1>1. RunInv /\ [Next]_vars => [StopsAtFailure]_vars
  <2> SUFFICES ASSUME RunInv, Next, failure # "none", run' = "up", runs' = runs
               PROVE  Frozen
    BY DEF StopsAtFailure, Frozen, NoneAdvances
  <2>1. runs \in Nat
    BY PolicyAssumption DEF PolicyAssumption, RunInv, TypeOK
  <2>2. ~Start /\ ~Restore /\ ~Crash
    BY <2>1 DEF Start, Restore, Crash
  <2>3. ASSUME RequestInterruption \/ Halt \/ Finished PROVE Frozen
    BY <2>3 DEF RequestInterruption, Halt, Finished, vars, indexVars, Frozen, NoneAdvances
  <2> QED
    BY <2>2, <2>3, CoroutineFrozen, RootFrozen DEF Next, Progress
<1> QED
  BY <1>1, RunInvariant, PTL DEF Spec, FailStop
==============================================================================
