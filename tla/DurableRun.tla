------------------------------ MODULE DurableRun ------------------------------
(***************************************************************************)
(* One durable workflow over one journal: durableRun, its children, their  *)
(* effects, the appends they share and the replay of an earlier run        *)
(* (run.ts, combinators.ts, effect.ts, durability.ts, guard.ts).           *)
(*                                                                         *)
(* A run executes a definition: for each coroutine the list of durable     *)
(* steps its generator takes.  A process may die at any moment; the next   *)
(* run starts from the journal, with the same definition or another.       *)
(* Effection is not part of the repository: what the code relies on is     *)
(* that a combinator starts all of its operations before it waits, and     *)
(* that halting a scope unwinds what is beneath it first.                  *)
(***************************************************************************)
EXTENDS ReplayIndex

CONSTANTS
  Definition,            \* the definitions a run may be started with
  Outcomes,              \* how a live effect may settle: a subset of {"ok", "err"}
  Refusable,             \* events the host's append gate may refuse
  StaleInputs,           \* a replay guard may find a retained input stale
  LivePolicy,            \* divergence policy may choose run-live
  BackendFails,          \* the stream may fail an append
  MayStop,               \* a Stop may ask the root to end as cancelled
  MayHalt,               \* the scope that owns the run may be halted
  MaxRuns                \* bound: how often the journal is opened

ASSUME PolicyAssumption ==
  /\ {StaleInputs, LivePolicy, BackendFails, MayStop, MayHalt} \subseteq BOOLEAN
  /\ Outcomes \subseteq {"ok", "err"}
  /\ MaxRuns \in Nat

Step == [op : {"call", "all", "race", "throw"}, name : Name \cup {NoName},
         kids : SUBSET (Coroutine \ {Root}), catches : BOOLEAN]

ASSUME DefinitionAssumption == Definition \subseteq [Coroutine -> Seq(Step)]

\* The n-th child of c is named "c.n" and n is never used again (ctx.childCounter in
\* combinators.ts): every child belongs to one step of one coroutine, directly beneath it.
ASSUME ChildrenAssumption ==
  \A d \in Definition : \A p \in Coroutine : \A i \in DOMAIN d[p] : \A k \in d[p][i].kids :
    /\ k \in Subtree[p] \ {p}
    /\ \A q \in Coroutine : k \in Subtree[q] => (q = k \/ p \in Subtree[q])
    /\ \A q \in Coroutine : \A j \in DOMAIN d[q] : k \in d[q][j].kids => (q = p /\ j = i)

VARIABLES
  held, waiting, granted,  \* the append fence shared by the whole run
  run,                     \* "down", "up", or "restored" from a retained root Close
  runs,                    \* bound counter: runs started so far
  def,                     \* the definition this run executes
  pc,                      \* where each coroutine stands
  pos,                     \* the step each coroutine is at
  pending,                 \* the event a coroutine is appending
  outcome,                 \* how a child's body, or its teardown, ended
  winner,                  \* the child that decided a combinator
  halting,                 \* coroutines being halted by the scope above them
  failure,                 \* the sticky durability failure of the run
  phase,                   \* the root's terminal phase
  retained,                \* the terminal the root's control reports
  closer,                  \* which path of durableRun is writing the root's Close
  accepted,                \* history: this run accepted an interruption
  seen                     \* history: results the coroutines were resumed with

fence == <<held, waiting, granted>>
root  == <<phase, retained, closer, accepted>>
vars  == <<journal, indexVars, fence, run, runs, def, pc, pos, pending, outcome,
           winner, halting, failure, root, seen>>

Fence == INSTANCE AppendFence WITH Turn <- Coroutine

NoEvent == [type |-> "none", co |-> Root, name |-> NoName, status |-> "ok"]

Nobody == Root          \* the root is nobody's child, so it never wins a combinator

PC == {"idle", "ready", "live", "turn", "write", "stored", "join", "parked",
       "threw", "closing", "compensate", "ended"}

------------------------------------------------------------------------------
(* Definitions.                                                            *)

Call(n)    == [op |-> "call", name |-> n, kids |-> {}, catches |-> FALSE]
TryCall(n) == [op |-> "call", name |-> n, kids |-> {}, catches |-> TRUE]
All(k)     == [op |-> "all", name |-> NoName, kids |-> k, catches |-> FALSE]
TryAll(k)  == [op |-> "all", name |-> NoName, kids |-> k, catches |-> TRUE]
Race(k)    == [op |-> "race", name |-> NoName, kids |-> k, catches |-> FALSE]
Throw      == [op |-> "throw", name |-> NoName, kids |-> {}, catches |-> FALSE]

HasStep(c) == pos[c] <= Len(def[c])
At(c)      == def[c][pos[c]]
Gone(c)    == pc[c] \in {"idle", "ended"}

\* A coroutine's own teardown is not interrupted by a halt from above.
InTeardown(c) ==
  /\ pc[c] \in {"turn", "write", "stored"}
  /\ pending[c].type = "close"
  /\ c = Root => closer = "finalizer"

Moves(c) == run = "up" /\ (c \in halting => InTeardown(c))
Ready(c) == Moves(c) /\ pc[c] = "ready"
Calls(c) == Ready(c) /\ HasStep(c) /\ At(c).op = "call"
Forks(c) == Ready(c) /\ HasStep(c) /\ At(c).op \in {"all", "race"}

\* The generator is resumed with a value, or with an error it may catch.
Resume(c, s) ==
  IF s = "ok" \/ At(c).catches
    THEN /\ pc' = [pc EXCEPT ![c] = "ready"]
         /\ pos' = [pos EXCEPT ![c] = @ + 1]
    ELSE /\ pc' = [pc EXCEPT ![c] = "threw"]
         /\ UNCHANGED pos

\* appendDurableEvent, up to the queue: refused at once after a failure
\* (callers test `failure` first), otherwise behind the fence.
BeginAppend(c, e) ==
  /\ pending' = [pending EXCEPT ![c] = e]
  /\ pc' = [pc EXCEPT ![c] = "turn"]
  /\ Fence!Hold(c)

------------------------------------------------------------------------------
(* Entering an effect: checkReplay and the live path (effect.ts).          *)

\* The retained entry does not describe this effect, or the coroutine runs past
\* its retained Close.
Mismatch(c) ==
  IF HasEntry(c) THEN Entry(c).name # At(c).name ELSE HasClose(c)

\* Once the run failed, no effect is replayed or executed: the failure is raised.
CallRefused(c) ==
  /\ Calls(c)
  /\ failure # "none"
  /\ Resume(c, "err")
  /\ UNCHANGED <<journal, indexVars, fence, run, runs, def, pending, outcome, winner,
                 halting, failure, root, seen>>

Replay(c) ==
  /\ Calls(c)
  /\ failure = "none"
  /\ HasEntry(c)
  /\ ~Mismatch(c)
  /\ ConsumeYield(c)
  /\ seen' = [seen EXCEPT ![c] = Append(@, Entry(c))]
  /\ Resume(c, Entry(c).status)
  /\ UNCHANGED <<journal, fence, run, runs, def, pending, outcome, winner, halting,
                 failure, root>>

ReplayStale(c) ==
  /\ StaleInputs
  /\ Calls(c)
  /\ failure = "none"
  /\ HasEntry(c)
  /\ ~Mismatch(c)
  /\ ConsumeYield(c)
  /\ failure' = "stale"
  /\ Resume(c, "err")
  /\ UNCHANGED <<journal, fence, run, runs, def, pending, outcome, winner, halting,
                 root, seen>>

Diverge(c) ==
  /\ Calls(c)
  /\ failure = "none"
  /\ Mismatch(c)
  /\ failure' = "divergence"
  /\ Resume(c, "err")
  /\ UNCHANGED <<journal, indexVars, fence, run, runs, def, pending, outcome, winner,
                 halting, root, seen>>

RunLive(c) ==
  /\ LivePolicy
  /\ Calls(c)
  /\ failure = "none"
  /\ Mismatch(c)
  /\ DisableReplay(c)
  /\ pc' = [pc EXCEPT ![c] = "live"]
  /\ UNCHANGED <<journal, fence, run, runs, def, pos, pending, outcome, winner,
                 halting, failure, root, seen>>

GoLive(c) ==
  /\ Calls(c)
  /\ failure = "none"
  /\ ~HasEntry(c)
  /\ ~Mismatch(c)
  /\ pc' = [pc EXCEPT ![c] = "live"]
  /\ UNCHANGED <<journal, indexVars, fence, run, runs, def, pos, pending, outcome,
                 winner, halting, failure, root, seen>>

\* The live work settles and its result goes to the journal before anyone sees it.
Execute(c) ==
  /\ Moves(c)
  /\ pc[c] = "live"
  /\ failure = "none"
  /\ \E s \in Outcomes : BeginAppend(c, YieldOf(c, At(c).name, s))
  /\ UNCHANGED <<journal, indexVars, run, runs, def, pos, outcome, winner, halting,
                 failure, root, seen>>

\* The run failed while the work was under way: its result is never appended.
ExecuteTooLate(c) ==
  /\ Moves(c)
  /\ pc[c] = "live"
  /\ failure # "none"
  /\ Resume(c, "err")
  /\ UNCHANGED <<journal, indexVars, fence, run, runs, def, pending, outcome, winner,
                 halting, failure, root, seen>>

------------------------------------------------------------------------------
(* The shared append (appendDurableEvent in durability.ts, guard.ts).      *)

\* The append raised: an effect is resumed with the error, a child's teardown
\* fails, the root ends - unless an ordinary refusal of the Close it returned
\* with lets it record a Close(err) instead.
AppendRaised(c, ordinary) ==
  /\ pending' = [pending EXCEPT ![c] = NoEvent]
  /\ CASE pending[c].type = "yield" ->
            Resume(c, "err") /\ UNCHANGED <<outcome, phase, closer>>
       [] pending[c].type = "close" /\ c # Root ->
            /\ pc' = [pc EXCEPT ![c] = "ended"]
            /\ outcome' = [outcome EXCEPT ![c] = "torn"]
            /\ UNCHANGED <<pos, phase, closer>>
       [] pending[c].type = "close" /\ c = Root /\ ordinary /\ closer = "return" ->
            pc' = [pc EXCEPT ![c] = "compensate"] /\ UNCHANGED <<pos, outcome, phase, closer>>
       [] OTHER ->
            /\ pc' = [pc EXCEPT ![c] = "ended"]
            /\ phase' = "ended"
            /\ closer' = "none"
            /\ UNCHANGED <<pos, outcome>>
  /\ UNCHANGED <<retained, accepted>>

\* Mutant of Admit: the failure is not checked again after waiting.
AdmitBlindly(c) ==
  /\ Moves(c)
  /\ pc[c] = "turn"
  /\ c \in granted
  /\ pc' = [pc EXCEPT ![c] = "write"]
  /\ UNCHANGED <<journal, indexVars, fence, run, runs, def, pos, pending, outcome,
                 winner, halting, failure, root, seen>>

\* The failure is checked again once the turn is ours.
Admit(c) ==
  /\ Moves(c)
  /\ pc[c] = "turn"
  /\ c \in granted
  /\ failure = "none"
  /\ pc' = [pc EXCEPT ![c] = "write"]
  /\ UNCHANGED <<journal, indexVars, fence, run, runs, def, pos, pending, outcome,
                 winner, halting, failure, root, seen>>

RefuseAdmission(c) ==
  /\ Moves(c)
  /\ pc[c] = "turn"
  /\ c \in granted
  /\ failure # "none"
  /\ Fence!Release(c)
  /\ AppendRaised(c, FALSE)
  /\ UNCHANGED <<journal, indexVars, run, runs, def, winner, halting, failure, seen>>

\* Mutants of GateRefuses: the gate is asked when the event may be stored already;
\* the turn of the refused append is kept by the frame that survives it.
GateRefusesLate(c) ==
  /\ Moves(c)
  /\ pc[c] \in {"write", "stored"}
  /\ pending[c] \in Refusable
  /\ Fence!Release(c)
  /\ AppendRaised(c, failure = "none")
  /\ UNCHANGED <<journal, indexVars, run, runs, def, winner, halting, failure, seen>>

GateRefusesHolding(c) ==
  /\ Moves(c)
  /\ pc[c] = "write"
  /\ pending[c] \in Refusable
  /\ AppendRaised(c, failure = "none")
  /\ UNCHANGED <<journal, indexVars, fence, run, runs, def, winner, halting, failure, seen>>

\* The gate refuses this event: it never reaches the backend, and the refusal is
\* an ordinary error of whoever produced it - unless the run failed meanwhile.
GateRefuses(c) ==
  /\ Moves(c)
  /\ pc[c] = "write"
  /\ pending[c] \in Refusable
  /\ Fence!Release(c)
  /\ AppendRaised(c, failure = "none")
  /\ UNCHANGED <<journal, indexVars, run, runs, def, winner, halting, failure, seen>>

\* The event becomes durable ...
BackendStores(c) ==
  /\ Moves(c)
  /\ pc[c] = "write"
  /\ journal' = Append(journal, pending[c])
  /\ pc' = [pc EXCEPT ![c] = "stored"]
  /\ UNCHANGED <<indexVars, fence, run, runs, def, pos, pending, outcome, winner,
                 halting, failure, root, seen>>

\* ... or the stream fails, before or after storing it: the first such error is
\* the run's durability failure.
BackendFailed(c) ==
  /\ BackendFails
  /\ Moves(c)
  /\ pc[c] \in {"write", "stored"}
  /\ failure' = IF failure = "none" THEN "persistence" ELSE failure
  /\ Fence!Release(c)
  /\ AppendRaised(c, FALSE)
  /\ UNCHANGED <<journal, indexVars, run, runs, def, winner, halting, seen>>

\* Mutant of AckYield: the generator is resumed while the append is under way.
AckYieldEarly(c) ==
  /\ Moves(c)
  /\ pc[c] \in {"write", "stored"}
  /\ pending[c].type = "yield"
  /\ Fence!Release(c)
  /\ seen' = [seen EXCEPT ![c] = Append(@, pending[c])]
  /\ pending' = [pending EXCEPT ![c] = NoEvent]
  /\ Resume(c, pending[c].status)
  /\ UNCHANGED <<journal, indexVars, run, runs, def, outcome, winner, halting,
                 failure, root>>

\* ... and only then does the append return and its producer go on.
AckYield(c) ==
  /\ Moves(c)
  /\ pc[c] = "stored"
  /\ pending[c].type = "yield"
  /\ Fence!Release(c)
  /\ seen' = [seen EXCEPT ![c] = Append(@, pending[c])]
  /\ pending' = [pending EXCEPT ![c] = NoEvent]
  /\ Resume(c, pending[c].status)
  /\ UNCHANGED <<journal, indexVars, run, runs, def, outcome, winner, halting,
                 failure, root>>

\* Mutant of AckClose: the path that returned reports ok whatever it wrote.
AckCloseOk(c) ==
  /\ Moves(c)
  /\ pc[c] = "stored"
  /\ pending[c].type = "close"
  /\ Fence!Release(c)
  /\ pending' = [pending EXCEPT ![c] = NoEvent]
  /\ pc' = [pc EXCEPT ![c] = "ended"]
  /\ IF c = Root
       THEN /\ phase' = "settled"
            /\ retained' = IF closer = "return" THEN "ok" ELSE pending[c].status
            /\ closer' = "none"
            /\ UNCHANGED accepted
       ELSE UNCHANGED root
  /\ UNCHANGED <<journal, indexVars, run, runs, def, pos, outcome, winner, halting,
                 failure, seen>>

AckClose(c) ==
  /\ Moves(c)
  /\ pc[c] = "stored"
  /\ pending[c].type = "close"
  /\ Fence!Release(c)
  /\ pending' = [pending EXCEPT ![c] = NoEvent]
  /\ pc' = [pc EXCEPT ![c] = "ended"]
  /\ IF c = Root
       THEN /\ phase' = "settled"
            /\ retained' = pending[c].status
            /\ closer' = "none"
            /\ UNCHANGED accepted
       ELSE UNCHANGED root
  /\ UNCHANGED <<journal, indexVars, run, runs, def, pos, outcome, winner, halting,
                 failure, seen>>

------------------------------------------------------------------------------
(* Children (combinators.ts).                                              *)

\* durableAll / durableRace: every child is claimed; a closed one is restored
\* without running - a cancelled one by waiting to be cancelled again.
Fork(c) ==
  /\ Forks(c)
  /\ ClaimAll(At(c).kids)
  /\ pc' = [d \in Coroutine |->
              IF d = c THEN "join"
              ELSE IF d \notin At(c).kids THEN pc[d]
              ELSE IF Restores(d, "cancelled") THEN "parked"
              ELSE IF HasClose(d) THEN "ended"
              ELSE "ready"]
  /\ outcome' = [d \in Coroutine |->
                   IF d \notin At(c).kids THEN outcome[d]
                   ELSE IF Restores(d, "ok") THEN "ok"
                   ELSE IF Restores(d, "err") THEN "err"
                   ELSE "none"]
  /\ UNCHANGED <<journal, fence, run, runs, def, pos, pending, winner, halting,
                 failure, root, seen>>

\* The body of a child returns or throws.
BodyEnds(c) ==
  \/ Moves(c) /\ pc[c] = "threw"
  \/ Ready(c) /\ (HasStep(c) => At(c).op = "throw")

BodyResult(c) == IF pc[c] = "ready" /\ ~HasStep(c) THEN "ok" ELSE "err"

ChildEnds(c) ==
  /\ c # Root
  /\ BodyEnds(c)
  /\ pc' = [pc EXCEPT ![c] = "closing"]
  /\ IF failure = "none" /\ Unaligned(c)
       THEN /\ failure' = "divergence"
            /\ outcome' = [outcome EXCEPT ![c] = "err"]
       ELSE /\ outcome' = [outcome EXCEPT
                 ![c] = IF failure = "none" THEN BodyResult(c) ELSE "err"]
            /\ UNCHANGED failure
  /\ UNCHANGED <<journal, indexVars, fence, run, runs, def, pos, pending, winner,
                 halting, root, seen>>

\* The ensure of runDurableChild.  No Close after a failure ...
ChildEndsUnclosed(c) ==
  /\ run = "up"
  /\ c # Root
  /\ pc[c] = "closing"
  /\ failure # "none"
  /\ pc' = [pc EXCEPT ![c] = "ended"]
  /\ UNCHANGED <<journal, indexVars, fence, run, runs, def, pos, pending, outcome,
                 winner, halting, failure, root, seen>>

\* Mutant of CancelledUnaligned: the divergence neither ends the child nor is
\* remembered.
CancelledForgetful(c) ==
  /\ run = "up"
  /\ c # Root
  /\ pc[c] = "closing"
  /\ failure = "none"
  /\ outcome[c] = "cancelled"
  /\ Unaligned(c)
  /\ outcome' = [outcome EXCEPT ![c] = "torn"]
  /\ UNCHANGED <<journal, indexVars, fence, run, runs, def, pc, pos, pending, winner,
                 halting, failure, root, seen>>

\* ... none over retained history a cancelled child never reached ...
CancelledUnaligned(c) ==
  /\ run = "up"
  /\ c # Root
  /\ pc[c] = "closing"
  /\ failure = "none"
  /\ outcome[c] = "cancelled"
  /\ Unaligned(c)
  /\ failure' = "divergence"
  /\ outcome' = [outcome EXCEPT ![c] = "torn"]
  /\ pc' = [pc EXCEPT ![c] = "ended"]
  /\ UNCHANGED <<journal, indexVars, fence, run, runs, def, pos, pending, winner,
                 halting, root, seen>>

\* ... otherwise exactly the outcome the child ended with.
CloseChild(c) ==
  /\ run = "up"
  /\ c # Root
  /\ pc[c] = "closing"
  /\ failure = "none"
  /\ ~(outcome[c] = "cancelled" /\ Unaligned(c))
  /\ BeginAppend(c, CloseOf(c, outcome[c]))
  /\ UNCHANGED <<journal, indexVars, run, runs, def, pos, outcome, winner, halting,
                 failure, root, seen>>

\* A race is decided by the first child whose body ended, an all by the first
\* that failed; the other children are halted with everything beneath them.
Decides(c, k) ==
  IF At(c).op = "race"
    THEN outcome[k] # "none"
    ELSE pc[k] = "ended" /\ outcome[k] \in {"err", "torn"}

Decide(c) ==
  /\ Moves(c)
  /\ pc[c] = "join"
  /\ winner[c] = Nobody
  /\ \E k \in At(c).kids :
       /\ Decides(c, k)
       /\ winner' = [winner EXCEPT ![c] = k]
       /\ halting' = halting \cup
            {d \in UNION {Subtree[j] : j \in At(c).kids \ {k}} : ~Gone(d)}
  /\ UNCHANGED <<journal, indexVars, fence, run, runs, def, pc, pos, pending, outcome,
                 failure, root, seen>>

JoinResult(c) ==
  IF \E k \in At(c).kids : outcome[k] = "torn" THEN "err"
  ELSE IF At(c).op = "race" THEN outcome[winner[c]]
  ELSE IF \A k \in At(c).kids : outcome[k] = "ok" THEN "ok" ELSE "err"

\* The combinator returns only after every child's scope is gone.
Join(c) ==
  /\ Moves(c)
  /\ pc[c] = "join"
  /\ \A k \in At(c).kids : pc[k] = "ended"
  /\ At(c).op = "race" => winner[c] # Nobody
  /\ Resume(c, JoinResult(c))
  /\ winner' = [winner EXCEPT ![c] = Nobody]
  /\ UNCHANGED <<journal, indexVars, fence, run, runs, def, pending, outcome, halting,
                 failure, root, seen>>

\* A halted coroutine unwinds once everything beneath it has: it gives back or
\* withdraws its turn, and its finalizer runs.  A restored one has none.
Unwind(c) ==
  /\ run = "up"
  /\ c \in halting
  /\ ~Gone(c)
  /\ pc[c] # "closing"
  /\ ~InTeardown(c)
  /\ \A d \in Subtree[c] \ {c} : Gone(d)
  /\ IF c \in granted THEN Fence!Release(c)
     ELSE IF pc[c] = "turn" THEN Fence!Withdraw(c)
     ELSE UNCHANGED fence
  /\ pending' = [pending EXCEPT ![c] = NoEvent]
  /\ pc' = [pc EXCEPT ![c] = IF @ = "parked" THEN "ended" ELSE "closing"]
  /\ outcome' = [outcome EXCEPT ![c] = "cancelled"]
  /\ UNCHANGED <<journal, indexVars, run, runs, def, pos, winner, halting, failure,
                 root, seen>>

------------------------------------------------------------------------------
(* The root (run.ts).                                                      *)

RootEnds == pc' = [pc EXCEPT ![Root] = "ended"] /\ phase' = "ended"

\* The body returns.  A failure or unreached history wins over the result; a
\* Stop that claimed the open root turns it into a cancelled close.
RootReturns ==
  /\ BodyEnds(Root)
  /\ BodyResult(Root) = "ok"
  /\ IF failure # "none" \/ Unaligned(Root)
       THEN /\ failure' = IF failure = "none" THEN "divergence" ELSE failure
            /\ RootEnds
            /\ UNCHANGED <<pending, fence, closer>>
       ELSE /\ phase' = "appending"
            /\ closer' = "return"
            /\ BeginAppend(Root,
                 CloseOf(Root, IF phase = "claimed" THEN "cancelled" ELSE "ok"))
            /\ UNCHANGED failure
  /\ UNCHANGED <<journal, indexVars, run, runs, def, pos, outcome, winner, halting,
                 retained, accepted, seen>>

\* The body throws.  A claimed root leaves its ending to the finalizer.  (The
\* divergence of an unclaimed root is raised and not remembered; nothing of the
\* run is left that could read the difference.)
RootThrows ==
  /\ BodyEnds(Root)
  /\ BodyResult(Root) = "err"
  /\ IF failure # "none" \/ Unaligned(Root)
       THEN /\ failure' = IF failure = "none" THEN "divergence" ELSE failure
            /\ RootEnds
            /\ UNCHANGED <<pending, fence, closer>>
     ELSE IF phase = "claimed"
       THEN /\ pc' = [pc EXCEPT ![Root] = "closing"]
            /\ UNCHANGED <<pending, fence, phase, closer, failure>>
       ELSE /\ phase' = "appending"
            /\ closer' = "catch"
            /\ BeginAppend(Root, CloseOf(Root, "err"))
            /\ UNCHANGED failure
  /\ UNCHANGED <<journal, indexVars, run, runs, def, pos, outcome, winner, halting,
                 retained, accepted, seen>>

\* The gate refused the close of the return path: the catch records Close(err).
RootCompensates ==
  /\ Moves(Root)
  /\ pc[Root] = "compensate"
  /\ phase' = "appending"
  /\ closer' = "catch"
  /\ BeginAppend(Root, CloseOf(Root, "err"))
  /\ UNCHANGED <<journal, indexVars, run, runs, def, pos, outcome, winner, halting,
                 failure, retained, accepted, seen>>

\* The finalizers of a halted or thrown root: a claimed one closes as cancelled,
\* any other leaves without a terminal.
RootFinalizes ==
  /\ run = "up"
  /\ pc[Root] = "closing"
  /\ IF phase # "claimed"
       THEN RootEnds /\ UNCHANGED <<pending, fence, closer, failure>>
     ELSE IF failure # "none" \/ Unaligned(Root)
       THEN /\ failure' = IF failure = "none" THEN "divergence" ELSE failure
            /\ RootEnds
            /\ UNCHANGED <<pending, fence, closer>>
       ELSE /\ phase' = "appending"
            /\ closer' = "finalizer"
            /\ BeginAppend(Root, CloseOf(Root, "cancelled"))
            /\ UNCHANGED failure
  /\ UNCHANGED <<journal, indexVars, run, runs, def, pos, outcome, winner, halting,
                 retained, accepted, seen>>

\* Mutant of RequestInterruption: a root that is writing its ending can be claimed.
RequestLate ==
  /\ MayStop
  /\ run = "up"
  /\ phase \in {"open", "appending"}
  /\ phase' = "claimed"
  /\ accepted' = TRUE
  /\ UNCHANGED <<journal, indexVars, fence, run, runs, def, pc, pos, pending, outcome,
                 winner, halting, failure, retained, closer, seen>>

\* requestInterruption(): only an open root can be claimed.
RequestInterruption ==
  /\ MayStop
  /\ run = "up"
  /\ phase = "open"
  /\ phase' = "claimed"
  /\ accepted' = TRUE
  /\ UNCHANGED <<journal, indexVars, fence, run, runs, def, pc, pos, pending, outcome,
                 winner, halting, failure, retained, closer, seen>>

\* The owner of the run halts it.
Halt ==
  /\ MayHalt
  /\ run = "up"
  /\ ~Gone(Root)
  /\ Root \notin halting
  /\ halting' = halting \cup {c \in Coroutine : ~Gone(c)}
  /\ UNCHANGED <<journal, indexVars, fence, run, runs, def, pc, pos, pending, outcome,
                 winner, failure, root, seen>>

------------------------------------------------------------------------------
(* Processes.                                                              *)

\* What a fresh process knows before it does anything.
ForgetRun ==
  /\ held' = FALSE /\ waiting' = <<>> /\ granted' = {}
  /\ pos' = [c \in Coroutine |-> 1]
  /\ pending' = [c \in Coroutine |-> NoEvent]
  /\ outcome' = [c \in Coroutine |-> "none"]
  /\ winner' = [c \in Coroutine |-> Nobody]
  /\ halting' = {}
  /\ failure' = "none"
  /\ closer' = "none"
  /\ accepted' = FALSE
  /\ seen' = [c \in Coroutine |-> <<>>]

RootTerminals ==
  {journal[i].status : i \in {j \in DOMAIN journal :
                                journal[j].type = "close" /\ journal[j].co = Root}}

Over == run \in {"down", "restored"} \/ pc[Root] = "ended"

\* durableRun over a journal that holds no root Close: the workflow runs.
Start ==
  /\ Over
  /\ runs < MaxRuns
  /\ RootTerminals = {}
  /\ \E d \in Definition : def' = d
  /\ run' = "up"
  /\ runs' = runs + 1
  /\ BuildIndex
  /\ ForgetRun
  /\ pc' = [c \in Coroutine |-> IF c = Root THEN "ready" ELSE "idle"]
  /\ phase' = "open"
  /\ retained' = "none"
  /\ UNCHANGED journal

\* A retained root Close answers for the whole workflow; nothing runs.
Restore ==
  /\ Over
  /\ runs < MaxRuns
  /\ run' = "restored"
  /\ runs' = runs + 1
  /\ retained' \in RootTerminals
  /\ DropIndex
  /\ ForgetRun
  /\ pc' = [c \in Coroutine |-> "idle"]
  /\ phase' = "ended"
  /\ UNCHANGED <<journal, def>>

\* The process dies: all that is left is the journal.
Crash ==
  /\ run = "up"
  /\ ~Gone(Root)
  /\ runs < MaxRuns
  /\ run' = "down"
  /\ DropIndex
  /\ ForgetRun
  /\ pc' = [c \in Coroutine |-> "idle"]
  /\ phase' = "ended"
  /\ retained' = "none"
  /\ UNCHANGED <<journal, runs, def>>

\* The last run is over.
Finished ==
  /\ Over
  /\ runs = MaxRuns
  /\ UNCHANGED vars

Init ==
  /\ IndexInit
  /\ Fence!Init
  /\ run = "down"
  /\ runs = 0
  /\ def \in Definition
  /\ pc = [c \in Coroutine |-> "idle"]
  /\ pos = [c \in Coroutine |-> 1]
  /\ pending = [c \in Coroutine |-> NoEvent]
  /\ outcome = [c \in Coroutine |-> "none"]
  /\ winner = [c \in Coroutine |-> Nobody]
  /\ halting = {}
  /\ failure = "none"
  /\ phase = "ended"
  /\ retained = "none"
  /\ closer = "none"
  /\ accepted = FALSE
  /\ seen = [c \in Coroutine |-> <<>>]

Effects(c) ==
  \/ CallRefused(c) \/ Replay(c) \/ ReplayStale(c) \/ Diverge(c) \/ RunLive(c)
  \/ GoLive(c) \/ Execute(c) \/ ExecuteTooLate(c)

Appends(c) ==
  \/ Admit(c) \/ RefuseAdmission(c) \/ GateRefuses(c) \/ BackendStores(c)
  \/ BackendFailed(c) \/ AckYield(c) \/ AckClose(c)

Children(c) ==
  \/ Fork(c) \/ ChildEnds(c) \/ ChildEndsUnclosed(c) \/ CancelledUnaligned(c)
  \/ CloseChild(c) \/ Decide(c) \/ Join(c) \/ Unwind(c)

RootSteps == RootReturns \/ RootThrows \/ RootCompensates \/ RootFinalizes

Progress == RootSteps \/ \E c \in Coroutine : Effects(c) \/ Appends(c) \/ Children(c)

Next == \/ Progress \/ RequestInterruption \/ Halt
        \/ Start \/ Restore \/ Crash \/ Finished

Spec == Init /\ [][Next]_vars

\* The event loop keeps running what can run, executors and the stream settle,
\* and a stopped process is started again as long as the bound allows.
FairSpec == Spec /\ WF_vars(Progress) /\ WF_vars(Start)

------------------------------------------------------------------------------
(* Properties.                                                             *)

TypeOK ==
  /\ IndexTypeOK
  /\ Fence!TypeOK
  /\ run \in {"down", "up", "restored"}
  /\ runs \in 0 .. MaxRuns
  /\ def \in Definition
  /\ pc \in [Coroutine -> PC]
  /\ pos \in [Coroutine -> Nat]
  /\ pending \in [Coroutine -> Event \cup {NoEvent}]
  /\ outcome \in [Coroutine -> Status \cup {"none", "torn"}]
  /\ winner \in [Coroutine -> Coroutine]
  /\ halting \in SUBSET Coroutine
  /\ failure \in {"none", "divergence", "stale", "persistence"}
  /\ phase \in {"open", "claimed", "appending", "settled", "ended"}
  /\ retained \in Status \cup {"none"}
  /\ closer \in {"none", "return", "catch", "finalizer"}
  /\ accepted \in BOOLEAN
  /\ DOMAIN seen = Coroutine

ClosesOf(c) == {i \in DOMAIN journal : journal[i].type = "close" /\ journal[i].co = c}

\* Two coroutines are never in the stream's append at once, whatever was
\* cancelled, refused or failed before (the fence of durability.ts).
SingleWriter ==
  \A c, d \in Coroutine :
    pc[c] \in {"write", "stored"} /\ pc[d] \in {"write", "stored"} => c = d

\* What a run with a durability failure may still do: nothing but end.
StopsAtFailure ==
  (failure # "none" /\ run' = "up" /\ runs' = runs) =>
    /\ failure' = failure
    /\ cursors' = cursors
    /\ \A c \in Coroutine : pc'[c] \in {"live", "write"} => pc'[c] = pc[c]

\* Once a run has a durability failure it replays no retained entry, starts no
\* executor and admits no append, in any coroutine (protocol section 6.3).
FailStop == [][StopsAtFailure]_vars

\* What the generator of c was resumed with is what the journal holds: first the
\* retained yields it consumed, then the yields this run appended, in order.  No
\* result is seen before it is durable, replayed twice, or skipped.
PersistBeforeResume ==
  run = "up" =>
    \A c \in Coroutine :
      LET replayed == SubSeq(Yields(c), 1, cursors[c])
          appended == YieldsIn(SubSeq(journal, indexed + 1, Len(journal)), c)
          history  == replayed \o appended
      IN failure # "stale" =>
           /\ Len(seen[c]) <= Len(history)
           /\ seen[c] = SubSeq(history, 1, Len(seen[c]))
           /\ Len(seen[c]) >= Len(replayed)

\* A coroutine that closed had everything beneath it closed before: leaves close
\* before their parents, also across crashes (protocol sections 7.4 and 8).
LeafFirst ==
  \A c \in Coroutine : \A i \in ClosesOf(c) : \A d \in Subtree[c] \ {c} :
    \A j \in DOMAIN journal :
      journal[j].co = d => /\ j < i
                           /\ \E k \in ClosesOf(d) : k < i

\* A coroutine closes once, and no event of it follows its Close.
ClosedIsFinal ==
  \A c \in Coroutine : \A i \in ClosesOf(c) :
    \A j \in DOMAIN journal : journal[j].co = c => j <= i

\* The terminal a root's caller is told is the terminal the journal holds.
RetainedIsJournaled ==
  retained # "none" => retained \in RootTerminals

\* Once a Stop claimed the open root, no ok terminal is acknowledged or stored
\* by that run, however its workflow returns.
AcceptedNeverOk ==
  accepted => /\ retained # "ok"
              /\ pending[Root].type = "close" => pending[Root].status # "ok"

\* "once a Stop holds the open root, the ordinary paths may no longer acknowledge
\* an ok or err terminal as though no claim existed" (run.ts).
AcceptedNeverErr == accepted => retained # "err"

\* A definition that wrote a journal can always be replayed against it: a run
\* never fails as divergent while the definition does not change.
NeverDiverges == failure # "divergence"

\* Under an unchanged definition only a cancelled child is ever found divergent:
\* whatever replays an effect or runs to its end agrees with the journal.
OnlyHaltedDiverge ==
  [][ (failure = "none" /\ failure' = "divergence") =>
        \E c \in halting \ {Root} : pc[c] = "closing" /\ pc'[c] = "ended"
    ]_vars

\* "This cannot deadlock" (combinators.ts): a child restored from Close(cancelled)
\* waits only beneath a combinator that will cancel it - one with a branch that
\* can still decide it and does not contain the waiting child.
ParkedIsCancellable ==
  \A c \in Coroutine : (run = "up" /\ pc[c] = "parked" /\ c \notin halting) =>
    \E p \in Coroutine :
      /\ pc[p] = "join"
      /\ c \in Subtree[p]
      /\ \E k \in At(p).kids :
           /\ c \notin Subtree[k]
           /\ pc[k] # "parked"
           /\ ~(At(p).op = "all" /\ pc[k] = "ended" /\ outcome[k] = "ok")

\* A run that is started ends, or its process dies.
RunEnds == run = "up" ~> Over

\* A run whose document has no children ends whatever happens to its ending: a
\* Stop, a halt, a refused Close and the compensating one, a failing backend.
\* (With children, a halted run may leave one parked: HaltedChildrenPark.)
ChildlessRunEnds == (run = "up" /\ \A i \in DOMAIN def[Root] : def[Root][i].kids = {}) ~> Over

\* The refinement: results are decided when they reach the journal, coroutines
\* end when their Close does.
History == INSTANCE DurableHistory WITH
  Result  <- {e \in Event : e.type = "yield"},
  decided <- [c \in Coroutine |-> YieldsIn(journal, c)],
  ended   <- {c \in Coroutine : ClosesOf(c) # {}}

\* Every run of the code, with its crashes and restarts, is a run of the history
\* a caller may rely on: results are decided once and seen in order.
ImplementsHistory == History!HistorySpec
==============================================================================
