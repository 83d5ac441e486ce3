-------------------------- MODULE AgentConversation --------------------------
(***************************************************************************)
(* One retained agent conversation (useAgentConversation in                *)
(* core/src/agent/conversation.ts) over the history file a CLI keeps it in *)
(* (SidekickWriter and conversationStream, cli/src/repl/sidekick).         *)
(*                                                                         *)
(* Calls reach the conversation through a mailbox that admits one at a     *)
(* time.  The element that reads it runs inside a durable root that never  *)
(* completes: it is halted, and the next opening replays what the history  *)
(* holds.  A call is cancelled by halting it, and it returns only once the *)
(* work it asked for has unwound.                                          *)
(*                                                                         *)
(* The agent provider and the file system are not part of the repository:  *)
(* the provider states any configuration and names any native conversation *)
(* or none, and an append whose caller has been halted may or may not      *)
(* still reach the file.                                                   *)
(***************************************************************************)
EXTENDS Naturals, Sequences, FiniteSets, Subsequence

CONSTANTS
  MaxCalls,              \* bound: admitted calls, numbered in the order of their admission
  Configs,               \* bound: the configurations a provider may state
  Natives,               \* bound: the native conversations a provider may name
  MaxOpens,              \* bound: how often the conversation is opened
  MaxFaults              \* bound: failures of the run or of a teardown

ASSUME BoundsAssumption ==
  {MaxCalls, Configs, Natives, MaxOpens, MaxFaults} \subseteq Nat

None == 0
Caller == 1 .. MaxCalls
Config == 1 .. Configs
Native == 1 .. Natives

VARIABLES
  file, memory,          \* the history on disk, and the writer's own records of it
  conv,                  \* where the conversation is in its lifetime
  open,                  \* a handle was given out and live.open still holds: live.ended is not resolved
  known,                 \* Active.known: what the sessions are built under
  established, used, order,  \* the locals of held(): native, whether used, next turn
  aligned,               \* replay left no retained entry unconsumed
  jobs,                  \* the mailbox
  work,                  \* what the element is doing, for whom, with which record
  wire,                  \* the append in flight: "none", "sent" or "stored"
  call, answer,          \* per call: where its caller is, and what it has been told
  cancelled, joined,     \* the job's resolvers that are resolved
  busy,                  \* live.busy
  cause,                 \* how a failing execution fails
  missed,                \* ghost: the history holds a record the open conversation never learnt of
  forked,                \* ghost: a record was appended while one was missed
  told,                  \* ghost: the natives of the turns whose callers got their own answer
  under,                 \* ghost: the configurations a provider was authorised under
  opens, faults          \* openings and failures spent so far

history == <<file, memory>>
view == <<known, established, used, order, aligned>>
calls == <<call, answer, cancelled, joined, busy>>
ghosts == <<missed, forked, told, under>>
bounds == <<opens, faults>>
vars == <<history, conv, open, view, jobs, work, wire, calls, cause, ghosts, bounds>>

------------------------------------------------------------------------------
(* The records of the history.  Replay compares a record by type and name,  *)
(* which are the kind and, for a turn, its order.                           *)

Entry(kind, n, config, native, u) ==
  [kind |-> kind, order |-> n, config |-> config, native |-> native, used |-> u]
Identity      == Entry("identity", 0, None, None, FALSE)
Configured(g) == Entry("config", 0, g, None, FALSE)
Turn(n, m, u) == Entry("turn", n, None, m, u)
Close         == Entry("close", 0, None, None, FALSE)
NoRecord      == Entry("none", 0, None, None, FALSE)

Of(kind, h) ==
  Picked(h, [kind : {kind}, order : 0 .. MaxCalls, config : {None} \cup Config,
             native : {None} \cup Native, used : BOOLEAN])
Same(e, f) == e.kind = f.kind /\ e.order = f.order

\* What openable() reads out of a history.
NativesOf(h) == {h[i].native : i \in DOMAIN h} \ {None}
UsedIn(h)    == \E i \in DOMAIN h : h[i].used
LastConfig(h) ==
  LET configs == Of("config", h) IN IF configs = <<>> THEN None ELSE configs[Len(configs)].config

\* Mutant of NextOrder: every entry counts, not only the turns.
NextOrderOfEntries(h) == 1 + Len(h)

\* The order the next turn takes, past every retained one.
NextOrder(h) ==
  1 + CHOOSE n \in 0 .. MaxCalls :
        /\ \A i \in DOMAIN h : h[i].order <= n
        /\ n = 0 \/ \E i \in DOMAIN h : h[i].order = n

\* Mutant of Openable: one of the native conversations is taken, however many.
OpenableAnyNative(h) == Of("close", h) = <<>>

\* openable() refuses a terminal and two native conversations.
Openable(h) == Of("close", h) = <<>> /\ Cardinality(NativesOf(h)) <= 1

\* What held() offers before it serves: the binding, the configuration, the turns.
Offered(h) ==
  <<Identity>>
    \o (IF LastConfig(h) = None THEN <<>> ELSE <<Configured(LastConfig(h))>>)
    \o Of("turn", h)
Replays(h) == \A i \in DOMAIN Offered(h) : Same(Offered(h)[i], h[i])

------------------------------------------------------------------------------
Idle == [who |-> None, at |-> "idle", turn |-> FALSE, rec |-> NoRecord]
At(step, rec) == [who |-> work.who, at |-> step, turn |-> work.turn, rec |-> rec]
Outstanding == {c \in Caller : call[c] \in {"waiting", "joining"}}

Init ==
  /\ file = <<>> /\ memory = <<>>
  /\ conv = "down" /\ open = FALSE
  /\ known = None /\ established = None /\ used = FALSE /\ order = 1 /\ aligned = TRUE
  /\ jobs = <<>> /\ work = Idle /\ wire = "none"
  /\ call = [c \in Caller |-> "new"]
  /\ answer = [c \in Caller |-> "none"]
  /\ cancelled = {} /\ joined = {}
  /\ busy = FALSE
  /\ cause = "none"
  /\ missed = FALSE /\ forked = FALSE /\ told = {} /\ under = {}
  /\ opens = 0 /\ faults = 0

------------------------------------------------------------------------------
(* Appending.  appendRecord hands the bytes over, the writer remembers them, *)
(* and the code that asked goes on.                                          *)

Send(step, rec) == work' = At(step, rec) /\ wire' = "sent"

Store ==
  /\ wire = "sent"
  /\ wire' = "stored"
  /\ file' = Append(file, work.rec)
  /\ forked' = (forked \/ missed)
  /\ UNCHANGED <<memory, conv, open, view, jobs, work, calls, cause, missed, told, under, bounds>>

\* The caller of append() goes on: the bytes are in the file and in memory.
Acknowledged ==
  /\ wire = "stored"
  /\ wire' = "none"
  /\ memory' = Append(memory, work.rec)
  /\ UNCHANGED <<file, missed, forked>>

\* The task that appends is halted or fails: a record on its way lands or does
\* not, one that landed is remembered by the writer or is not, and nobody who
\* asked for it goes on.
Abandoned ==
  \E landed \in {wire = "stored"} \cup {wire # "none"}, kept \in {FALSE} \cup {wire = "stored"} :
    /\ wire' = "none"
    /\ file' = IF landed /\ wire = "sent" THEN Append(file, work.rec) ELSE file
    /\ memory' = IF kept THEN Append(memory, work.rec) ELSE memory
    /\ missed' = (missed \/ landed)
    /\ forked' = (forked \/ (missed /\ landed))

------------------------------------------------------------------------------
(* Opening *)

\* useAgentConversation up to the spawn of serve().  A caller still leaving an
\* earlier opening shares nothing with this one, which has its own Live: it is
\* taken to have left.
Open ==
  /\ conv = "down"
  /\ opens < MaxOpens
  /\ Outstanding = {}
  /\ opens' = opens + 1
  /\ IF Openable(memory)
       THEN /\ conv' = "opening"
            /\ known' = LastConfig(memory)
            /\ established' = IF NativesOf(memory) = {} THEN None
                              ELSE CHOOSE m \in NativesOf(memory) : TRUE
            /\ used' = UsedIn(memory)
            /\ order' = NextOrder(memory)
            /\ missed' = (memory # file)
       ELSE /\ conv' = "refused"
            /\ UNCHANGED <<known, established, used, order, missed>>
  /\ UNCHANGED <<history, open, aligned, jobs, work, wire, calls, cause, forked, told, under, faults>>

\* bindConversation on an empty history writes the binding.
Bind ==
  /\ conv = "opening"
  /\ memory = <<>> /\ wire = "none"
  /\ Send("binding", Identity)
  /\ UNCHANGED <<history, conv, open, view, jobs, calls, cause, ghosts, bounds>>

Bound ==
  /\ work.at = "binding"
  /\ Acknowledged
  /\ work' = Idle
  /\ conv' = "serving"
  /\ open' = TRUE
  /\ aligned' = TRUE
  /\ UNCHANGED <<known, established, used, order, jobs, calls, cause, told, under, bounds>>

\* The binding, replayConfiguration and replayTurn over a history that holds them.
Replay ==
  /\ conv = "opening"
  /\ memory # <<>> /\ wire = "none"
  /\ conv' = IF Replays(memory) THEN "serving" ELSE "refused"
  /\ open' = Replays(memory)
  /\ aligned' = (Len(memory) = Len(Offered(memory)))
  /\ UNCHANGED <<history, known, established, used, order, jobs, work, wire, calls, cause, ghosts,
                 bounds>>

------------------------------------------------------------------------------
(* The calls *)

\* The resolvers of a call that is over are garbage.
Drop(C) ==
  /\ answer' = [c \in Caller |-> IF c \in C THEN "none" ELSE answer[c]]
  /\ cancelled' = cancelled \ C /\ joined' = joined \ C

\* admit(), the resolvers and jobs.add: a call on a closed or busy handle is
\* answered at once and leaves no trace.
Call(c) ==
  /\ open /\ ~busy
  /\ call[c] = "new" /\ \A d \in 1 .. c - 1 : call[d] # "new"
  /\ call' = [call EXCEPT ![c] = "waiting"]
  /\ busy' = TRUE
  /\ jobs' = Append(jobs, c)
  /\ UNCHANGED <<history, conv, open, view, work, wire, answer, cancelled, joined,
                 cause, ghosts, bounds>>

\* awaiting(): the job's answer, or the conversation's own ending.
Answered(c) ==
  /\ call[c] = "waiting"
  /\ answer[c] # "none" \/ ~open
  /\ call' = [call EXCEPT ![c] = "joining"]
  /\ UNCHANGED <<history, conv, open, view, jobs, work, wire, answer, cancelled, joined, busy,
                 cause, ghosts, bounds>>

\* The caller is halted before it was answered: its ensure asks for cancellation.
Cancel(c) ==
  /\ call[c] = "waiting"
  /\ call' = [call EXCEPT ![c] = "joining"]
  /\ cancelled' = cancelled \cup {c}
  /\ UNCHANGED <<history, conv, open, view, jobs, work, wire, answer, joined, busy,
                 cause, ghosts, bounds>>

\* The end of the call's ensure: joined or closed, and the mailbox is free.
Return(c) ==
  /\ call[c] = "joining"
  /\ c \in joined \/ conv = "down"
  /\ call' = [call EXCEPT ![c] = "gone"]
  /\ busy' = FALSE
  /\ Drop({c})
  /\ UNCHANGED <<history, conv, open, view, jobs, work, wire, cause, ghosts, bounds>>

------------------------------------------------------------------------------
(* The element's loop, one job at a time.                                   *)

Take ==
  /\ conv = "serving"
  /\ work.at = "idle"
  /\ jobs # <<>>
  /\ jobs' = Tail(jobs)
  /\ \E turn \in BOOLEAN :
       work' = [who |-> Head(jobs), at |-> IF turn THEN "resolving" ELSE "aside",
                turn |-> turn, rec |-> NoRecord]
  /\ UNCHANGED <<history, conv, open, view, wire, calls, cause, ghosts, bounds>>

\* An unavailable agent, another configuration than the known one, a session the
\* request did not settle, another native conversation: the turn is answered Err.
RefuseTurn ==
  /\ work.at \in {"resolving", "settled"}
  /\ work' = At("leaving", NoRecord)
  /\ answer' = [answer EXCEPT ![work.who] = "given"]
  /\ UNCHANGED <<history, conv, open, view, jobs, wire, call, cancelled, joined,
                 busy, cause, ghosts, bounds>>

\* Mutant of SaveConfiguration: what is known already is not looked at.
SaveConfigurationAgain(g) ==
  /\ work.at = "resolving"
  /\ aligned
  /\ Send("saving", Configured(g))
  /\ UNCHANGED <<history, conv, open, view, jobs, calls, cause, ghosts, bounds>>

\* admitting(): the first activation saves what the provider states,
SaveConfiguration(g) ==
  /\ work.at = "resolving"
  /\ known = None /\ aligned
  /\ g <= Cardinality({file[i].config : i \in DOMAIN file} \ {None}) + 1
  /\ Send("saving", Configured(g))
  /\ UNCHANGED <<history, conv, open, view, jobs, calls, cause, ghosts, bounds>>

\* and answers Ok only when the history holds it;
Saved ==
  /\ work.at = "saving"
  /\ Acknowledged
  /\ known' = work.rec.config
  /\ work' = At("settled", NoRecord)
  /\ under' = under \cup {known'}
  /\ UNCHANGED <<conv, open, established, used, order, aligned, jobs, calls, cause, told, bounds>>

\* every later one compares.
SameConfiguration(g) ==
  /\ work.at = "resolving"
  /\ known = g
  /\ work' = At("settled", NoRecord)
  /\ under' = under \cup {g}
  /\ UNCHANGED <<history, conv, open, view, jobs, wire, calls, cause, missed, forked, told, bounds>>

\* persistPrompt offers the turn, finds no retained entry, asks the provider and
\* appends its account of the turn.
Ran(m, u) ==
  /\ work.at = "settled"
  /\ aligned
  /\ m # None => u
  /\ m <= Cardinality(NativesOf(file)) + 1
  /\ Send("writing", Turn(order, m, u))
  /\ UNCHANGED <<history, conv, open, view, jobs, calls, cause, ghosts, bounds>>

\* A turn that ran in another native conversation than the established one is
\* answered Err, any other by its own outcome.
Recorded ==
  /\ work.at = "writing"
  /\ Acknowledged
  /\ work' = At("leaving", work.rec)
  /\ answer' = [answer EXCEPT ![work.who] = "given"]
  /\ told' = IF established \in {None, work.rec.native}
               THEN told \cup ({work.rec.native} \ {None}) ELSE told
  /\ UNCHANGED <<conv, open, view, jobs, call, cancelled, joined, busy, cause, under,
                 bounds>>

\* inspect() and evaluated() journal nothing in the conversation's own sequence.
AsideDone ==
  /\ work.at = "aside"
  /\ work' = At("leaving", NoRecord)
  /\ answer' = [answer EXCEPT ![work.who] = "given"]
  /\ UNCHANGED <<history, conv, open, view, jobs, wire, call, cancelled, joined,
                 busy, cause, ghosts, bounds>>

\* Mutant of Leave: what the turn observed stays with the turn.
LeaveUnobserved ==
  /\ work.at = "leaving"
  /\ work' = Idle
  /\ joined' = joined \cup {work.who}
  /\ order' = IF work.turn THEN order + 1 ELSE order
  /\ UNCHANGED <<history, conv, open, known, established, used, aligned, jobs, wire, call, answer,
                 cancelled, busy, cause, ghosts, bounds>>

\* The job's scope has unwound, and held() takes note of what the turn observed.
Leave ==
  /\ work.at = "leaving"
  /\ work' = Idle
  /\ joined' = joined \cup {work.who}
  /\ established' = IF established = None THEN work.rec.native ELSE established
  /\ used' = (used \/ work.rec.used)
  /\ order' = IF work.turn THEN order + 1 ELSE order
  /\ UNCHANGED <<history, conv, open, known, aligned, jobs, wire, call, answer, cancelled, busy,
                 cause, ghosts, bounds>>

\* Mutant of Halt: the call is reported joined when the halt is asked for.
HaltJoining ==
  /\ work.who \in cancelled
  /\ work.at \notin {"leaving", "unwinding"}
  /\ Abandoned
  /\ work' = At("unwinding", NoRecord)
  /\ joined' = joined \cup {work.who}
  /\ UNCHANGED <<conv, open, view, jobs, call, answer, cancelled, busy, cause, told, under, bounds>>

\* deliver() notices the cancellation and halts the turn, which starts to unwind;
Halt ==
  /\ work.who \in cancelled
  /\ work.at \notin {"leaving", "unwinding"}
  /\ Abandoned
  /\ work' = At("unwinding", NoRecord)
  /\ UNCHANGED <<conv, open, view, jobs, calls, cause, told, under, bounds>>

\* Mutant of Unwound: only a job that leaves by itself is reported joined.
UnwoundSilently ==
  /\ work.at = "unwinding"
  /\ work' = Idle
  /\ order' = IF work.turn THEN order + 1 ELSE order
  /\ UNCHANGED <<history, conv, open, known, established, used, aligned, jobs, wire, calls, cause,
                 ghosts, bounds>>

\* the call is joined when that is over.
Unwound ==
  /\ work.at = "unwinding"
  /\ work' = Idle
  /\ joined' = joined \cup ({work.who} \ {None})
  /\ order' = IF work.turn THEN order + 1 ELSE order
  /\ UNCHANGED <<history, conv, open, known, established, used, aligned, jobs, wire, call, answer,
                 cancelled, busy, cause, ghosts, bounds>>

------------------------------------------------------------------------------
(* Failures of the run.  The job's ensure still reports it joined, and the   *)
(* element throws: from here on nobody reads the mailbox.                    *)

Fails(how) ==
  /\ conv = "serving"
  /\ conv' = "failing"
  /\ cause' = how
  /\ work' = Idle
  /\ joined' = joined \cup {work.who}
  /\ UNCHANGED <<open, view, jobs, call, answer, cancelled, busy, told, under, opens>>

\* A durability failure in a turn: the append fails, or a host that observes the
\* turn does.
RunFails ==
  /\ faults < MaxFaults /\ faults' = faults + 1
  /\ work.at \in {"saving", "settled", "writing"}
  /\ Abandoned
  /\ Fails("durability")

\* The next durable operation meets a retained entry nobody offered.
Diverges ==
  /\ ~aligned
  /\ work.at = "settled" \/ (work.at = "resolving" /\ known = None)
  /\ Fails("durability")
  /\ UNCHANGED <<history, wire, missed, forked, faults>>

\* The teardown of a halted turn fails: deliver() throws what turn.halt() threw.
UnwindFails ==
  /\ faults < MaxFaults /\ faults' = faults + 1
  /\ work.at = "unwinding"
  /\ Fails("teardown")
  /\ UNCHANGED <<history, wire, missed, forked>>

\* The execution has ended and serve() with it.  An ordinary failure gives the
\* root its terminal, unless that append fails too.
ServeEnds ==
  /\ conv = "failing"
  /\ conv' = "ended"
  /\ open' = FALSE
  /\ \E closes \in {FALSE} \cup {cause = "teardown" /\ aligned} :
       /\ file' = IF closes THEN Append(file, Close) ELSE file
       /\ memory' = IF closes THEN Append(memory, Close) ELSE memory
       /\ forked' = (forked \/ (closes /\ missed))
  /\ UNCHANGED <<view, jobs, work, wire, call, answer, cancelled, joined, busy, cause,
                 missed, told, under, bounds>>

------------------------------------------------------------------------------
(* Release and restart *)

\* What the element knew goes with it.
Forget == known' = None /\ established' = None /\ used' = FALSE /\ order' = 1 /\ aligned' = TRUE

\* The scope that owns the resource ends: serve() is halted where it is.
Release ==
  /\ conv \in {"opening", "serving", "failing", "ended", "refused"}
  /\ conv' = "releasing"
  /\ IF work.at \in {"idle", "leaving", "unwinding"}
       THEN UNCHANGED <<history, work, wire, missed, forked>>
       ELSE Abandoned /\ work' = At("unwinding", NoRecord)
  /\ UNCHANGED <<open, view, jobs, calls, cause, told, under, bounds>>

\* Everything has unwound; the resource's own ensure runs last.
Closed ==
  /\ conv = "releasing"
  /\ work.at = "idle"
  /\ conv' = "down"
  /\ open' = FALSE
  /\ jobs' = <<>>
  /\ cause' = "none"
  /\ Forget
  /\ missed' = FALSE
  /\ UNCHANGED <<history, work, wire, call, answer, cancelled, joined, busy, forked, told, under,
                 bounds>>

\* The process dies.  The next one reads the file.
Crash ==
  /\ conv # "down" \/ memory # file
  /\ conv' = "down"
  /\ \E landed \in {FALSE} \cup {wire = "sent"} :
       /\ file' = IF landed THEN Append(file, work.rec) ELSE file
       /\ forked' = (forked \/ (missed /\ landed))
  /\ memory' = file'
  /\ open' = FALSE
  /\ jobs' = <<>> /\ work' = Idle /\ wire' = "none"
  /\ call' = [c \in Caller |-> IF c \in Outstanding THEN "gone" ELSE call[c]]
  /\ Drop(Outstanding)
  /\ busy' = FALSE
  /\ cause' = "none"
  /\ Forget
  /\ missed' = FALSE
  /\ UNCHANGED <<told, under, bounds>>

\* What goes on by itself: the file system takes what it was given, the element
\* serves, unwinds and ends, a caller that has its answer leaves.
OwnStep ==
  \/ Store \/ Bind \/ Bound \/ Replay
  \/ Take \/ Saved \/ Recorded \/ Leave \/ Halt \/ Unwound \/ Diverges \/ ServeEnds \/ Closed
CallerStep == \E c \in Caller : Answered(c) \/ Return(c)

\* What the owner, the callers, the provider and failures decide.
OthersStep ==
  \/ Open \/ Release \/ Crash
  \/ \E c \in Caller : Call(c) \/ Cancel(c)
  \/ RefuseTurn \/ AsideDone
  \/ \E g \in Config : SaveConfiguration(g) \/ SameConfiguration(g)
  \/ \E m \in Native \cup {None}, u \in BOOLEAN : Ran(m, u)
  \/ RunFails \/ UnwindFails

Next == OwnStep \/ CallerStep \/ OthersStep

Spec == Init /\ [][Next]_vars

\* Nothing is assumed of a provider that is asked, nor of owner and callers; a
\* teardown that has begun is assumed to finish.
Fairness == WF_vars(OwnStep) /\ WF_vars(CallerStep)

FairSpec == Spec /\ Fairness
------------------------------------------------------------------------------
Record ==
  {Identity, Close, NoRecord} \cup {Configured(g) : g \in Config}
    \cup {Turn(n, m, u) : n \in 1 .. MaxCalls, m \in Native \cup {None}, u \in BOOLEAN}

TypeOK ==
  /\ \A i \in DOMAIN file : file[i] \in Record
  /\ \A i \in DOMAIN memory : memory[i] \in Record
  /\ conv \in {"down", "opening", "serving", "failing", "releasing", "ended", "refused"}
  /\ open \in BOOLEAN /\ used \in BOOLEAN /\ aligned \in BOOLEAN /\ busy \in BOOLEAN
  /\ known \in Config \cup {None}
  /\ established \in Native \cup {None}
  /\ order \in 1 .. MaxCalls + 1
  /\ jobs \in Seq(Caller)
  /\ work.who \in Caller \cup {None} /\ work.turn \in BOOLEAN
  /\ work.at \in {"idle", "binding", "aside", "resolving", "saving", "settled",
                  "writing", "leaving", "unwinding"}
  /\ work.rec \in Record
  /\ wire \in {"none", "sent", "stored"}
  /\ call \in [Caller -> {"new", "waiting", "joining", "gone"}]
  /\ answer \in [Caller -> {"none", "given"}]
  /\ cancelled \subseteq Caller /\ joined \subseteq Caller
  /\ cause \in {"none", "durability", "teardown"}

\* "So a caller whose halt has returned knows that work is over": no work is
\* going on, nor about to, for a call that is not there any more; and the
\* mailbox holds at most the one call it admitted.
StoppedMeansStopped ==
  /\ work.who # None => work.who \in Outstanding
  /\ conv = "serving" => \A i \in DOMAIN jobs : jobs[i] \in Outstanding
  /\ \A c, d \in Outstanding : c = d

\* Over every opening, crash and cancellation, all the turns whose callers were
\* given their own outcome ran in one native conversation, and, as long as no
\* conversation wrote past a record it missed, all the sessions a provider was
\* authorised to build were built under one configuration.  The writer's own
\* records may end with another configuration than the file once two of them
\* were written by turns that were halted before they learnt so, and openable()
\* takes the last one it is shown.
OneContinuation == Cardinality(told) <= 1 /\ (forked \/ Cardinality(under) <= 1)

\* Between two jobs, a conversation that missed nothing knows exactly what a
\* reopening would read out of the file.
ViewIsHistory ==
  (conv = "serving" /\ work.at = "idle" /\ ~missed) =>
    /\ memory = file
    /\ known = LastConfig(file)
    /\ used = UsedIn(file)
    /\ IF NativesOf(file) = {} THEN established = None ELSE established \in NativesOf(file)
    /\ order >= NextOrder(file)

\* A history on which no conversation wrote past a record it missed reopens,
\* and replays exactly, unless it ended or names two native conversations.
ReopensUnlessForked ==
  /\ (conv = "refused" /\ ~forked) => ~Openable(memory)
  /\ (conv = "serving" /\ ~forked) => aligned

\* A call that was answered, cancelled or joined returns.
Settling(c) ==
  /\ c \in Outstanding
  /\ c \in joined \/ (conv = "serving" /\ (c \in cancelled \/ answer[c] # "none"))
StoppedCallsReturn == (\E c \in Caller : Settling(c)) ~> Outstanding = {}
==============================================================================
