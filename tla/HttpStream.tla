------------------------------ MODULE HttpStream ------------------------------
(***************************************************************************)
(* The HTTP journal backend (useHttpDurableStream in                       *)
(* durable-streams/http-stream.ts): callers append concurrently, a worker  *)
(* posts their events one at a time with the producer's epoch and a        *)
(* sequence number, and a scheduler that restarts opens a new producer of  *)
(* the next epoch while posts of the old one may still be on the wire.     *)
(*                                                                         *)
(* The server and the network are not part of the repository.  The server  *)
(* is modelled from the idempotent producer protocol the client is written *)
(* against (durable-streams/specs/durable-streams.md), one stream of it.   *)
(*                                                                         *)
(* An event is identified by the producer that appends it and the order of *)
(* its append: append n of producer p is <<p, n>>, and n is its sequence   *)
(* number because append() assigns that before it suspends.                *)
(***************************************************************************)
EXTENDS Naturals, Sequences, FiniteSets

CONSTANTS
  Appends,               \* bound: how many appends each producer, in turn, is asked for
  MaxFaults              \* bound: lost posts, lost answers and server errors in all

ASSUME AppendsAssumption == Appends \in Seq(Nat)
ASSUME MaxFaultsAssumption == MaxFaults \in Nat

Producer == DOMAIN Appends
Event == UNION {{p} \X (0 .. Appends[p] - 1) : p \in Producer}

VARIABLES
  phase,                 \* per producer: "absent", "open" or "gone"
  nextSeq,               \* per producer, the sequence number of its next append
  queue,                 \* per producer, the appends the worker has not taken
  posting,               \* per producer, the append whose post is unanswered, as a set
  fatal,                 \* per producer, whether fatalError is set
  appended,              \* per event, what its append() has come to
  wire,                  \* posts the server may still receive
  reply,                 \* per producer, the answer on its way back
  log,                   \* the server's stream
  last,                  \* the server's record of the producer: epoch and last sequence
  faults                 \* failures spent so far

client == <<phase, nextSeq, queue, posting, fatal, appended>>
server == <<log, last>>
vars == <<client, wire, reply, server, faults>>

Init ==
  /\ phase = [p \in Producer |-> "absent"]
  /\ nextSeq = [p \in Producer |-> 0]
  /\ queue = [p \in Producer |-> <<>>]
  /\ posting = [p \in Producer |-> {}]
  /\ fatal = [p \in Producer |-> FALSE]
  /\ appended = [x \in Event |-> "no"]
  /\ wire = {}
  /\ reply = [p \in Producer |-> "none"]
  /\ log = <<>>
  /\ last = [epoch |-> 0, seq |-> 0]
  /\ faults = 0

Fault == faults < MaxFaults /\ faults' = faults + 1

Stored(x) == \E i \in DOMAIN log : log[i] = x

\* Mutant of EpochOf: a restarted scheduler presents the epoch it had.
EpochUnchanged(p) == 1

\* opts.epoch, which the scheduler increments on every restart.
EpochOf(p) == p

-----------------------------------------------------------------------------
(* The client *)

\* The resource starts: a new producer, while its predecessor may still live.
Open(p) ==
  /\ phase[p] = "absent"
  /\ \A q \in 1 .. p - 1 : phase[q] # "absent"
  /\ phase' = [phase EXCEPT ![p] = "open"]
  /\ UNCHANGED <<nextSeq, queue, posting, fatal, appended, wire, reply, server, faults>>

\* append(): the sequence number and the place in the queue are taken at once; an
\* append after a fatal error is refused and takes neither.
AppendEvent(p) ==
  /\ phase[p] = "open"
  /\ ~fatal[p]
  /\ nextSeq[p] < Appends[p]
  /\ nextSeq' = [nextSeq EXCEPT ![p] = @ + 1]
  /\ queue' = [queue EXCEPT ![p] = Append(@, nextSeq[p])]
  /\ appended' = [appended EXCEPT ![<<p, nextSeq[p]>>] = "waiting"]
  /\ UNCHANGED <<phase, posting, fatal, wire, reply, server, faults>>

\* The caller's scope is halted while it waits; its event stays where it is.
Abandon(x) ==
  /\ appended[x] = "waiting"
  /\ appended' = [appended EXCEPT ![x] = "abandoned"]
  /\ UNCHANGED <<phase, nextSeq, queue, posting, fatal, wire, reply, server, faults>>

\* Resolve or reject the caller of x, if it still waits.
Settled(x, how) == appended' = [appended EXCEPT ![x] = IF @ = "waiting" THEN how ELSE @]

\* Mutants of Post: the worker does not wait for the previous post; it posts what
\* was queued before the failure.
PostEagerly(p) ==
  /\ phase[p] = "open"
  /\ queue[p] # <<>>
  /\ ~fatal[p]
  /\ posting' = [posting EXCEPT ![p] = @ \cup {Head(queue[p])}]
  /\ wire' = wire \cup {<<p, Head(queue[p])>>}
  /\ queue' = [queue EXCEPT ![p] = Tail(@)]
  /\ UNCHANGED <<phase, nextSeq, fatal, appended, reply, server, faults>>

PostAnyway(p) ==
  /\ phase[p] = "open"
  /\ posting[p] = {}
  /\ queue[p] # <<>>
  /\ posting' = [posting EXCEPT ![p] = {Head(queue[p])}]
  /\ wire' = wire \cup {<<p, Head(queue[p])>>}
  /\ queue' = [queue EXCEPT ![p] = Tail(@)]
  /\ UNCHANGED <<phase, nextSeq, fatal, appended, reply, server, faults>>

\* The worker takes the oldest event and posts it.
Post(p) ==
  /\ phase[p] = "open"
  /\ posting[p] = {}
  /\ queue[p] # <<>>
  /\ ~fatal[p]
  /\ posting' = [posting EXCEPT ![p] = {Head(queue[p])}]
  /\ wire' = wire \cup {<<p, Head(queue[p])>>}
  /\ queue' = [queue EXCEPT ![p] = Tail(@)]
  /\ UNCHANGED <<phase, nextSeq, fatal, appended, reply, server, faults>>

\* doAppend() after a fatal error: the event is rejected without a post.
RejectQueued(p) ==
  /\ phase[p] = "open"
  /\ posting[p] = {}
  /\ queue[p] # <<>>
  /\ fatal[p]
  /\ Settled(<<p, Head(queue[p])>>, "rejected")
  /\ queue' = [queue EXCEPT ![p] = Tail(@)]
  /\ UNCHANGED <<phase, nextSeq, posting, fatal, wire, reply, server, faults>>

\* Mutant of Answered: a failed post ends the producer but not its caller's wait.
AnsweredStranding(p, n) ==
  IF reply[p] \in {"stored", "duplicate"}
    THEN Settled(<<p, n>>, "resolved") /\ UNCHANGED fatal
    ELSE UNCHANGED appended /\ fatal' = [fatal EXCEPT ![p] = TRUE]

\* The switch over the status: 200 and 204 resolve, every other answer is fatal.
Answered(p, n) ==
  IF reply[p] \in {"stored", "duplicate"}
    THEN /\ Settled(<<p, n>>, "resolved")
         /\ UNCHANGED fatal
    ELSE /\ Settled(<<p, n>>, "rejected")
         /\ fatal' = [fatal EXCEPT ![p] = TRUE]

\* The post is answered and its body read.
Answer(p) ==
  /\ phase[p] = "open"
  /\ reply[p] # "none"
  /\ \E n \in posting[p] :
       /\ Answered(p, n)
       /\ posting' = [posting EXCEPT ![p] = @ \ {n}]
  /\ reply' = [reply EXCEPT ![p] = "none"]
  /\ UNCHANGED <<phase, nextSeq, queue, wire, server, faults>>

\* The body of the answer cannot be read: the caller is rejected, and unlike every
\* other uncertain outcome the producer goes on.
BodyLost(p) ==
  /\ phase[p] = "open"
  /\ reply[p] # "none"
  /\ Fault
  /\ \E n \in posting[p] :
       /\ Settled(<<p, n>>, "rejected")
       /\ posting' = [posting EXCEPT ![p] = @ \ {n}]
  /\ reply' = [reply EXCEPT ![p] = "none"]
  /\ UNCHANGED <<phase, nextSeq, queue, fatal, wire, server>>

\* fetch() throws: the request is lost, or its answer is, or it is still on its way.
NetworkFails(p) ==
  /\ phase[p] = "open"
  /\ Fault
  /\ \E n \in posting[p] :
       /\ Settled(<<p, n>>, "rejected")
       /\ posting' = [posting EXCEPT ![p] = @ \ {n}]
       /\ \/ wire' = wire \ {<<p, n>>}
          \/ UNCHANGED wire
  /\ fatal' = [fatal EXCEPT ![p] = TRUE]
  /\ reply' = [reply EXCEPT ![p] = "none"]
  /\ UNCHANGED <<phase, nextSeq, queue, server>>

\* The resource scope ends or the process dies: the worker stops, nobody waits, and
\* a post already sent may still arrive.
Gone(p) ==
  /\ phase[p] = "open"
  /\ phase' = [phase EXCEPT ![p] = "gone"]
  /\ queue' = [queue EXCEPT ![p] = <<>>]
  /\ posting' = [posting EXCEPT ![p] = {}]
  /\ reply' = [reply EXCEPT ![p] = "none"]
  /\ appended' = [x \in Event |->
       IF x[1] = p /\ appended[x] = "waiting" THEN "abandoned" ELSE appended[x]]
  /\ UNCHANGED <<nextSeq, fatal, wire, server, faults>>

-----------------------------------------------------------------------------
(* The server *)

\* What the protocol answers to one post.
Verdict(p, n) ==
  CASE EpochOf(p) < last.epoch -> "stale"
    [] EpochOf(p) > last.epoch -> IF n = 0 THEN "stored" ELSE "invalid"
    [] OTHER -> IF n = last.seq + 1 THEN "stored"
                ELSE IF n <= last.seq THEN "duplicate" ELSE "gap"

Respond(p, n, verdict) ==
  reply' = [reply EXCEPT ![p] = IF n \in posting[p] THEN verdict ELSE @]

\* A post arrives: the event and the producer's record are stored together.
Serve(p, n) ==
  /\ <<p, n>> \in wire
  /\ wire' = wire \ {<<p, n>>}
  /\ IF Verdict(p, n) = "stored"
       THEN /\ log' = Append(log, <<p, n>>)
            /\ last' = [epoch |-> EpochOf(p), seq |-> n]
       ELSE UNCHANGED server
  /\ Respond(p, n, Verdict(p, n))
  /\ UNCHANGED <<client, faults>>

\* The server fails on a post and stores nothing.
ServerError(p, n) ==
  /\ <<p, n>> \in wire
  /\ Fault
  /\ wire' = wire \ {<<p, n>>}
  /\ Respond(p, n, "error")
  /\ UNCHANGED <<client, server>>

-----------------------------------------------------------------------------
Work(p) == Post(p) \/ RejectQueued(p) \/ Answer(p)

Next ==
  \/ \E p \in Producer :
       Open(p) \/ AppendEvent(p) \/ Work(p) \/ BodyLost(p) \/ NetworkFails(p) \/ Gone(p)
  \/ \E x \in Event : Abandon(x) \/ Serve(x[1], x[2]) \/ ServerError(x[1], x[2])

Spec == Init /\ [][Next]_vars

\* The worker runs on, and every post is answered or fails: fetch has no timeout of
\* its own, so a server that never answers is ruled out here.
FairSpec ==
  /\ Spec
  /\ \A p \in Producer : WF_vars(Work(p))
  /\ \A x \in Event : WF_vars(Serve(x[1], x[2]))

-----------------------------------------------------------------------------
(* Properties *)

\* The types, and that the worker has one post outstanding at a time.
TypeOK ==
  /\ phase \in [Producer -> {"absent", "open", "gone"}]
  /\ nextSeq \in [Producer -> Nat]
  /\ queue \in [Producer -> Seq(Nat)]
  /\ posting \in [Producer -> SUBSET Nat]
  /\ \A p \in Producer : \A n, m \in posting[p] : n = m
  /\ fatal \in [Producer -> BOOLEAN]
  /\ appended \in [Event -> {"no", "waiting", "resolved", "rejected", "abandoned"}]
  /\ wire \subseteq Event
  /\ reply \in [Producer -> {"none", "stored", "duplicate", "stale", "invalid", "gap", "error"}]
  /\ log \in Seq(Event)
  /\ last \in [epoch : Nat, seq : Nat]
  /\ faults \in Nat

\* append() resolves only when its event and every event the producer was given
\* before it are in the stream: persist-before-resume and prefix closure, whatever
\* was lost, refused, abandoned or served late in between.
ResolvedIsStored ==
  \A x \in Event :
    appended[x] = "resolved" => \A m \in 0 .. x[2] : Stored(<<x[1], m>>)

\* Once a newer producer's event is in the stream no older producer adds to it:
\* a post delayed past the restart is refused for good.
ZombieFenced ==
  [][\A x \in Event : Stored(x)' /\ ~Stored(x) => \A i \in DOMAIN log : log[i][1] <= x[1]]_vars

\* The first fatal error of a producer is its last word: no append resolves after it,
\* neither one queued behind the failure nor one on the wire beside it, and the one
\* event that may still be stored, late, is that whose caller has been let go already.
\* A resolved append behind one in doubt would be a resumption over a lost entry.
FatalIsFinal ==
  [][\A x \in Event : fatal[x[1]] =>
       /\ appended'[x] = "resolved" => appended[x] = "resolved"
       /\ Stored(x)' /\ ~Stored(x) => appended[x] # "waiting"]_vars

\* Every append settles or its producer is gone: the worker never strands a caller
\* behind an event that failed.
AppendsSettle == \A x \in Event : (appended[x] = "waiting") ~> (appended[x] # "waiting")
==============================================================================
