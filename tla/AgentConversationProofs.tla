----------------------- MODULE AgentConversationProofs -----------------------
(***************************************************************************)
(* What an agent conversation promises, for every number of calls,         *)
(* openings, failures, crashes and bounds on the natives.                  *)
(*                                                                         *)
(*   MailInv     the admitted call is in exactly one place - queued, in    *)
(*               the element's hands, or joined - and what moves it from   *)
(*               one to the next never leaves it in two                    *)
(*   ElementInv  what the element does goes with the record it holds, and  *)
(*               the orders it gives its turns are those of admitted calls *)
(*   KnowsInv    what the conversation holds in memory is a history of the *)
(*               file it can continue, under the one native it has         *)
(*                                                                         *)
(* Consistent is their conjunction; the four theorems at the end are what  *)
(* the conversation's runs check.                                          *)
(***************************************************************************)
EXTENDS AgentConversation, SubsequenceProofs, FiniteSetTheorems

CallsTyped ==
  /\ call \in [Caller -> {"new", "waiting", "joining", "gone"}]
  /\ jobs \in Seq(Caller)
  /\ cancelled \subseteq Caller
  /\ work.who \in Caller \cup {None}

\* The mailbox admits one call, and only an admitted call can be joined.
OneAdmitted ==
  /\ ~busy => Outstanding = {}
  /\ \A c, d \in Outstanding : c = d
  /\ joined \subseteq Outstanding

\* The element holds a job only while it serves or is torn down, for a caller
\* that is there and not joined; what it does for nobody is the binding or its
\* own unwinding.
ElementHasCaller ==
  /\ work.who # None => work.who \in Outstanding \ joined /\ conv \in {"serving", "releasing"}
  /\ work.who = None => \/ work.at = "idle"
                        \/ work.at = "binding" /\ conv = "opening"
                        \/ work.at = "unwinding" /\ conv = "releasing"
  /\ work.at = "idle" => work.who = None
  /\ work.at = "binding" => work.who = None /\ wire # "none"

\* While somebody reads the mailbox it holds the admitted call or nothing.
MailboxHasCaller ==
  /\ conv = "serving" =>
       /\ \A i \in DOMAIN jobs : jobs[i] \in Outstanding \ joined
       /\ Len(jobs) <= 1
       /\ jobs # <<>> => work.who = None
  /\ conv \in {"down", "opening", "refused"} => jobs = <<>>
  /\ open => conv \in {"serving", "failing", "releasing"}

MailInv == CallsTyped /\ OneAdmitted /\ ElementHasCaller /\ MailboxHasCaller

LEMMA CallerIsNot0 == None \notin Caller
  BY DEF None, Caller

LEMMA MailInitially == Init => MailInv
  BY CallerIsNot0
     DEF Init, MailInv, CallsTyped, OneAdmitted, ElementHasCaller, MailboxHasCaller, Outstanding, Idle

\* A step of the element that keeps the job it has.
LEMMA ElementMoves ==
  ASSUME MailInv, work.who # None, work'.who = work.who, work'.at \notin {"idle", "binding"},
         UNCHANGED <<call, joined, cancelled, busy, jobs, conv, open>>
  PROVE  MailInv'
  BY DEF MailInv, CallsTyped, OneAdmitted, ElementHasCaller, MailboxHasCaller, Outstanding

\* A step of the element on a job.
LEMMA OnAJob ==
  ASSUME MailInv, work.at \notin {"idle", "binding", "unwinding"}
  PROVE  /\ work.who \in Caller /\ work.who # None /\ work.who \in Outstanding \ joined
         /\ conv \in {"serving", "releasing"}
  BY DEF MailInv, CallsTyped, ElementHasCaller

\* Nothing that follows touches the calls or the element.
LEMMA OthersRest ==
  ASSUME MailInv,
         UNCHANGED <<call, joined, cancelled, busy, jobs, conv, open, work>>,
         wire # "none" => wire' # "none"
  PROVE  MailInv'
  BY DEF MailInv, CallsTyped, OneAdmitted, ElementHasCaller, MailboxHasCaller, Outstanding

LEMMA OpenKept == MailInv /\ (Open \/ Bind \/ Bound \/ Replay) => MailInv'
<1> SUFFICES ASSUME MailInv PROVE (Open \/ Bind \/ Bound \/ Replay) => MailInv'
  OBVIOUS
<1> USE DEF MailInv, CallsTyped, OneAdmitted, ElementHasCaller, MailboxHasCaller, Outstanding
<1>1. CASE Open
  BY <1>1 DEF Open, calls, history
<1>2. CASE Bind
  BY <1>2 DEF Bind, Send, At, calls, history
<1>3. CASE Bound
  BY <1>3, CallerIsNot0 DEF Bound, Acknowledged, Idle, calls, history
<1>4. CASE Replay
  BY <1>4 DEF Replay, calls, history
<1> QED
  BY <1>1, <1>2, <1>3, <1>4

\* A call is admitted when nothing is outstanding, so it is in the mailbox alone.
LEMMA CallKept == ASSUME MailInv, NEW c \in Caller, Call(c) PROVE MailInv'
<1> USE DEF MailInv, CallsTyped, OneAdmitted, ElementHasCaller, MailboxHasCaller
<1>1. Outstanding = {} /\ joined = {} /\ work.who = None
  BY DEF Call
<1>2. conv = "serving" => jobs = <<>>
  BY <1>1 DEF Call
<1>3. jobs' = Append(jobs, c) /\ call' = [call EXCEPT ![c] = "waiting"] /\ busy' = TRUE
      /\ UNCHANGED <<conv, open, work, wire, joined, cancelled>>
  BY DEF Call
<1>4. Outstanding' = {c}
  BY <1>1, <1>3 DEF Outstanding
<1>5. jobs' \in Seq(Caller) /\ (conv = "serving" => jobs' = <<c>>)
  <2>1. jobs' \in Seq(Caller)
    BY <1>3
  <2>2. ASSUME jobs = <<>> PROVE jobs' = <<c>>
    BY <1>3, <2>2
  <2> QED
    BY <1>2, <2>1, <2>2
<1>6. conv \in {"serving", "failing", "releasing"}
  BY DEF Call
<1> QED
  BY <1>1, <1>3, <1>4, <1>5, <1>6

LEMMA CallerKept ==
  ASSUME MailInv, NEW c \in Caller, Answered(c) \/ Cancel(c) \/ Return(c)
  PROVE  MailInv'
<1> USE DEF MailInv, CallsTyped, OneAdmitted, ElementHasCaller, MailboxHasCaller
<1>1. CASE Answered(c) \/ Cancel(c)
  <2>1. Outstanding' = Outstanding /\ call' \in [Caller -> {"new", "waiting", "joining", "gone"}]
    BY <1>1 DEF Answered, Cancel, Outstanding
  <2>2. UNCHANGED <<conv, open, jobs, work, wire, joined, busy>> /\ cancelled' \subseteq Caller
    BY <1>1 DEF Answered, Cancel
  <2> QED
    BY <2>1, <2>2
<1>2. CASE Return(c)
  <2>1. /\ call' = [call EXCEPT ![c] = "gone"]
        /\ joined' = joined \ {c} /\ cancelled' = cancelled \ {c}
        /\ UNCHANGED <<conv, open, jobs, work, wire>>
    BY <1>2 DEF Return, Drop
  <2>2. c \in Outstanding /\ (c \in joined \/ conv = "down")
    BY <1>2 DEF Return, Outstanding
  <2>3. Outstanding = {c} /\ Outstanding' = {}
    BY <2>1, <2>2 DEF Outstanding
  <2>4. work.who = None /\ (conv = "serving" => jobs = <<>>)
    BY <2>2, <2>3
  <2>5. joined' = {} /\ call' \in [Caller -> {"new", "waiting", "joining", "gone"}]
    BY <2>1, <2>3
  <2> QED
    BY <2>1, <2>3, <2>4, <2>5
<1> QED
  BY <1>1, <1>2

LEMMA QueueOfOne ==
  ASSUME NEW S, NEW q \in Seq(S), q # <<>>, Len(q) <= 1
  PROVE  Head(q) = q[1] /\ 1 \in DOMAIN q /\ Tail(q) = <<>>
<1>1. Len(q) \in Nat \ {0}
  BY EmptySeq
<1>2. Len(q) = 1
  BY <1>1
<1>3. DOMAIN q = 1 .. 1
  BY <1>2, LenProperties
<1>4. Tail(q) \in Seq(S) /\ Len(Tail(q)) = 0
  BY <1>2, HeadTailProperties
<1>5. Tail(q) = <<>>
  BY <1>4, EmptySeq
<1> QED
  BY <1>3, <1>5

\* The one queued call becomes the element's job.
LEMMA TakeKept == MailInv /\ Take => MailInv'
<1> SUFFICES ASSUME MailInv, Take PROVE MailInv'
  OBVIOUS
<1> USE DEF MailInv, CallsTyped, OneAdmitted, ElementHasCaller, MailboxHasCaller
<1>1. conv = "serving" /\ jobs # <<>> /\ Len(jobs) <= 1 /\ jobs \in Seq(Caller)
  BY DEF Take
<1>2. Head(jobs) = jobs[1] /\ 1 \in DOMAIN jobs /\ Tail(jobs) = <<>>
  BY <1>1, QueueOfOne
<1>3. Head(jobs) \in Outstanding \ joined /\ Head(jobs) \in Caller
  BY <1>1, <1>2
<1>4. work'.who = Head(jobs) /\ work'.at \in {"resolving", "aside"} /\ jobs' = <<>>
      /\ UNCHANGED <<call, joined, cancelled, busy, conv, open, wire>>
  BY <1>2 DEF Take, calls
<1> QED
  BY <1>1, <1>3, <1>4, CallerIsNot0 DEF Outstanding

LEMMA TurnKept ==
  ASSUME MailInv,
         \/ RefuseTurn \/ Saved \/ Recorded \/ AsideDone \/ Halt
         \/ \E g \in Config : SaveConfiguration(g) \/ SameConfiguration(g)
         \/ \E m \in Native \cup {None}, u \in BOOLEAN : Ran(m, u)
  PROVE  MailInv'
<1>1. CASE RefuseTurn \/ Saved \/ Recorded \/ AsideDone
  BY <1>1, OnAJob, ElementMoves DEF RefuseTurn, Saved, Recorded, AsideDone, At, calls
<1>2. CASE Halt
  <2>1. work.who # None
    BY <1>2, CallerIsNot0 DEF Halt, MailInv, CallsTyped
  <2> QED
    BY <1>2, <2>1, ElementMoves DEF Halt, At, calls
<1>3. ASSUME NEW g \in Config, SaveConfiguration(g) \/ SameConfiguration(g) PROVE MailInv'
  BY <1>3, OnAJob, ElementMoves DEF SaveConfiguration, SameConfiguration, Send, At, calls
<1>4. ASSUME NEW m \in Native \cup {None}, NEW u \in BOOLEAN, Ran(m, u) PROVE MailInv'
  BY <1>4, OnAJob, ElementMoves DEF Ran, Send, At, calls
<1> QED
  BY <1>1, <1>2, <1>3, <1>4

\* A job that leaves, unwinds or fails is joined in the step that lets go of it.
LEMMA JoinKept == MailInv /\ (Leave \/ Unwound \/ RunFails \/ Diverges \/ UnwindFails) => MailInv'
<1> SUFFICES ASSUME MailInv
             PROVE  (Leave \/ Unwound \/ RunFails \/ Diverges \/ UnwindFails) => MailInv'
  OBVIOUS
<1> USE DEF MailInv, CallsTyped, OneAdmitted, ElementHasCaller, MailboxHasCaller, Outstanding
<1>1. CASE Leave
  BY <1>1, OnAJob DEF Leave, Idle
<1>2. CASE Unwound
  BY <1>2 DEF Unwound, Idle
<1>3. ASSUME work.who # None, \E how : Fails(how) PROVE MailInv'
  BY <1>3 DEF Fails, Idle
<1>4. CASE RunFails \/ Diverges
  BY <1>3, <1>4, OnAJob DEF RunFails, Diverges
<1>5. CASE UnwindFails
  <2>1. work.who # None
    BY <1>5 DEF UnwindFails, Fails
  <2> QED
    BY <1>3, <1>5, <2>1 DEF UnwindFails
<1> QED
  BY <1>1, <1>2, <1>4, <1>5

LEMMA EndKept == MailInv /\ (ServeEnds \/ Release \/ Closed \/ Crash) => MailInv'
<1> SUFFICES ASSUME MailInv PROVE (ServeEnds \/ Release \/ Closed \/ Crash) => MailInv'
  OBVIOUS
<1> USE DEF MailInv, CallsTyped, OneAdmitted, ElementHasCaller, MailboxHasCaller, Outstanding
<1>1. CASE ServeEnds
  BY <1>1 DEF ServeEnds
<1>2. CASE Release
  BY <1>2 DEF Release, At, calls, history
<1>3. CASE Closed
  BY <1>3 DEF Closed
<1>4. CASE Crash
  BY <1>4, CallerIsNot0 DEF Crash, Drop, Idle
<1> QED
  BY <1>1, <1>2, <1>3, <1>4

LEMMA MailPreserved == MailInv /\ [Next]_vars => MailInv'
<1> SUFFICES ASSUME MailInv, [Next]_vars PROVE MailInv'
  OBVIOUS
<1>1. CASE OwnStep
  <2>1. CASE Store
    BY <2>1, OthersRest DEF Store, calls
  <2>2. CASE Bind \/ Bound \/ Replay
    BY <2>2, OpenKept
  <2>3. CASE Take
    BY <2>3, TakeKept
  <2>4. CASE Saved \/ Recorded \/ Halt
    BY <2>4, TurnKept
  <2>5. CASE Leave \/ Unwound \/ Diverges
    BY <2>5, JoinKept
  <2>6. CASE ServeEnds \/ Closed
    BY <2>6, EndKept
  <2> QED
    BY <1>1, <2>1, <2>2, <2>3, <2>4, <2>5, <2>6 DEF OwnStep
<1>2. CASE CallerStep
  BY <1>2, CallerKept DEF CallerStep
<1>3. CASE OthersStep
  <2>1. CASE Open
    BY <2>1, OpenKept
  <2>2. CASE Release \/ Crash
    BY <2>2, EndKept
  <2>3. CASE \E c \in Caller : Call(c) \/ Cancel(c)
    BY <2>3, CallKept, CallerKept
  <2>4. CASE \/ RefuseTurn \/ AsideDone
             \/ \E g \in Config : SaveConfiguration(g) \/ SameConfiguration(g)
             \/ \E m \in Native \cup {None}, u \in BOOLEAN : Ran(m, u)
    BY <2>4, TurnKept
  <2>5. CASE RunFails \/ UnwindFails
    BY <2>5, JoinKept
  <2> QED
    BY <1>3, <2>1, <2>2, <2>3, <2>4, <2>5 DEF OthersStep
<1>4. CASE UNCHANGED vars
  BY <1>4, OthersRest DEF vars, calls
<1> QED
  BY <1>1, <1>2, <1>3, <1>4 DEF Next

\* The inductive invariant of the mailbox: the admitted call is queued, in the
\* element's hands or joined, and the element works for nobody else.
THEOREM MailboxIsSound == Spec => []MailInv
<1>1. Init => MailInv
  BY MailInitially
<1>2. MailInv /\ [Next]_vars => MailInv'
  BY MailPreserved
<1> QED
  BY <1>1, <1>2, PTL DEF Spec

\* A caller whose call returned knows that nothing is done or queued for it, in
\* every conversation, however it was cancelled, failed, released or reopened.
THEOREM StoppedStaysStopped == Spec => []StoppedMeansStopped
<1>1. MailInv => StoppedMeansStopped
  BY DEF MailInv, OneAdmitted, ElementHasCaller, MailboxHasCaller, StoppedMeansStopped
<1> QED
  BY <1>1, MailboxIsSound, PTL
------------------------------------------------------------------------------
(* What a record is, and what an opening reads out of a history that one     *)
(* more record was appended to.                                              *)

Kinds == {"identity", "config", "turn", "close", "none"}
OfKind(kind) ==
  [kind : {kind}, order : 0 .. MaxCalls, config : {None} \cup Config,
   native : {None} \cup Native, used : BOOLEAN]

LEMMA BoundsAreNat ==
  /\ MaxCalls \in Nat /\ Configs \in Nat /\ Natives \in Nat
  /\ MaxOpens \in Nat /\ MaxFaults \in Nat
  BY BoundsAssumption

LEMMA EntryFields ==
  ASSUME NEW kind \in Kinds, NEW n \in 0 .. MaxCalls, NEW g \in {None} \cup Config,
         NEW m \in {None} \cup Native, NEW u \in BOOLEAN
  PROVE  /\ Entry(kind, n, g, m, u) \in OfKind(kind)
         /\ Entry(kind, n, g, m, u).kind = kind /\ Entry(kind, n, g, m, u).order = n
         /\ Entry(kind, n, g, m, u).config = g /\ Entry(kind, n, g, m, u).native = m
         /\ Entry(kind, n, g, m, u).used = u
  BY DEF Entry, OfKind

LEMMA RecordFields ==
  ASSUME NEW r \in Record
  PROVE  /\ r \in OfKind(r.kind) /\ r.kind \in Kinds
         /\ r.order \in 0 .. MaxCalls /\ r.config \in {None} \cup Config
         /\ r.native \in {None} \cup Native /\ r.used \in BOOLEAN
         /\ r.kind = "config" => r.config \in Config
         /\ r.kind # "turn" => r.order = 0 /\ r.native = None /\ ~r.used
<1>1. 0 \in 0 .. MaxCalls /\ 1 .. MaxCalls \subseteq 0 .. MaxCalls
  BY BoundsAreNat
<1>2. CASE r \in {Identity, Close, NoRecord}
  <2>1. PICK kind \in {"identity", "close", "none"} : r = Entry(kind, 0, None, None, FALSE)
    BY <1>2 DEF Identity, Close, NoRecord
  <2>2. kind \in Kinds /\ 0 \in 0 .. MaxCalls /\ None \in {None} \cup Config
        /\ None \in {None} \cup Native /\ FALSE \in BOOLEAN
    BY <1>1 DEF Kinds
  <2>3. /\ r \in OfKind(kind) /\ r.kind = kind /\ r.order = 0 /\ r.config = None
        /\ r.native = None /\ r.used = FALSE
    BY <2>1, <2>2 DEF Entry, OfKind
  <2> QED
    BY <2>2, <2>3
<1>3. CASE r \in {Configured(g) : g \in Config}
  <2>1. PICK g \in Config : r = Entry("config", 0, g, None, FALSE)
    BY <1>3 DEF Configured
  <2>2. "config" \in Kinds /\ 0 \in 0 .. MaxCalls /\ g \in {None} \cup Config
        /\ None \in {None} \cup Native /\ FALSE \in BOOLEAN
    BY <1>1 DEF Kinds
  <2>3. /\ r \in OfKind("config") /\ r.kind = "config" /\ r.order = 0 /\ r.config = g
        /\ r.native = None /\ r.used = FALSE
    BY <2>1, <2>2 DEF Entry, OfKind
  <2> QED
    BY <2>2, <2>3
<1>4. CASE r \in {Turn(n, m, u) : n \in 1 .. MaxCalls, m \in Native \cup {None}, u \in BOOLEAN}
  <2>1. PICK n \in 1 .. MaxCalls, m \in Native \cup {None}, u \in BOOLEAN :
          r = Entry("turn", n, None, m, u)
    BY <1>4 DEF Turn
  <2>2. "turn" \in Kinds /\ n \in 0 .. MaxCalls /\ None \in {None} \cup Config
    BY <1>1 DEF Kinds
  <2>3. /\ r \in OfKind("turn") /\ r.kind = "turn" /\ r.order = n /\ r.config = None
        /\ r.native = m /\ r.used = u
    BY <2>1, <2>2, EntryFields
  <2> QED
    BY <2>2, <2>3
<1> QED
  BY <1>2, <1>3, <1>4 DEF Record

LEMMA KindsDiffer ==
  ASSUME NEW r \in Record, NEW kind \in Kinds
  PROVE  r \in OfKind(kind) <=> r.kind = kind
  BY RecordFields DEF OfKind

LEMMA OfEmpty == ASSUME NEW kind PROVE Of(kind, <<>>) = <<>>
  BY PickedEmpty DEF Of

LEMMA OfAppend ==
  ASSUME NEW h \in Seq(Record), NEW r \in Record, NEW kind \in Kinds
  PROVE  Of(kind, Append(h, r)) =
           IF r.kind = kind THEN Append(Of(kind, h), r) ELSE Of(kind, h)
<1>1. Picked(Append(h, r), OfKind(kind)) =
        IF r \in OfKind(kind) THEN Append(Picked(h, OfKind(kind)), r) ELSE Picked(h, OfKind(kind))
  BY PickedAppend
<1>2. \A s \in {h, Append(h, r)} : Of(kind, s) = Picked(s, OfKind(kind))
  BY DEF Of, OfKind
<1> QED
  BY <1>1, <1>2, KindsDiffer

LEMMA OfType ==
  ASSUME NEW h \in Seq(Record), NEW kind \in Kinds
  PROVE  Of(kind, h) \in Seq({r \in Record : r.kind = kind})
<1>1. Picked(h, OfKind(kind)) \in Seq(Record \cap OfKind(kind))
  BY PickedType
<1>2. Record \cap OfKind(kind) = {r \in Record : r.kind = kind}
  BY KindsDiffer
<1> QED
  BY <1>1, <1>2 DEF Of, OfKind

\* The records of a history, without their order.
Entries(h) == {h[i] : i \in DOMAIN h}

LEMMA EntriesAppend ==
  ASSUME NEW h \in Seq(Record), NEW r \in Record
  PROVE  /\ Append(h, r) \in Seq(Record) /\ Append(h, r) # <<>>
         /\ Entries(Append(h, r)) = Entries(h) \cup {r}
         /\ Append(h, r)[Len(Append(h, r))] = r
<1> DEFINE t == Append(h, r)
<1>1. PICK k \in Nat : k = Len(h)
  BY LenProperties
<1>2. /\ t \in Seq(Record) /\ Len(t) = k + 1 /\ t[k + 1] = r
      /\ \A i \in 1 .. k : t[i] = h[i]
  BY <1>1, AppendProperties
<1>3. DOMAIN h = 1 .. k /\ DOMAIN t = 1 .. (k + 1)
  BY <1>1, <1>2, LenProperties
<1> HIDE DEF t
<1>4. Entries(t) = Entries(h) \cup {r}
  BY <1>2, <1>3 DEF Entries
<1>5. t # <<>>
  BY <1>2, <1>3
<1> QED
  BY <1>2, <1>4, <1>5 DEF t

LEMMA EntriesType == ASSUME NEW h \in Seq(Record) PROVE Entries(h) \subseteq Record
  BY ElementOfSeq, LenProperties DEF Entries

LEMMA EntriesEmpty == Entries(<<>>) = {}
  BY DEF Entries

LEMMA NativesAppend ==
  ASSUME NEW h \in Seq(Record), NEW r \in Record
  PROVE  NativesOf(Append(h, r)) = NativesOf(h) \cup ({r.native} \ {None})
<1>1. \A s : NativesOf(s) = {e.native : e \in Entries(s)} \ {None}
  BY DEF NativesOf, Entries
<1> QED
  BY <1>1, EntriesAppend

LEMMA NativesType ==
  ASSUME NEW h \in Seq(Record) PROVE NativesOf(h) \subseteq Native
<1>1. NativesOf(h) = {e.native : e \in Entries(h)} \ {None}
  BY DEF NativesOf, Entries
<1> QED
  BY <1>1, EntriesType, RecordFields

LEMMA UsedAppend ==
  ASSUME NEW h \in Seq(Record), NEW r \in Record
  PROVE  UsedIn(Append(h, r)) <=> UsedIn(h) \/ r.used
<1>1. \A s : UsedIn(s) <=> \E e \in Entries(s) : e.used
  BY DEF UsedIn, Entries
<1> QED
  BY <1>1, EntriesAppend

LEMMA LastConfigEmpty == LastConfig(<<>>) = None
  BY OfEmpty DEF LastConfig

LEMMA LastConfigAppend ==
  ASSUME NEW h \in Seq(Record), NEW r \in Record
  PROVE  LastConfig(Append(h, r)) = IF r.kind = "config" THEN r.config ELSE LastConfig(h)
<1> DEFINE c == Of("config", h)
<1>1. c \in Seq(Record)
  <2>1. Picked(h, OfKind("config")) \in Seq(Record \cap OfKind("config"))
    BY PickedType
  <2> QED
    BY <2>1 DEF Of, OfKind
<1>2. Of("config", Append(h, r)) = IF r.kind = "config" THEN Append(c, r) ELSE c
  BY OfAppend DEF Kinds
<1> HIDE DEF c
<1>3. Append(c, r) # <<>> /\ Append(c, r)[Len(Append(c, r))] = r
  BY <1>1, EntriesAppend
<1> QED
  BY <1>2, <1>3 DEF LastConfig, c

LEMMA LastConfigType ==
  ASSUME NEW h \in Seq(Record) PROVE LastConfig(h) \in {None} \cup Config
<1> DEFINE c == Of("config", h)
           C == {r \in Record : r.kind = "config"}
<1>1. c \in Seq(C)
  BY OfType DEF Kinds
<1> HIDE DEF c
<1>2. CASE c = <<>>
  BY <1>2 DEF LastConfig, c
<1>3. CASE c # <<>>
  <2>1. Len(c) \in 1 .. Len(c)
    BY <1>1, <1>3, EmptySeq, LenProperties
  <2>2. c[Len(c)] \in C
    BY <1>1, <2>1, ElementOfSeq
  <2>3. c[Len(c)].config \in Config
    BY <2>2, RecordFields
  <2> QED
    BY <1>3, <2>3 DEF LastConfig, c
<1> QED
  BY <1>2, <1>3

\* The next order is past every retained turn and no further.
LEMMA NextOrderIs ==
  ASSUME NEW h \in Seq(Record)
  PROVE  /\ NextOrder(h) \in 1 .. MaxCalls + 1
         /\ \A e \in Entries(h) : e.order < NextOrder(h)
         /\ NextOrder(h) = 1 \/ \E e \in Entries(h) : e.order = NextOrder(h) - 1
<1> DEFINE Past(n) == \A e \in Entries(h) : e.order <= n
           Upper == {n \in 0 .. MaxCalls : Past(n)}
           Least(n) == Past(n) /\ (n = 0 \/ \E e \in Entries(h) : e.order = n)
           N == CHOOSE n \in 0 .. MaxCalls : Least(n)
<1> USE BoundsAreNat
<1>1. \A e \in Entries(h) : e.order \in 0 .. MaxCalls
  BY EntriesType, RecordFields
<1>2. MaxCalls \in Upper /\ Upper \subseteq Nat
  BY <1>1
<1>3. PICK n \in Upper : \A m \in Upper : n <= m
  <2> HIDE DEF Upper
  <2> QED
    BY <1>2, LeastElement
<1>4. Least(n)
  <2>1. CASE n # 0 /\ ~ \E e \in Entries(h) : e.order = n
    <3>1. Past(n - 1) /\ n - 1 \in 0 .. MaxCalls
      BY <1>1, <2>1
    <3> QED
      BY <1>3, <3>1
  <2> QED
    BY <2>1
<1>5. N \in 0 .. MaxCalls /\ Least(N)
  BY <1>4
<1>6. NextOrder(h) = 1 + N
  BY DEF NextOrder, Entries
<1> HIDE DEF N
<1> QED
  BY <1>1, <1>5, <1>6

LEMMA NextOrderLeast ==
  ASSUME NEW h \in Seq(Record), NEW k \in Nat, k # 0, \A e \in Entries(h) : e.order < k
  PROVE  NextOrder(h) <= k
  BY NextOrderIs, BoundsAreNat
------------------------------------------------------------------------------
(* A history that replays exactly: what an opening offers is what it holds.  *)

Ended(h) == Of("close", h) # <<>>
Exact(h) == Offered(h) = h /\ (Of("turn", h) # <<>> => LastConfig(h) # None)
Shape(h) == Ended(h) \/ h = <<>> \/ Exact(h)

LEMMA RecordsOf ==
  /\ Identity \in Record /\ Close \in Record /\ NoRecord \in Record
  /\ Identity.kind = "identity" /\ Close.kind = "close" /\ NoRecord.kind = "none"
  /\ NoRecord.native = None /\ NoRecord.order = 0 /\ ~NoRecord.used
  /\ \A g \in Config : Configured(g) \in Record /\ Configured(g).kind = "config"
                       /\ Configured(g).config = g
<1>1. Identity \in Record /\ Close \in Record /\ NoRecord \in Record
      /\ \A g \in Config : Configured(g) \in Record
  BY DEF Record
<1>2. /\ Identity.kind = "identity" /\ Close.kind = "close" /\ NoRecord.kind = "none"
      /\ \A g \in Config : Configured(g).kind = "config" /\ Configured(g).config = g
  BY DEF Identity, Close, NoRecord, Configured, Entry
<1>3. NoRecord.native = None /\ NoRecord.order = 0 /\ ~NoRecord.used
  BY <1>1, <1>2, RecordFields
<1> QED
  BY <1>1, <1>2, <1>3

LEMMA TurnFields ==
  ASSUME NEW n \in 1 .. MaxCalls, NEW m \in Native \cup {None}, NEW u \in BOOLEAN
  PROVE  /\ Turn(n, m, u) \in Record /\ Turn(n, m, u).kind = "turn"
         /\ Turn(n, m, u).order = n /\ Turn(n, m, u).native = m /\ Turn(n, m, u).used = u
<1>1. Turn(n, m, u) \in Record
  BY DEF Record
<1> QED
  BY <1>1 DEF Turn, Entry

LEMMA EndedForGood ==
  ASSUME NEW h \in Seq(Record), NEW r \in Record
  PROVE  Ended(Append(h, r)) <=> Ended(h) \/ r.kind = "close"
<1> DEFINE c == Of("close", h)
<1>1. c \in Seq(Record)
  <2>1. Picked(h, OfKind("close")) \in Seq(Record \cap OfKind("close"))
    BY PickedType
  <2> QED
    BY <2>1 DEF Of, OfKind
<1>2. Of("close", Append(h, r)) = IF r.kind = "close" THEN Append(c, r) ELSE c
  BY OfAppend DEF Kinds
<1> HIDE DEF c
<1>3. Append(c, r) # <<>>
  BY <1>1, EntriesAppend
<1> QED
  BY <1>2, <1>3 DEF Ended, c

LEMMA ExactBegins == Exact(Append(<<>>, Identity))
<1> DEFINE t == Append(<<>>, Identity)
<1>1. Of("turn", t) = <<>> /\ LastConfig(t) = None
  <2>1. <<>> \in Seq(Record) /\ "turn" \in Kinds /\ Identity \in Record
    BY RecordsOf DEF Kinds
  <2>2. Of("turn", t) = Of("turn", <<>>)
    BY <2>1, RecordsOf, OfAppend
  <2>3. LastConfig(t) = LastConfig(<<>>)
    BY <2>1, RecordsOf, LastConfigAppend
  <2> QED
    BY <2>2, <2>3, OfEmpty, LastConfigEmpty
<1>2. t = <<Identity>>
  OBVIOUS
<1> HIDE DEF t
<1>3. Offered(t) = <<Identity>> \o <<>> \o <<>>
  BY <1>1 DEF Offered
<1>4. <<Identity>> \in Seq(Record) /\ <<Identity>> \o <<>> = <<Identity>>
  BY RecordsOf, WholeAndNone
<1> QED
  BY <1>1, <1>2, <1>3, <1>4 DEF Exact, t

LEMMA ExactConfigured ==
  ASSUME NEW h \in Seq(Record), Exact(h), LastConfig(h) = None, NEW g \in Config
  PROVE  Exact(Append(h, Configured(g)))
<1> DEFINE t == Append(h, Configured(g))
<1>1. Of("turn", h) = <<>> /\ Offered(h) = h
  BY DEF Exact
<1>2. Of("turn", t) = <<>> /\ LastConfig(t) = g /\ g # None
  BY <1>1, RecordsOf, OfAppend, LastConfigAppend DEF Kinds, Config, None
<1>3. <<Identity>> \in Seq(Record) /\ <<Identity>> \o <<>> = <<Identity>>
  BY RecordsOf, WholeAndNone
<1>4. h = <<Identity>>
  BY <1>1, <1>3 DEF Offered
<1>5. t = <<Identity>> \o <<Configured(g)>>
  BY <1>3, <1>4, RecordsOf, AppendIsConcat
<1> HIDE DEF t
<1>6. Offered(t) = (<<Identity>> \o <<Configured(g)>>) \o <<>>
  BY <1>2 DEF Offered
<1>7. <<Identity>> \o <<Configured(g)>> \in Seq(Record)
  BY <1>3, RecordsOf, ConcatProperties
<1>8. Offered(t) = <<Identity>> \o <<Configured(g)>>
  BY <1>6, <1>7, WholeAndNone
<1> QED
  BY <1>2, <1>5, <1>8 DEF Exact, t

LEMMA ExactTurn ==
  ASSUME NEW h \in Seq(Record), Exact(h), LastConfig(h) # None,
         NEW r \in Record, r.kind = "turn"
  PROVE  Exact(Append(h, r))
<1> DEFINE t == Append(h, r)
           b == <<Identity>> \o <<Configured(LastConfig(h))>>
           c == Of("turn", h)
<1>1. Of("turn", t) = Append(c, r) /\ LastConfig(t) = LastConfig(h)
  BY OfAppend, LastConfigAppend DEF Kinds
<1>2. c \in Seq(Record)
  <2>1. Picked(h, OfKind("turn")) \in Seq(Record \cap OfKind("turn"))
    BY PickedType
  <2> QED
    BY <2>1 DEF Of, OfKind
<1>3. b \in Seq(Record)
  <2>1. <<Identity>> \in Seq(Record) /\ <<Configured(LastConfig(h))>> \in Seq(Record)
    BY RecordsOf, LastConfigType
  <2> QED
    BY <2>1, ConcatProperties
<1> HIDE DEF t, c
<1>4. Offered(h) = b \o c /\ Offered(t) = b \o Append(c, r)
  BY <1>1 DEF Offered, c
<1> HIDE DEF b
<1>5. b \o Append(c, r) = Append(b \o c, r)
  BY <1>2, <1>3, ConcatOfAppend
<1>6. Offered(t) = t
  BY <1>4, <1>5 DEF Exact, t
<1> QED
  BY <1>1, <1>6 DEF Exact, t

\* The records a conversation that knows its history appends to it.
Fits(h, r) ==
  \/ h = <<>> /\ r = Identity
  \/ h # <<>> /\ LastConfig(h) = None /\ \E g \in Config : r = Configured(g)
  \/ h # <<>> /\ LastConfig(h) # None /\ r.kind = "turn"
  \/ r = Close

LEMMA ShapeKept ==
  ASSUME NEW h \in Seq(Record), NEW r \in Record, Shape(h), Fits(h, r)
  PROVE  Shape(Append(h, r))
<1>1. CASE Ended(h) \/ r = Close
  BY <1>1, EndedForGood, RecordsOf DEF Shape
<1>2. CASE h = <<>> /\ r = Identity
  BY <1>2, ExactBegins DEF Shape
<1>3. CASE ~Ended(h) /\ h # <<>> /\ LastConfig(h) = None /\ \E g \in Config : r = Configured(g)
  BY <1>3, ExactConfigured DEF Shape
<1>4. CASE ~Ended(h) /\ h # <<>> /\ LastConfig(h) # None /\ r.kind = "turn"
  BY <1>4, ExactTurn DEF Shape
<1> QED
  BY <1>1, <1>2, <1>3, <1>4 DEF Fits
------------------------------------------------------------------------------
(* The element: what it is doing goes with the record it holds, and the      *)
(* orders it gives its turns are those of calls that were admitted.          *)

Steps == {"idle", "binding", "aside", "resolving", "saving", "settled",
          "writing", "leaving", "unwinding"}

ValuesTyped ==
  /\ file \in Seq(Record) /\ memory \in Seq(Record)
  /\ conv \in {"down", "opening", "serving", "failing", "releasing", "ended", "refused"}
  /\ open \in BOOLEAN /\ used \in BOOLEAN /\ aligned \in BOOLEAN /\ busy \in BOOLEAN
  /\ known \in Config \cup {None}
  /\ established \in Native \cup {None}
  /\ work \in [who : Caller \cup {None}, at : Steps, turn : BOOLEAN, rec : Record]
  /\ wire \in {"none", "sent", "stored"}
  /\ answer \in [Caller -> {"none", "given"}]
  /\ cause \in {"none", "durability", "teardown"}
  /\ missed \in BOOLEAN /\ forked \in BOOLEAN
  /\ told \subseteq Native /\ under \subseteq Config

\* The record of the turn in hand: it names no native conversation it did not use.
Reports(r) == r.kind = "turn" /\ r.order = order /\ (r.native # None => r.used)

WorkShape ==
  /\ (wire # "none") <=> work.at \in {"binding", "saving", "writing"}
  /\ work.who = None => ~work.turn
  /\ work.at \in {"resolving", "saving", "settled", "writing"} => work.turn
  /\ work.at = "binding" => work.rec = Identity /\ memory = <<>>
  /\ work.at = "saving" => known = None /\ \E g \in Config : work.rec = Configured(g)
  /\ work.at = "writing" => Reports(work.rec)
  /\ work.at = "leaving" => work.rec = NoRecord \/ (work.turn /\ Reports(work.rec))
  /\ work.at \notin {"binding", "saving", "writing", "leaving"} => work.rec = NoRecord
  /\ work.at \in {"settled", "writing"} => known # None

\* What goes on in each part of the conversation's lifetime.
LifeShape ==
  /\ conv \in {"down", "failing", "ended", "refused"} => work.at = "idle"
  /\ conv = "opening" => work.at \in {"idle", "binding"} /\ Openable(memory)
  /\ conv = "serving" => work.at # "binding" /\ memory # <<>>
  /\ conv = "releasing" => work.at \in {"idle", "leaving", "unwinding"}

\* The calls are admitted in the order of their numbers, so a turn's order,
\* which only ever follows that of an earlier turn, does not pass its call's.
Admitted(n) == n = 0 \/ (n \in Caller /\ call[n] # "new")

OrderFits ==
  /\ \A c, d \in Caller : d < c /\ call[c] # "new" => call[d] # "new"
  /\ order \in Nat \ {0} /\ Admitted(order - 1)
  /\ \A e \in Entries(file) \cup Entries(memory) : Admitted(e.order)
  /\ Admitted(work.rec.order)
  /\ work.who # None => order <= work.who
  /\ conv = "serving" => \A i \in DOMAIN jobs : order <= jobs[i]

ElementInv == ValuesTyped /\ WorkShape /\ LifeShape /\ OrderFits

LEMMA ElementInitially == Init => ElementInv
<1> SUFFICES ASSUME Init PROVE ElementInv
  BY DEF Init
<1>1. ValuesTyped
  <2>1. work \in [who : Caller \cup {None}, at : Steps, turn : BOOLEAN, rec : Record]
    BY RecordsOf DEF Init, Idle, Steps
  <2>2. file \in Seq(Record) /\ memory \in Seq(Record)
    BY DEF Init
  <2> QED
    BY <2>1, <2>2 DEF Init, ValuesTyped
<1>2. WorkShape /\ LifeShape
  BY DEF Init, WorkShape, LifeShape, Idle
<1>3. OrderFits
  BY EntriesEmpty, RecordsOf DEF Init, OrderFits, Admitted, Idle
<1> QED
  BY <1>1, <1>2, <1>3 DEF ElementInv

\* Only the record in hand, or the root's terminal, is ever appended; a restart
\* takes the file for its memory.
HistoryGrows ==
  /\ file' \in {file, Append(file, work.rec), Append(file, Close)}
  /\ memory' \in {memory, Append(memory, work.rec), Append(memory, Close), file'}

LEMMA HistoriesGrow == [Next]_vars => HistoryGrows
<1> SUFFICES ASSUME [Next]_vars PROVE HistoryGrows
  OBVIOUS
<1> USE DEF HistoryGrows, history, calls, view, ghosts, bounds
<1>1. CASE OwnStep
  <2>1. CASE Store \/ Bind \/ Bound \/ Replay \/ Take \/ Leave \/ Unwound \/ Diverges \/ Closed
    BY <2>1 DEF Store, Bind, Bound, Acknowledged, Replay, Take, Leave, Unwound, Diverges, Closed
  <2>2. CASE Saved \/ Recorded
    BY <2>2 DEF Saved, Recorded, Acknowledged
  <2>3. CASE Halt
    BY <2>3 DEF Halt, Abandoned
  <2>4. CASE ServeEnds
    BY <2>4 DEF ServeEnds
  <2> QED
    BY <1>1, <2>1, <2>2, <2>3, <2>4 DEF OwnStep
<1>2. CASE CallerStep
  BY <1>2 DEF CallerStep, Answered, Return
<1>3. CASE OthersStep
  <2>1. CASE Open \/ RefuseTurn \/ AsideDone \/ UnwindFails
    BY <2>1 DEF Open, RefuseTurn, AsideDone, UnwindFails
  <2>2. CASE Release
    BY <2>2 DEF Release, Abandoned
  <2>3. CASE Crash
    BY <2>3 DEF Crash
  <2>4. CASE \E c \in Caller : Call(c) \/ Cancel(c)
    BY <2>4 DEF Call, Cancel
  <2>5. CASE \E g \in Config : SaveConfiguration(g) \/ SameConfiguration(g)
    BY <2>5 DEF SaveConfiguration, SameConfiguration
  <2>6. CASE \E m \in Native \cup {None}, u \in BOOLEAN : Ran(m, u)
    BY <2>6 DEF Ran
  <2>7. CASE RunFails
    BY <2>7 DEF RunFails, Abandoned
  <2> QED
    BY <1>3, <2>1, <2>2, <2>3, <2>4, <2>5, <2>6, <2>7 DEF OthersStep
<1>4. CASE UNCHANGED vars
  BY <1>4 DEF vars
<1> QED
  BY <1>1, <1>2, <1>3, <1>4 DEF Next

LEMMA HistoriesTyped ==
  ASSUME ElementInv, HistoryGrows
  PROVE  /\ file' \in Seq(Record) /\ memory' \in Seq(Record)
         /\ Entries(file') \cup Entries(memory') \subseteq
              Entries(file) \cup Entries(memory) \cup {work.rec, Close}
         /\ memory # <<>> => memory' # <<>> \/ memory' = file'
<1>1. file \in Seq(Record) /\ memory \in Seq(Record) /\ work.rec \in Record /\ Close \in Record
  BY RecordsOf DEF ElementInv, ValuesTyped
<1>2. ASSUME NEW h \in Seq(Record), NEW r \in {work.rec, Close}
      PROVE  /\ Append(h, r) \in Seq(Record) /\ Append(h, r) # <<>>
             /\ Entries(Append(h, r)) = Entries(h) \cup {r}
  BY <1>1, EntriesAppend
<1>3. /\ file' \in Seq(Record)
      /\ Entries(file') \subseteq Entries(file) \cup {work.rec, Close}
  BY <1>1, <1>2 DEF HistoryGrows
<1>4. CASE memory' = file'
  BY <1>3, <1>4
<1>5. CASE memory' \in {memory, Append(memory, work.rec), Append(memory, Close)}
  BY <1>1, <1>2, <1>3, <1>5
<1> QED
  BY <1>3, <1>4, <1>5 DEF HistoryGrows

\* A call that was admitted stays admitted.
CallsGrow ==
  /\ \A c \in Caller : call[c] # "new" => call'[c] # "new"
  /\ \A c, d \in Caller : d < c /\ call'[c] # "new" => call'[d] # "new"

LEMMA CallsOnlyGrow == MailInv /\ ElementInv /\ [Next]_vars => CallsGrow
<1> SUFFICES ASSUME MailInv, ElementInv, [Next]_vars PROVE CallsGrow
  OBVIOUS
<1>1. /\ call \in [Caller -> {"new", "waiting", "joining", "gone"}]
      /\ \A c, d \in Caller : d < c /\ call[c] # "new" => call[d] # "new"
  BY DEF MailInv, CallsTyped, ElementInv, OrderFits
<1>2. ASSUME UNCHANGED call PROVE CallsGrow
  BY <1>1, <1>2 DEF CallsGrow
<1>3. ASSUME NEW c \in Caller, Call(c) PROVE CallsGrow
  <2>1. /\ call' = [call EXCEPT ![c] = "waiting"]
        /\ \A d \in 1 .. c - 1 : call[d] # "new"
    BY <1>3 DEF Call
  <2>2. \A d \in Caller : d < c => call[d] # "new"
    BY <2>1, BoundsAreNat DEF Caller
  <2> QED
    BY <1>1, <2>1, <2>2 DEF CallsGrow
<1>4. ASSUME NEW c \in Caller, Answered(c) \/ Cancel(c) \/ Return(c) PROVE CallsGrow
  <2>1. call[c] # "new" /\ call' \in {[call EXCEPT ![c] = "joining"], [call EXCEPT ![c] = "gone"]}
    BY <1>4 DEF Answered, Cancel, Return
  <2> QED
    BY <1>1, <2>1 DEF CallsGrow
<1>5. CASE Crash
  <2>1. call' = [c \in Caller |-> IF c \in Outstanding THEN "gone" ELSE call[c]]
    BY <1>5 DEF Crash
  <2>2. \A c \in Caller : call'[c] = "new" <=> call[c] = "new"
    BY <1>1, <2>1 DEF Outstanding
  <2> QED
    BY <1>1, <2>2 DEF CallsGrow
<1>6. CASE OwnStep
  BY <1>2, <1>6
     DEF OwnStep, Store, Bind, Bound, Replay, Take, Saved, Recorded, Leave, Halt, Unwound,
         Diverges, Fails, ServeEnds, Closed, calls
<1>7. CASE CallerStep
  BY <1>4, <1>7 DEF CallerStep
<1>8. CASE OthersStep
  BY <1>2, <1>3, <1>4, <1>5, <1>8
     DEF OthersStep, Open, Release, RefuseTurn, AsideDone, SaveConfiguration, SameConfiguration,
         Ran, RunFails, UnwindFails, Fails, calls
<1>9. CASE UNCHANGED vars
  BY <1>2, <1>9 DEF vars, calls
<1> QED
  BY <1>6, <1>7, <1>8, <1>9 DEF Next

OrderRest ==
  /\ order \in Nat \ {0} /\ Admitted(order - 1)
  /\ Admitted(work.rec.order)
  /\ work.who # None => order <= work.who
  /\ conv = "serving" => \A i \in DOMAIN jobs : order <= jobs[i]

Rest == ValuesTyped /\ WorkShape /\ LifeShape /\ OrderRest

\* What the lemmas on the single actions have in common.
Before == MailInv /\ ElementInv /\ HistoryGrows /\ CallsGrow

LEMMA OrderKept ==
  ASSUME Before, order' = order, work'.who \in {work.who, None}, Admitted(work'.rec.order),
         conv' = "serving" => jobs' = <<>> \/ (conv = "serving" /\ jobs' = jobs)
  PROVE  OrderRest'
<1>1. \A n : Admitted(n) => Admitted(n)'
  BY DEF Admitted, Before, CallsGrow
<1>2. /\ order \in Nat \ {0} /\ Admitted(order - 1)
      /\ work.who # None => order <= work.who
      /\ conv = "serving" => \A i \in DOMAIN jobs : order <= jobs[i]
  BY DEF Before, ElementInv, OrderFits
<1>3. Admitted(order - 1)' /\ Admitted(work.rec.order)'
  BY <1>1, <1>2
<1>4. work'.who # None => order' <= work'.who
  BY <1>2
<1>5. conv' = "serving" => \A i \in DOMAIN jobs' : order' <= jobs'[i]
  BY <1>2
<1> QED
  BY <1>2, <1>3, <1>4, <1>5 DEF OrderRest

LEMMA BeforeTyped ==
  ASSUME Before
  PROVE  /\ ValuesTyped /\ WorkShape /\ LifeShape
         /\ file' \in Seq(Record) /\ memory' \in Seq(Record)
         /\ Admitted(0) /\ Admitted(work.rec.order) /\ Admitted(NoRecord.order)
         /\ work'.who = None => work'.who \in {work.who, None}
  BY HistoriesTyped, RecordsOf DEF Before, ElementInv, OrderFits, Admitted

LEMMA OpeningRest == Before /\ (Store \/ Bind \/ Bound \/ Replay \/ Open) => Rest'
<1> SUFFICES ASSUME Before PROVE (Store \/ Bind \/ Bound \/ Replay \/ Open) => Rest'
  OBVIOUS
<1>1. /\ ValuesTyped /\ WorkShape /\ LifeShape
      /\ file' \in Seq(Record) /\ memory' \in Seq(Record)
      /\ Admitted(NoRecord.order) /\ Admitted(work.rec.order) /\ Admitted(0)
  BY BeforeTyped
<1>2. MailInv
  BY DEF Before
<1>3. CASE Store
  <2>1. ValuesTyped'
    BY <1>1, <1>3 DEF Store, ValuesTyped, view, calls
  <2>2. WorkShape' /\ LifeShape'
    BY <1>1, <1>3 DEF Store, WorkShape, LifeShape, Reports, view
  <2>3. OrderRest'
    BY <1>1, <1>3, OrderKept DEF Store, view
  <2> QED
    BY <2>1, <2>2, <2>3 DEF Rest
<1>4. CASE Bind
  <2>1. work = [who |-> None, at |-> "idle", turn |-> FALSE, rec |-> NoRecord]
    BY <1>1, <1>2, <1>4
       DEF Bind, ValuesTyped, WorkShape, LifeShape, MailInv, ElementHasCaller
  <2>2. work' = [who |-> None, at |-> "binding", turn |-> FALSE, rec |-> Identity] /\ wire' = "sent"
    BY <1>4, <2>1 DEF Bind, Send, At
  <2>3. ValuesTyped'
    BY <1>1, <1>4, <2>2, RecordsOf DEF Bind, ValuesTyped, view, history, calls, ghosts, Steps
  <2>4. WorkShape' /\ LifeShape'
    BY <1>1, <1>4, <2>2 DEF Bind, WorkShape, LifeShape, Reports, view, history
  <2>5. Admitted(work'.rec.order)
    BY <1>1, <2>2, RecordsOf, RecordFields
  <2>6. OrderRest'
    BY <1>1, <1>4, <2>2, <2>5, OrderKept DEF Bind, view
  <2> QED
    BY <2>3, <2>4, <2>6 DEF Rest
<1>5. CASE Bound
  <2>1. work' = [who |-> None, at |-> "idle", turn |-> FALSE, rec |-> NoRecord]
        /\ conv' = "serving" /\ wire' = "none" /\ memory' = Append(memory, work.rec)
    BY <1>5 DEF Bound, Acknowledged, Idle
  <2>2. memory' # <<>>
    BY <1>1, <2>1, EntriesAppend DEF ValuesTyped
  <2>3. ValuesTyped'
    <3>1. work' \in [who : Caller \cup {None}, at : Steps, turn : BOOLEAN, rec : Record]
      BY <2>1, RecordsOf DEF Steps
    <3>2. UNCHANGED <<file, missed, forked, known, established, used, answer, busy, cause, told, under>>
          /\ open' = TRUE /\ aligned' = TRUE /\ conv' = "serving" /\ wire' = "none"
      BY <1>5 DEF Bound, Acknowledged, calls
    <3>3. open' \in BOOLEAN /\ aligned' \in BOOLEAN
      BY <3>2
    <3> QED
      BY <1>1, <3>1, <3>2, <3>3 DEF ValuesTyped
  <2>4. WorkShape' /\ LifeShape'
    BY <1>1, <1>5, <2>1, <2>2 DEF Bound, WorkShape, LifeShape
  <2>5. jobs' = <<>>
    BY <1>1, <1>2, <1>5 DEF Bound, LifeShape, MailInv, MailboxHasCaller, ElementHasCaller
  <2>6. OrderRest'
    BY <1>1, <1>5, <2>1, <2>5, OrderKept DEF Bound
  <2> QED
    BY <2>3, <2>4, <2>6 DEF Rest
<1>6. CASE Replay
  <2>1. open' \in BOOLEAN /\ aligned' \in BOOLEAN
    BY <1>6 DEF Replay, Replays
  <2>2. conv' \in {"serving", "refused"}
        /\ UNCHANGED <<file, memory, known, established, used, work, wire, answer, busy, cause>>
        /\ UNCHANGED <<missed, forked, told, under>>
    BY <1>6 DEF Replay, history, calls, ghosts
  <2>3. ValuesTyped'
    BY <1>1, <2>1, <2>2 DEF ValuesTyped
  <2>4. WorkShape' /\ LifeShape'
    BY <1>1, <1>6 DEF Replay, WorkShape, LifeShape, Reports, history
  <2>5. jobs' = <<>>
    BY <1>2, <1>6 DEF Replay, MailInv, MailboxHasCaller
  <2>6. OrderRest'
    BY <1>1, <1>6, <2>5, OrderKept DEF Replay
  <2> QED
    BY <2>3, <2>4, <2>6 DEF Rest
<1>7. CASE Open
  <2>1. /\ UNCHANGED <<file, memory, open, aligned, jobs, work, wire, call, answer, busy, cause>>
        /\ UNCHANGED <<forked, told, under, cancelled, joined>>
    BY <1>7 DEF Open, history, calls
  <2>2. conv = "down" /\ conv' \in {"opening", "refused"}
    BY <1>7 DEF Open
  <2>3. conv' = "opening" => Openable(memory)
    BY <1>7 DEF Open
  <2>4. conv' = "opening" => known' = LastConfig(memory) /\ order' = NextOrder(memory)
          /\ missed' = (memory # file) /\ used' = UsedIn(memory)
          /\ established' = IF NativesOf(memory) = {} THEN None
                            ELSE CHOOSE m \in NativesOf(memory) : TRUE
    BY <1>7 DEF Open
  <2>5. conv' = "refused" => UNCHANGED <<known, established, used, order, missed>>
    BY <1>7 DEF Open
  <2>6. known' \in Config \cup {None} /\ established' \in Native \cup {None}
        /\ used' \in BOOLEAN /\ missed' \in BOOLEAN
    BY <1>1, <2>2, <2>4, <2>5, LastConfigType, NativesType DEF ValuesTyped, UsedIn
  <2>7. ValuesTyped'
    BY <1>1, <2>1, <2>2, <2>6 DEF ValuesTyped
  <2>8. work.at = "idle" /\ jobs = <<>> /\ work.who = None /\ work.rec = NoRecord /\ wire = "none"
    BY <1>1, <1>2, <2>2 DEF LifeShape, WorkShape, ValuesTyped, MailInv, MailboxHasCaller, ElementHasCaller
  <2>9. WorkShape' /\ LifeShape'
    BY <1>1, <2>1, <2>2, <2>3, <2>8 DEF WorkShape, LifeShape, Openable
  <2>10. OrderRest'
    <3>1. CASE conv' = "refused"
      BY <1>1, <2>1, <2>5, <2>8, <3>1, OrderKept
    <3>2. CASE conv' = "opening"
      <4>1. order' \in Nat \ {0} /\ (order' = 1 \/ \E e \in Entries(memory) : e.order = order' - 1)
        BY <1>1, <2>4, <3>2, NextOrderIs, BoundsAreNat DEF ValuesTyped
      <4>2. Admitted(order' - 1)
        BY <1>1, <4>1 DEF Before, ElementInv, OrderFits
      <4>3. Admitted(order - 1)'
        BY <2>1, <4>2 DEF Admitted
      <4>4. Admitted(work.rec.order)'
        BY <1>1, <2>1 DEF Admitted
      <4> QED
        BY <2>1, <2>8, <3>2, <4>1, <4>3, <4>4 DEF OrderRest
    <3> QED
      BY <2>2, <3>1, <3>2
  <2> QED
    BY <2>7, <2>9, <2>10 DEF Rest
<1> QED
  BY <1>3, <1>4, <1>5, <1>6, <1>7

\* A step that leaves the element, the histories and the view alone.
LEMMA CallersRest ==
  ASSUME Before, \E c \in Caller : Call(c) \/ Answered(c) \/ Cancel(c) \/ Return(c)
  PROVE  Rest'
<1> PICK c \in Caller : Call(c) \/ Answered(c) \/ Cancel(c) \/ Return(c)
  OBVIOUS
<1>1. /\ ValuesTyped /\ WorkShape /\ LifeShape
      /\ Admitted(work.rec.order) /\ MailInv
  BY BeforeTyped DEF Before
<1>2. /\ UNCHANGED <<file, memory, conv, open, known, established, used, order, aligned>>
      /\ UNCHANGED <<work, wire, cause, missed, forked, told, under>>
  BY DEF Call, Answered, Cancel, Return, history, view, ghosts
<1>3. busy' \in BOOLEAN /\ answer' \in [Caller -> {"none", "given"}]
  <2>1. busy' \in {busy, TRUE, FALSE}
    BY DEF Call, Answered, Cancel, Return
  <2>2. answer' = answer \/ answer' = [d \in Caller |-> IF d \in {c} THEN "none" ELSE answer[d]]
    BY DEF Call, Answered, Cancel, Return, Drop
  <2>3. busy \in BOOLEAN /\ answer \in [Caller -> {"none", "given"}]
    BY <1>1 DEF ValuesTyped
  <2>4. answer' \in [Caller -> {"none", "given"}]
    BY <2>2, <2>3
  <2> QED
    BY <2>1, <2>3, <2>4
<1>4. ValuesTyped'
  BY <1>1, <1>2, <1>3 DEF ValuesTyped
<1>5. WorkShape' /\ LifeShape'
  BY <1>1, <1>2 DEF WorkShape, LifeShape, Reports, Openable
<1>6. CASE Call(c)
  <2>1. jobs' = Append(jobs, c) /\ call[c] = "new" /\ Outstanding = {}
    BY <1>1, <1>6 DEF Call, MailInv, OneAdmitted
  <2>2. \A n : Admitted(n) => Admitted(n)'
    BY DEF Admitted, Before, CallsGrow
  <2>3. order \in Nat \ {0} /\ Admitted(order - 1) /\ c \in Nat /\ c # 0
    BY BoundsAreNat DEF Before, ElementInv, OrderFits, Caller
  <2>4. order <= c
    <3>1. ASSUME order > c PROVE FALSE
      <4>1. order - 1 \in Caller /\ call[order - 1] # "new" /\ c # order - 1
        BY <2>1, <2>3, <3>1 DEF Admitted
      <4>2. c < order - 1
        BY <2>3, <3>1, <4>1
      <4> QED
        BY <2>1, <4>1, <4>2 DEF Before, ElementInv, OrderFits
    <3> QED
      BY <2>3, <3>1
  <2>5. work.who = None /\ (conv = "serving" => jobs = <<>>)
    BY <1>1, <2>1 DEF MailInv, ElementHasCaller, MailboxHasCaller
  <2>6. conv' = "serving" => \A i \in DOMAIN jobs' : order' <= jobs'[i]
    <3>1. ASSUME jobs = <<>> PROVE jobs' = <<c>>
      BY <2>1, <3>1
    <3> QED
      BY <1>2, <2>4, <2>5, <3>1
  <2> QED
    BY <1>1, <1>2, <1>4, <1>5, <2>2, <2>3, <2>5, <2>6 DEF Rest, OrderRest
<1>7. CASE Answered(c) \/ Cancel(c) \/ Return(c)
  <2>1. jobs' = jobs
    BY <1>7 DEF Answered, Cancel, Return
  <2>2. OrderRest'
    BY <1>1, <1>2, <2>1, OrderKept
  <2> QED
    BY <1>4, <1>5, <2>2 DEF Rest
<1> QED
  BY <1>6, <1>7

LEMMA TakeRest == Before /\ Take => Rest'
<1> SUFFICES ASSUME Before, Take PROVE Rest'
  OBVIOUS
<1>1. /\ ValuesTyped /\ WorkShape /\ LifeShape /\ MailInv /\ OrderFits
      /\ Admitted(NoRecord.order)
  BY BeforeTyped DEF Before, ElementInv
<1>2. conv = "serving" /\ jobs # <<>> /\ Len(jobs) <= 1 /\ jobs \in Seq(Caller) /\ work.at = "idle"
  BY <1>1 DEF Take, MailInv, CallsTyped, MailboxHasCaller
<1>3. Head(jobs) = jobs[1] /\ 1 \in DOMAIN jobs /\ Tail(jobs) = <<>>
  BY <1>2, QueueOfOne
<1>4. Head(jobs) \in Caller /\ order <= Head(jobs)
  BY <1>1, <1>2, <1>3 DEF OrderFits
<1>5. PICK turn \in BOOLEAN :
        work' = [who |-> Head(jobs), at |-> IF turn THEN "resolving" ELSE "aside",
                 turn |-> turn, rec |-> NoRecord]
  BY DEF Take
<1>6. /\ UNCHANGED <<file, memory, conv, open, known, established, used, order, aligned>>
      /\ UNCHANGED <<wire, cause, missed, forked, told, under, answer, busy, call>>
      /\ jobs' = <<>>
  BY <1>3 DEF Take, history, view, ghosts, calls
<1>7. work' \in [who : Caller \cup {None}, at : Steps, turn : BOOLEAN, rec : Record]
  BY <1>4, <1>5, RecordsOf DEF Steps
<1>8. ValuesTyped'
  BY <1>1, <1>6, <1>7 DEF ValuesTyped
<1>9. WorkShape' /\ LifeShape'
  BY <1>1, <1>2, <1>4, <1>5, <1>6, CallerIsNot0 DEF WorkShape, LifeShape
<1>10. OrderRest'
  BY <1>1, <1>4, <1>5, <1>6 DEF OrderRest, OrderFits, Admitted
<1> QED
  BY <1>8, <1>9, <1>10 DEF Rest

\* A turn in hand is that of an admitted call, and so is its order.
LEMMA TurnAdmitted ==
  ASSUME Before, work.at \notin {"idle", "binding", "unwinding"}
  PROVE  order \in 1 .. MaxCalls /\ Admitted(order) /\ work.who \in Caller /\ work.who # None
<1>1. work.who \in Caller /\ work.who # None /\ call[work.who] # "new"
  BY OnAJob DEF Before, Outstanding
<1>2. order \in Nat \ {0} /\ order <= work.who
  BY <1>1 DEF Before, ElementInv, OrderFits
<1>3. order \in Caller /\ work.who \in 1 .. MaxCalls
  BY <1>1, <1>2, BoundsAreNat DEF Caller
<1>4. call[order] # "new"
  BY <1>1, <1>2, <1>3 DEF Before, ElementInv, OrderFits
<1> QED
  BY <1>1, <1>3, <1>4 DEF Admitted, Caller

LEMMA TurnRest ==
  ASSUME Before,
         \/ RefuseTurn \/ Saved \/ Recorded \/ AsideDone
         \/ \E g \in Config : SaveConfiguration(g) \/ SameConfiguration(g)
         \/ \E m \in Native \cup {None}, u \in BOOLEAN : Ran(m, u)
  PROVE  Rest'
<1>1. /\ ValuesTyped /\ WorkShape /\ LifeShape /\ MailInv
      /\ file' \in Seq(Record) /\ memory' \in Seq(Record)
      /\ Admitted(NoRecord.order) /\ Admitted(work.rec.order) /\ Admitted(0)
  BY BeforeTyped DEF Before
<1>2. work.at \notin {"idle", "binding", "unwinding"}
  BY DEF RefuseTurn, Saved, Recorded, AsideDone, SaveConfiguration, SameConfiguration, Ran
<1>3. order \in 1 .. MaxCalls /\ Admitted(order) /\ work.who \in Caller /\ work.who # None
  BY <1>2, TurnAdmitted
<1>4. UNCHANGED <<conv, open, order, aligned, jobs, established, used, busy, cause, call>>
  BY DEF RefuseTurn, Saved, Recorded, AsideDone, SaveConfiguration, SameConfiguration, Ran,
         view, calls
<1>5. work'.who = work.who /\ work'.turn = work.turn
      /\ work' = [who |-> work'.who, at |-> work'.at, turn |-> work'.turn, rec |-> work'.rec]
  <2>1. \E step, rec : work' = At(step, rec)
    BY DEF RefuseTurn, Saved, Recorded, AsideDone, SaveConfiguration, SameConfiguration, Ran, Send
  <2>2. PICK step, rec :
          work' = [who |-> work.who, at |-> step, turn |-> work.turn, rec |-> rec]
    BY <2>1 DEF At
  <2> QED
    BY <2>2
<1>6. ASSUME work'.at \in Steps, work'.rec \in Record, Admitted(work'.rec.order),
             known' \in Config \cup {None}, wire' \in {"none", "sent", "stored"},
             answer' \in {answer, [answer EXCEPT ![work.who] = "given"]},
             missed' = missed, forked' = forked, told' \subseteq Native, under' \subseteq Config,
             WorkShape', LifeShape'
      PROVE  Rest'
  <2>1. work' \in [who : Caller \cup {None}, at : Steps, turn : BOOLEAN, rec : Record]
    <3>1. work'.who \in Caller \cup {None} /\ work'.turn \in BOOLEAN
      BY <1>1, <1>5 DEF ValuesTyped
    <3> QED
      BY <1>5, <1>6, <3>1
  <2>2. answer' \in [Caller -> {"none", "given"}]
    BY <1>1, <1>6 DEF ValuesTyped
  <2>3. ValuesTyped'
    BY <1>1, <1>4, <1>6, <2>1, <2>2 DEF ValuesTyped
  <2>4. OrderRest'
    BY <1>4, <1>5, <1>6, OrderKept
  <2> QED
    BY <1>6, <2>3, <2>4 DEF Rest
<1>7. CASE RefuseTurn \/ AsideDone
  <2>1. /\ work'.at = "leaving" /\ work'.rec = NoRecord
        /\ answer' = [answer EXCEPT ![work.who] = "given"]
        /\ UNCHANGED <<file, memory, known, wire, missed, forked, told, under>>
        /\ work.at \in {"resolving", "settled", "aside"}
    BY <1>7 DEF RefuseTurn, AsideDone, At, history, view, ghosts
  <2>2. WorkShape' /\ LifeShape'
    BY <1>1, <1>3, <1>4, <1>5, <2>1 DEF WorkShape, LifeShape
  <2> QED
    BY <1>1, <1>6, <2>1, <2>2, RecordsOf DEF ValuesTyped, Steps
<1>8. ASSUME NEW g \in Config, SaveConfiguration(g) PROVE Rest'
  <2>1. /\ work'.at = "saving" /\ work'.rec = Configured(g) /\ wire' = "sent"
        /\ UNCHANGED <<file, memory, known, answer, missed, forked, told, under>>
        /\ work.at = "resolving" /\ known = None
    BY <1>8 DEF SaveConfiguration, Send, At, history, view, ghosts, calls
  <2>2. WorkShape' /\ LifeShape'
    BY <1>1, <1>3, <1>4, <1>5, <2>1 DEF WorkShape, LifeShape
  <2>3. work'.rec \in Record /\ Admitted(work'.rec.order)
    BY <1>1, <2>1, RecordsOf, RecordFields
  <2> QED
    BY <1>1, <1>6, <2>1, <2>2, <2>3 DEF ValuesTyped, Steps
<1>9. CASE Saved
  <2>1. /\ work'.at = "settled" /\ work'.rec = NoRecord /\ wire' = "none"
        /\ memory' = Append(memory, work.rec)
        /\ known' = work.rec.config /\ under' = under \cup {known'}
        /\ UNCHANGED <<answer, missed, forked, told>>
        /\ work.at = "saving"
    BY <1>9 DEF Saved, Acknowledged, At, calls
  <2>2. known' \in Config /\ known' # None
    BY <1>1, <2>1, RecordsOf DEF WorkShape, Config, None
  <2>3. memory' # <<>>
    BY <1>1, <2>1, EntriesAppend DEF ValuesTyped
  <2>4. WorkShape' /\ LifeShape'
    BY <1>1, <1>3, <1>4, <1>5, <2>1, <2>2, <2>3 DEF WorkShape, LifeShape
  <2> QED
    BY <1>1, <1>6, <2>1, <2>2, <2>4, RecordsOf DEF ValuesTyped, Steps
<1>10. ASSUME NEW g \in Config, SameConfiguration(g) PROVE Rest'
  <2>1. /\ work'.at = "settled" /\ work'.rec = NoRecord /\ known = g
        /\ under' = under \cup {g}
        /\ UNCHANGED <<file, memory, known, wire, answer, missed, forked, told>>
        /\ work.at = "resolving"
    BY <1>10 DEF SameConfiguration, At, history, view, calls
  <2>2. known # None
    BY <2>1, BoundsAreNat DEF Config, None
  <2>3. WorkShape' /\ LifeShape'
    BY <1>1, <1>3, <1>4, <1>5, <2>1, <2>2 DEF WorkShape, LifeShape
  <2> QED
    BY <1>1, <1>6, <2>1, <2>3, RecordsOf DEF ValuesTyped, Steps
<1>11. ASSUME NEW m \in Native \cup {None}, NEW u \in BOOLEAN, Ran(m, u) PROVE Rest'
  <2>1. /\ work'.at = "writing" /\ work'.rec = Turn(order, m, u) /\ wire' = "sent"
        /\ UNCHANGED <<file, memory, known, answer, missed, forked, told, under>>
        /\ work.at = "settled" /\ (m # None => u)
    BY <1>11 DEF Ran, Send, At, history, view, ghosts, calls
  <2>2. /\ work'.rec \in Record /\ work'.rec.kind = "turn" /\ work'.rec.order = order
        /\ (work'.rec.native # None => work'.rec.used)
    BY <1>3, <2>1, TurnFields
  <2>3. WorkShape' /\ LifeShape'
    BY <1>1, <1>3, <1>4, <1>5, <2>1, <2>2 DEF WorkShape, LifeShape, Reports
  <2> QED
    BY <1>1, <1>3, <1>6, <2>1, <2>2, <2>3 DEF ValuesTyped, Steps
<1>12. CASE Recorded
  <2>1. /\ work'.at = "leaving" /\ work'.rec = work.rec /\ wire' = "none"
        /\ memory' = Append(memory, work.rec)
        /\ told' \subseteq told \cup ({work.rec.native} \ {None})
        /\ answer' = [answer EXCEPT ![work.who] = "given"]
        /\ UNCHANGED <<known, missed, forked, under>>
        /\ work.at = "writing"
    BY <1>12 DEF Recorded, Acknowledged, At, view
  <2>2. work.rec \in Record /\ told' \subseteq Native
    BY <1>1, <2>1, RecordFields DEF ValuesTyped
  <2>3. memory' # <<>>
    BY <1>1, <2>1, EntriesAppend DEF ValuesTyped
  <2>4. WorkShape' /\ LifeShape'
    BY <1>1, <1>3, <1>4, <1>5, <2>1, <2>3 DEF WorkShape, LifeShape, Reports
  <2> QED
    BY <1>1, <1>6, <2>1, <2>2, <2>4 DEF ValuesTyped, Steps
<1> QED
  BY <1>7, <1>8, <1>9, <1>10, <1>11, <1>12

\* A halted append leaves the record in hand in the histories or out of them.
LEMMA AbandonedIs ==
  Abandoned =>
    /\ wire' = "none"
    /\ missed' \in BOOLEAN /\ forked' \in BOOLEAN
    /\ memory' \in {memory, Append(memory, work.rec)}
  BY DEF Abandoned

LEMMA HaltRest == Before /\ Halt => Rest'
<1> SUFFICES ASSUME Before, Halt PROVE Rest'
  OBVIOUS
<1>1. /\ ValuesTyped /\ WorkShape /\ LifeShape /\ MailInv
      /\ file' \in Seq(Record) /\ memory' \in Seq(Record)
      /\ Admitted(NoRecord.order) /\ work.rec \in Record
  BY BeforeTyped DEF Before, ValuesTyped
<1>2. work.who # None /\ conv \in {"serving", "releasing"} /\ work.at \notin {"idle", "leaving", "unwinding"}
  BY <1>1, CallerIsNot0 DEF Halt, MailInv, CallsTyped, ElementHasCaller
<1>3. conv = "serving" /\ memory # <<>>
  BY <1>1, <1>2 DEF LifeShape
<1>4. /\ UNCHANGED <<conv, open, known, established, used, order, aligned, jobs>>
      /\ UNCHANGED <<call, answer, busy, cause, told, under>>
      /\ work' = [who |-> work.who, at |-> "unwinding", turn |-> work.turn, rec |-> NoRecord]
      /\ Abandoned
  BY DEF Halt, At, view, calls
<1>5. memory' # <<>>
  BY <1>1, <1>3, <1>4, AbandonedIs, EntriesAppend DEF ValuesTyped
<1>6. work' \in [who : Caller \cup {None}, at : Steps, turn : BOOLEAN, rec : Record]
  BY <1>1, <1>4, RecordsOf DEF Steps, ValuesTyped
<1>7. ValuesTyped'
  BY <1>1, <1>4, <1>6, AbandonedIs DEF ValuesTyped
<1>8. WorkShape' /\ LifeShape'
  BY <1>1, <1>2, <1>3, <1>4, <1>5, AbandonedIs DEF WorkShape, LifeShape
<1>9. OrderRest'
  BY <1>1, <1>4, OrderKept
<1> QED
  BY <1>7, <1>8, <1>9 DEF Rest

\* The job is let go of: the next turn's order is the next, unless it was an aside.
LEMMA LeaveRest == Before /\ (Leave \/ Unwound) => Rest'
<1> SUFFICES ASSUME Before, Leave \/ Unwound PROVE Rest'
  OBVIOUS
<1>1. /\ ValuesTyped /\ WorkShape /\ LifeShape /\ MailInv
      /\ Admitted(NoRecord.order) /\ work.rec \in Record
  BY BeforeTyped DEF Before, ValuesTyped
<1>2. /\ work.at \in {"leaving", "unwinding"}
      /\ work' = [who |-> None, at |-> "idle", turn |-> FALSE, rec |-> NoRecord]
      /\ order' = IF work.turn THEN order + 1 ELSE order
      /\ UNCHANGED <<file, memory, conv, open, known, aligned, jobs, wire, call, answer>>
      /\ UNCHANGED <<busy, cause, missed, forked, told, under>>
  BY DEF Leave, Unwound, Idle, history, ghosts
<1>3. established' \in Native \cup {None} /\ used' \in BOOLEAN
  <2>1. work.rec.native \in Native \cup {None} /\ work.rec.used \in BOOLEAN
    BY <1>1, RecordFields
  <2> QED
    BY <1>1, <2>1 DEF Leave, Unwound, ValuesTyped
<1>4. work' \in [who : Caller \cup {None}, at : Steps, turn : BOOLEAN, rec : Record]
  BY <1>2, RecordsOf DEF Steps
<1>5. ValuesTyped'
  BY <1>1, <1>2, <1>3, <1>4 DEF ValuesTyped
<1>6. WorkShape' /\ LifeShape'
  BY <1>1, <1>2 DEF WorkShape, LifeShape, Openable
<1>7. ASSUME work.turn
      PROVE  work.who \in Caller /\ work.who # None /\ order <= work.who /\ order \in Nat \ {0}
             /\ call[work.who] # "new"
  <2>1. work.who # None
    BY <1>1, <1>7 DEF WorkShape
  <2>2. work.who \in Outstanding
    BY <1>1, <2>1 DEF MailInv, ElementHasCaller
  <2> QED
    BY <2>1, <2>2 DEF Before, ElementInv, OrderFits, Outstanding
<1>8. order' \in Nat \ {0} /\ Admitted(order' - 1)
  <2>1. CASE work.turn
    <3>1. order \in Caller /\ order' - 1 = order
      BY <1>2, <1>7, <2>1, BoundsAreNat DEF Caller
    <3>2. call[order] # "new"
      BY <1>7, <2>1, <3>1 DEF Before, ElementInv, OrderFits, Caller
    <3> QED
      BY <1>2, <1>7, <2>1, <3>1, <3>2 DEF Admitted
  <2>2. CASE ~work.turn
    BY <1>2, <2>2 DEF Before, ElementInv, OrderFits
  <2> QED
    BY <2>1, <2>2
<1>9. conv' = "serving" => \A i \in DOMAIN jobs' : order' <= jobs'[i]
  <2>1. CASE work.turn
    BY <1>1, <1>2, <1>7, <2>1 DEF MailInv, MailboxHasCaller
  <2>2. CASE ~work.turn
    BY <1>2, <2>2 DEF Before, ElementInv, OrderFits
  <2> QED
    BY <2>1, <2>2
<1>10. OrderRest'
  BY <1>1, <1>2, <1>8, <1>9 DEF OrderRest, Admitted
<1> QED
  BY <1>5, <1>6, <1>10 DEF Rest

LEMMA FailRest == Before /\ (RunFails \/ Diverges \/ UnwindFails) => Rest'
<1> SUFFICES ASSUME Before, RunFails \/ Diverges \/ UnwindFails PROVE Rest'
  OBVIOUS
<1>1. /\ ValuesTyped /\ WorkShape /\ LifeShape
      /\ file' \in Seq(Record) /\ memory' \in Seq(Record)
      /\ Admitted(NoRecord.order)
  BY BeforeTyped
<1>2. /\ conv' = "failing" /\ cause' \in {"durability", "teardown"}
      /\ work' = [who |-> None, at |-> "idle", turn |-> FALSE, rec |-> NoRecord]
      /\ UNCHANGED <<open, known, established, used, order, aligned, answer, busy, told, under>>
  BY DEF RunFails, Diverges, UnwindFails, Fails, Idle, view
<1>3. wire' = "none" /\ missed' \in BOOLEAN /\ forked' \in BOOLEAN
  <2>1. CASE RunFails
    BY <1>1, <2>1, AbandonedIs DEF RunFails, ValuesTyped
  <2>2. CASE Diverges \/ UnwindFails
    BY <1>1, <2>2 DEF Diverges, UnwindFails, ValuesTyped, WorkShape
  <2> QED
    BY <2>1, <2>2
<1>4. work' \in [who : Caller \cup {None}, at : Steps, turn : BOOLEAN, rec : Record]
  BY <1>2, RecordsOf DEF Steps
<1>5. ValuesTyped'
  BY <1>1, <1>2, <1>3, <1>4 DEF ValuesTyped
<1>6. WorkShape' /\ LifeShape'
  BY <1>1, <1>2, <1>3 DEF WorkShape, LifeShape
<1>7. OrderRest'
  BY <1>1, <1>2, OrderKept
<1> QED
  BY <1>5, <1>6, <1>7 DEF Rest

LEMMA EndRest == Before /\ (ServeEnds \/ Release \/ Closed \/ Crash) => Rest'
<1> SUFFICES ASSUME Before PROVE (ServeEnds \/ Release \/ Closed \/ Crash) => Rest'
  OBVIOUS
<1>1. /\ ValuesTyped /\ WorkShape /\ LifeShape /\ MailInv
      /\ file' \in Seq(Record) /\ memory' \in Seq(Record)
      /\ Admitted(NoRecord.order) /\ Admitted(work.rec.order) /\ Admitted(0)
  BY BeforeTyped DEF Before
<1>2. CASE ServeEnds
  <2>1. /\ conv' = "ended" /\ open' = FALSE /\ work.at = "idle" /\ forked' \in BOOLEAN
        /\ UNCHANGED <<known, established, used, order, aligned, jobs, work, wire, call, answer>>
        /\ UNCHANGED <<busy, cause, missed, told, under>>
    BY <1>1, <1>2 DEF ServeEnds, LifeShape, view
  <2>2. open' \in BOOLEAN
    BY <2>1
  <2>3. ValuesTyped'
    BY <1>1, <2>1, <2>2 DEF ValuesTyped
  <2>4. WorkShape' /\ LifeShape'
    BY <1>1, <2>1 DEF WorkShape, LifeShape
  <2>5. OrderRest'
    BY <1>1, <2>1, OrderKept
  <2> QED
    BY <2>3, <2>4, <2>5 DEF Rest
<1>3. CASE Release
  <2>1. /\ conv' = "releasing"
        /\ UNCHANGED <<open, known, established, used, order, aligned, jobs, call, answer>>
        /\ UNCHANGED <<busy, cause, told, under>>
    BY <1>3 DEF Release, view, calls
  <2>2. CASE work.at \in {"idle", "leaving", "unwinding"}
    <3>1. UNCHANGED <<file, memory, work, wire, missed, forked>>
      BY <1>3, <2>2 DEF Release, history
    <3>2. ValuesTyped'
      BY <1>1, <2>1, <3>1 DEF ValuesTyped
    <3>3. WorkShape' /\ LifeShape'
      BY <1>1, <2>1, <2>2, <3>1 DEF WorkShape, LifeShape, Reports
    <3>4. OrderRest'
      BY <1>1, <2>1, <3>1, OrderKept
    <3> QED
      BY <3>2, <3>3, <3>4 DEF Rest
  <2>3. CASE work.at \notin {"idle", "leaving", "unwinding"}
    <3>1. /\ Abandoned
          /\ work' = [who |-> work.who, at |-> "unwinding", turn |-> work.turn, rec |-> NoRecord]
      BY <1>3, <2>3 DEF Release, At
    <3>2. work' \in [who : Caller \cup {None}, at : Steps, turn : BOOLEAN, rec : Record]
      BY <1>1, <3>1, RecordsOf DEF Steps, ValuesTyped
    <3>3. ValuesTyped'
      BY <1>1, <2>1, <3>1, <3>2, AbandonedIs DEF ValuesTyped
    <3>4. WorkShape' /\ LifeShape'
      BY <1>1, <2>1, <3>1, AbandonedIs DEF WorkShape, LifeShape
    <3>5. OrderRest'
      BY <1>1, <2>1, <3>1, OrderKept
    <3> QED
      BY <3>3, <3>4, <3>5 DEF Rest
  <2> QED
    BY <2>2, <2>3
<1>4. CASE Closed \/ Crash
  <2>1. /\ conv' = "down" /\ open' = FALSE /\ cause' = "none" /\ missed' = FALSE /\ jobs' = <<>>
        /\ known' = None /\ established' = None /\ used' = FALSE /\ order' = 1 /\ aligned' = TRUE
        /\ UNCHANGED <<told, under>>
    BY <1>4 DEF Closed, Crash, Forget
  <2>2. work' = [who |-> None, at |-> "idle", turn |-> FALSE, rec |-> NoRecord] /\ wire' = "none"
    <3>1. CASE Closed
      <4>1. work.at = "idle" /\ work' = work /\ wire' = wire
        BY <3>1 DEF Closed
      <4>2. work.who = None /\ work.turn = FALSE /\ work.rec = NoRecord /\ wire = "none"
        BY <1>1, <4>1 DEF WorkShape, MailInv, ElementHasCaller, ValuesTyped
      <4> QED
        BY <1>1, <4>1, <4>2 DEF ValuesTyped
    <3>2. CASE Crash
      BY <3>2 DEF Crash, Idle
    <3> QED
      BY <1>4, <3>1, <3>2
  <2>3. busy' \in {busy, FALSE} /\ forked' \in BOOLEAN
    BY <1>1, <1>4 DEF Closed, Crash, ValuesTyped
  <2>4. answer' \in [Caller -> {"none", "given"}]
    BY <1>1, <1>4 DEF Closed, Crash, Drop, ValuesTyped
  <2>5. work' \in [who : Caller \cup {None}, at : Steps, turn : BOOLEAN, rec : Record]
    BY <2>2, RecordsOf DEF Steps
  <2>6. ValuesTyped'
    <3>1. open' \in BOOLEAN /\ used' \in BOOLEAN /\ aligned' \in BOOLEAN /\ missed' \in BOOLEAN
          /\ busy' \in BOOLEAN /\ forked' \in BOOLEAN
      BY <1>1, <2>1, <2>3 DEF ValuesTyped
    <3> QED
      BY <1>1, <2>1, <2>2, <2>4, <2>5, <3>1 DEF ValuesTyped
  <2>7. WorkShape' /\ LifeShape'
    BY <2>1, <2>2 DEF WorkShape, LifeShape
  <2>8. OrderRest'
    <3>1. order' \in Nat \ {0} /\ order' - 1 = 0 /\ work'.rec.order = 0
      BY <2>1, <2>2, RecordsOf
    <3>2. Admitted(order - 1)' /\ Admitted(work.rec.order)'
      BY <3>1 DEF Admitted
    <3> QED
      BY <2>1, <2>2, <3>1, <3>2 DEF OrderRest
  <2> QED
    BY <2>6, <2>7, <2>8 DEF Rest
<1> QED
  BY <1>2, <1>3, <1>4

LEMMA ElementPreserved == MailInv /\ ElementInv /\ [Next]_vars => ElementInv'
<1> SUFFICES ASSUME MailInv, ElementInv, [Next]_vars PROVE ElementInv'
  OBVIOUS
<1>1. Before
  BY HistoriesGrow, CallsOnlyGrow DEF Before
<1>2. Rest'
  <2>1. CASE OwnStep
    BY <1>1, <2>1, OpeningRest, TakeRest, TurnRest, LeaveRest, HaltRest, FailRest, EndRest DEF OwnStep
  <2>2. CASE CallerStep
    BY <1>1, <2>2, CallersRest DEF CallerStep
  <2>3. CASE OthersStep
    BY <1>1, <2>3, OpeningRest, CallersRest, TurnRest, FailRest, EndRest DEF OthersStep
  <2>4. CASE UNCHANGED vars
    <3>1. /\ UNCHANGED <<file, memory, conv, open, known, established, used, order, aligned, jobs>>
          /\ UNCHANGED <<work, wire, call, answer, busy, cause, missed, forked, told, under>>
      BY <2>4 DEF vars, history, view, calls, ghosts
    <3>2. ValuesTyped' /\ WorkShape' /\ LifeShape'
      BY <1>1, <3>1, BeforeTyped DEF ValuesTyped, WorkShape, LifeShape, Reports, Openable
    <3>3. OrderRest'
      BY <1>1, <3>1, BeforeTyped, OrderKept
    <3> QED
      BY <3>2, <3>3 DEF Rest
  <2> QED
    BY <2>1, <2>2, <2>3, <2>4 DEF Next
<1>3. \A e \in Entries(file') \cup Entries(memory') : Admitted(e.order)'
  <2>1. \A n : Admitted(n) => Admitted(n)'
    BY <1>1 DEF Admitted, Before, CallsGrow
  <2>2. \A e \in Entries(file) \cup Entries(memory) \cup {work.rec} : Admitted(e.order)
    BY DEF ElementInv, OrderFits
  <2>3. Admitted(Close.order)
    BY RecordsOf, RecordFields DEF Admitted
  <2> QED
    BY <1>1, <2>1, <2>2, <2>3, HistoriesTyped DEF Before
<1>4. (\A c, d \in Caller : d < c /\ call[c] # "new" => call[d] # "new")'
  BY <1>1 DEF Before, CallsGrow
<1>5. OrderFits'
  BY <1>2, <1>3, <1>4 DEF OrderFits, Rest, OrderRest, Entries
<1> QED
  BY <1>2, <1>5 DEF ElementInv, Rest

\* Every variable of a conversation keeps its type, over every opening and crash;
\* a turn's order never passes the number of calls.
THEOREM ConversationTyped == Spec => []TypeOK
<1>1. Init => MailInv /\ ElementInv
  BY MailInitially, ElementInitially
<1>2. MailInv /\ ElementInv /\ [Next]_vars => MailInv' /\ ElementInv'
  BY MailPreserved, ElementPreserved
<1>3. ASSUME MailInv, ElementInv PROVE TypeOK
  <2>1. order \in 1 .. MaxCalls + 1
    BY <1>3, BoundsAreNat DEF ElementInv, OrderFits, Admitted, Caller
  <2>2. /\ call \in [Caller -> {"new", "waiting", "joining", "gone"}]
        /\ jobs \in Seq(Caller)
        /\ cancelled \subseteq Caller /\ joined \subseteq Caller
    BY <1>3 DEF MailInv, CallsTyped, OneAdmitted, Outstanding
  <2>3. /\ \A i \in DOMAIN file : file[i] \in Record
        /\ \A i \in DOMAIN memory : memory[i] \in Record
    BY <1>3, EntriesType DEF ElementInv, ValuesTyped, Entries
  <2>4. /\ work.who \in Caller \cup {None} /\ work.turn \in BOOLEAN
        /\ work.at \in Steps /\ work.rec \in Record
    BY <1>3 DEF ElementInv, ValuesTyped
  <2> QED
    BY <1>3, <2>1, <2>2, <2>3, <2>4 DEF TypeOK, ElementInv, ValuesTyped, Steps
<1> QED
  BY <1>1, <1>2, <1>3, PTL DEF Spec
------------------------------------------------------------------------------
(* What the conversation knows, and what its history holds.  A conversation  *)
(* that missed nothing is one record behind its file at most; one that did   *)
(* miss a record writes no other unless the history counts as forked.        *)

Working == conv \in {"opening", "serving"}

InSight ==
  (conv \in {"opening", "serving", "failing"} /\ ~missed) =>
    IF wire = "stored" THEN file = Append(memory, work.rec) ELSE memory = file

\* What held() will have noted once it takes note of the turn that leaves.
Established == IF established = None /\ work.at = "leaving" THEN work.rec.native ELSE established
UsedSoFar   == used \/ (work.at = "leaving" /\ work.rec.used)

ViewInv ==
  (Working /\ ~missed) =>
    /\ known = LastConfig(memory)
    /\ UsedSoFar <=> UsedIn(memory)
    /\ IF NativesOf(memory) = {} THEN Established = None ELSE Established \in NativesOf(memory)
    /\ \A e \in Entries(memory) :
         e.order < order \/ (work.at = "leaving" /\ work.turn /\ e.order <= order)

\* What a history, on the disk or in the writer's memory, says of what was done.
Sound(h) ==
  /\ told \subseteq NativesOf(h)
  /\ forked \/ (under \subseteq {LastConfig(h)} /\ Shape(h))

KeptInv ==
  /\ Sound(file) /\ Sound(memory)
  /\ \A a, b \in told : a = b
  /\ forked \/ LastConfig(memory) = None \/ LastConfig(file) = LastConfig(memory)
  /\ wire = "stored" => work.rec.native \in NativesOf(file) \cup {None}
  /\ wire = "stored" => forked \/ ~missed

\* What the open conversation holds its turns to.
HeldInv ==
  /\ Working => told \subseteq {Established}
  /\ Working => forked \/ (under \subseteq {known} /\ (known = None \/ known = LastConfig(memory)))
  /\ conv = "serving" => forked \/ aligned
  /\ conv = "refused" => forked \/ ~Openable(memory)

KnowsInv == InSight /\ ViewInv /\ KeptInv /\ HeldInv

Consistent == MailInv /\ ElementInv /\ KnowsInv

LEMMA KnowsInitially == Init => KnowsInv
<1> SUFFICES ASSUME Init PROVE KnowsInv
  OBVIOUS
<1>1. file = <<>> /\ memory = <<>> /\ conv = "down" /\ told = {} /\ under = {} /\ wire = "none"
  BY DEF Init
<1>2. LastConfig(<<>>) = None
  BY LastConfigEmpty
<1>3. InSight /\ ViewInv /\ HeldInv
  BY <1>1 DEF InSight, ViewInv, HeldInv, Working
<1>4. KeptInv
  BY <1>1, <1>2 DEF KeptInv, Sound, Shape
<1> QED
  BY <1>3, <1>4 DEF KnowsInv

LEMMA ConsistentTyped ==
  ASSUME Consistent
  PROVE  /\ file \in Seq(Record) /\ memory \in Seq(Record) /\ work.rec \in Record
         /\ told \subseteq Native /\ None \notin Native
         /\ under \subseteq Config /\ None \notin Config
         /\ wire # "none" => Working
         /\ wire = "sent" /\ ~missed => memory = file
         /\ wire = "stored" /\ ~missed => file = Append(memory, work.rec)
<1>1. None \notin Native /\ None \notin Config
  BY BoundsAreNat DEF Native, Config, None
<1>2. ValuesTyped /\ WorkShape /\ LifeShape /\ InSight
  BY DEF Consistent, ElementInv, KnowsInv
<1>3. wire # "none" => Working
  BY <1>2 DEF ValuesTyped, WorkShape, LifeShape, Working
<1> QED
  BY <1>1, <1>2, <1>3 DEF ValuesTyped, InSight, Working

\* The record on its way fits a history that misses nothing.
LEMMA WireFits ==
  ASSUME Consistent, wire = "sent", ~missed
  PROVE  /\ memory = file /\ Fits(file, work.rec)
         /\ work.rec.kind = "config" => LastConfig(memory) = None /\ known = None
<1>1. Working /\ memory = file /\ work.rec \in Record
  BY ConsistentTyped
<1>2. WorkShape /\ LifeShape /\ ViewInv
  BY DEF Consistent, ElementInv, KnowsInv
<1>3. known = LastConfig(memory)
  BY <1>1, <1>2 DEF ViewInv
<1>4. work.at \in {"binding", "saving", "writing"}
  BY <1>2 DEF WorkShape
<1>5. CASE work.at = "binding"
  BY <1>1, <1>2, <1>5, RecordsOf DEF WorkShape, Fits
<1>6. work.at \in {"saving", "writing"} => memory # <<>>
  BY <1>1, <1>2 DEF LifeShape, Working
<1>7. CASE work.at = "saving"
  BY <1>1, <1>2, <1>3, <1>6, <1>7 DEF WorkShape, Fits
<1>8. CASE work.at = "writing"
  BY <1>1, <1>2, <1>3, <1>6, <1>8 DEF WorkShape, Reports, Fits
<1> QED
  BY <1>1, <1>4, <1>5, <1>7, <1>8

\* What the file says once the record on its way has landed.
LEMMA Landing ==
  ASSUME Consistent, wire = "sent"
  PROVE  LET F == Append(file, work.rec)
         IN  /\ told \subseteq NativesOf(F)
             /\ work.rec.native \in NativesOf(F) \cup {None}
             /\ \/ forked \/ missed
                \/ /\ under \subseteq {LastConfig(F)} /\ Shape(F)
                   /\ LastConfig(memory) = None \/ LastConfig(F) = LastConfig(memory)
<1> DEFINE F == Append(file, work.rec)
<1>1. /\ file \in Seq(Record) /\ work.rec \in Record /\ Working
      /\ under \subseteq Config /\ None \notin Config
  BY ConsistentTyped
<1>2. KeptInv /\ HeldInv
  BY DEF Consistent, KnowsInv
<1>3. told \subseteq NativesOf(F) /\ work.rec.native \in NativesOf(F) \cup {None}
  BY <1>1, <1>2, NativesAppend DEF KeptInv, Sound
<1>4. ASSUME ~forked, ~missed
      PROVE  /\ under \subseteq {LastConfig(F)} /\ Shape(F)
             /\ LastConfig(memory) = None \/ LastConfig(F) = LastConfig(memory)
  <2>1. /\ memory = file /\ Fits(file, work.rec)
        /\ work.rec.kind = "config" => LastConfig(memory) = None /\ known = None
    BY <1>4, WireFits
  <2>2. Shape(F)
    BY <1>1, <1>2, <1>4, <2>1, ShapeKept DEF KeptInv, Sound
  <2>3. LastConfig(F) = IF work.rec.kind = "config" THEN work.rec.config ELSE LastConfig(file)
    BY <1>1, LastConfigAppend
  <2>4. CASE work.rec.kind = "config"
    <3>1. under = {}
      BY <1>1, <1>2, <1>4, <2>1, <2>4 DEF HeldInv
    <3> QED
      BY <2>1, <2>2, <2>4, <3>1
  <2>5. CASE work.rec.kind # "config"
    BY <1>2, <1>4, <2>1, <2>2, <2>3, <2>5 DEF KeptInv, Sound
  <2> QED
    BY <2>4, <2>5
<1> QED
  BY <1>3, <1>4

\* A step that changes no history, and what such a step may do to an append in flight.
StillWire ==
  wire' # "stored" \/ (UNCHANGED <<wire, missed>> /\ work'.rec = work.rec)

Still ==
  /\ UNCHANGED <<file, memory, forked, told, under>>
  /\ StillWire

\* The view of the conversation, as it is and with the turn that leaves.
SameView ==
  /\ UNCHANGED <<conv, known, order, aligned>>
  /\ UNCHANGED <<established, used, missed>>
  /\ \/ work' = work
     \/ work.at # "leaving" /\ work'.at # "leaving"
     \/ work.at # "leaving" /\ work'.rec = NoRecord

LEMMA KeptStill == Consistent /\ Still => KeptInv'
<1> SUFFICES ASSUME Consistent, Still PROVE KeptInv'
  OBVIOUS
<1>1. KeptInv
  BY DEF Consistent, KnowsInv
<1>2. UNCHANGED <<file, memory, forked, told, under>>
  BY DEF Still
<1>3. Sound(file)' /\ Sound(memory)'
  BY <1>1, <1>2 DEF KeptInv, Sound
<1>4. /\ (\A a, b \in told : a = b)'
      /\ (forked \/ LastConfig(memory) = None \/ LastConfig(file) = LastConfig(memory))'
  BY <1>1, <1>2 DEF KeptInv
<1>5. wire' = "stored" => /\ work'.rec.native \in NativesOf(file') \cup {None}
                          /\ forked' \/ ~missed'
  BY <1>1, <1>2 DEF KeptInv, Still, StillWire
<1> QED
  BY <1>3, <1>4, <1>5 DEF KeptInv

\* A step by which the open conversation neither reads, writes nor learns.
LEMMA QuietKnows ==
  ASSUME Consistent, Still, SameView,
         wire' = wire \/ (wire = "none" /\ wire' = "sent")
  PROVE  KnowsInv'
<1>1. /\ InSight /\ ViewInv /\ KeptInv /\ HeldInv
      /\ UNCHANGED <<file, memory, missed, forked, told, under>>
      /\ UNCHANGED <<conv, known, order, aligned, established, used>>
  BY DEF Consistent, KnowsInv, Still, SameView
<1>2. KeptInv'
  BY KeptStill
<1>3. InSight'
  BY <1>1 DEF InSight, Still, StillWire
<1>4. Established' = Established /\ (UsedSoFar' <=> UsedSoFar)
  BY <1>1, RecordsOf DEF SameView, Established, UsedSoFar
<1>5. HeldInv'
  BY <1>1, <1>4 DEF HeldInv, Working
<1>6. ViewInv'
  <2>1. Working' = Working
    BY <1>1 DEF Working
  <2>2. ASSUME Working, ~missed, NEW e \in Entries(memory)
        PROVE  e.order < order \/ (work'.at = "leaving" /\ work'.turn /\ e.order <= order)
    BY <1>1, <2>2 DEF ViewInv, SameView
  <2> QED
    BY <1>1, <1>4, <2>1, <2>2 DEF ViewInv
<1> QED
  BY <1>2, <1>3, <1>5, <1>6 DEF KnowsInv

LEMMA QuietActions ==
  ASSUME Consistent,
         \/ Bind \/ Take \/ RefuseTurn \/ AsideDone \/ UNCHANGED vars
         \/ \E c \in Caller : Call(c) \/ Answered(c) \/ Cancel(c) \/ Return(c)
         \/ \E g \in Config : SaveConfiguration(g)
         \/ \E m \in Native \cup {None}, u \in BOOLEAN : Ran(m, u)
  PROVE  KnowsInv'
<1>1. CASE UNCHANGED vars
  BY <1>1, QuietKnows DEF vars, history, view, ghosts, Still, StillWire, SameView
<1>2. ASSUME NEW c \in Caller, Call(c) \/ Answered(c) \/ Cancel(c) \/ Return(c) PROVE KnowsInv'
  BY <1>2, QuietKnows
     DEF Call, Answered, Cancel, Return, history, view, ghosts, Still, StillWire, SameView
<1>3. CASE Take
  <2>1. /\ UNCHANGED <<file, memory, conv, wire, missed, forked, told, under>>
        /\ UNCHANGED <<known, established, used, order, aligned>>
        /\ work.at = "idle" /\ work'.at # "leaving" /\ work'.rec = NoRecord
    BY <1>3 DEF Take, history, view, ghosts
  <2>2. wire = "none"
    BY <2>1 DEF Consistent, ElementInv, WorkShape
  <2> QED
    BY <2>1, <2>2, QuietKnows DEF Still, StillWire, SameView
<1>4. CASE RefuseTurn \/ AsideDone
  <2>1. /\ UNCHANGED <<file, memory, conv, wire, missed, forked, told, under>>
        /\ UNCHANGED <<known, established, used, order, aligned>>
        /\ work.at \in {"resolving", "settled", "aside"} /\ work'.rec = NoRecord
    BY <1>4 DEF RefuseTurn, AsideDone, At, history, view, ghosts
  <2>2. wire = "none"
    BY <2>1 DEF Consistent, ElementInv, WorkShape
  <2> QED
    BY <2>1, <2>2, QuietKnows DEF Still, StillWire, SameView
<1>5. ASSUME \/ Bind \/ \E g \in Config : SaveConfiguration(g)
             \/ \E m \in Native \cup {None}, u \in BOOLEAN : Ran(m, u)
      PROVE  KnowsInv'
  <2>1. /\ UNCHANGED <<file, memory, conv, missed, forked, told, under>>
        /\ UNCHANGED <<known, established, used, order, aligned>>
        /\ wire' = "sent" /\ work'.at \in {"binding", "saving", "writing"}
    <3>1. /\ UNCHANGED <<file, memory, conv, missed, forked, told, under>>
          /\ UNCHANGED <<known, established, used, order, aligned>>
      BY <1>5 DEF Bind, SaveConfiguration, Ran, history, view, ghosts
    <3>2. \E step \in {"binding", "saving", "writing"} : \E rec : Send(step, rec)
      BY <1>5 DEF Bind, SaveConfiguration, Ran
    <3> QED
      BY <3>1, <3>2 DEF Send, At
  <2>2. wire = "none" /\ work.at # "leaving"
    <3>1. CASE Bind
      BY <3>1 DEF Bind, Consistent, ElementInv, LifeShape
    <3>2. CASE ~Bind
      <4>1. work.at \in {"resolving", "settled"}
        BY <1>5, <3>2 DEF SaveConfiguration, Ran
      <4> QED
        BY <4>1 DEF Consistent, ElementInv, WorkShape
    <3> QED
      BY <3>1, <3>2
  <2> QED
    BY <2>1, <2>2, QuietKnows DEF Still, StillWire, SameView
<1> QED
  BY <1>1, <1>2, <1>3, <1>4, <1>5

\* The file takes what it was given.
LEMMA StoreKnows == Consistent /\ Store => KnowsInv'
<1> SUFFICES ASSUME Consistent, Store PROVE KnowsInv'
  OBVIOUS
<1> DEFINE F == Append(file, work.rec)
<1>1. /\ wire = "sent" /\ wire' = "stored" /\ file' = F /\ forked' = (forked \/ missed)
      /\ UNCHANGED <<memory, conv, known, established, used, order, aligned, work>>
      /\ UNCHANGED <<missed, told, under>>
  BY DEF Store, view
<1>2. InSight /\ ViewInv /\ KeptInv /\ HeldInv
  BY DEF Consistent, KnowsInv
<1>3. /\ told \subseteq NativesOf(F)
      /\ work.rec.native \in NativesOf(F) \cup {None}
      /\ \/ forked \/ missed
         \/ /\ under \subseteq {LastConfig(F)} /\ Shape(F)
            /\ LastConfig(memory) = None \/ LastConfig(F) = LastConfig(memory)
  BY <1>1, Landing
<1>4. ~missed => memory = file
  BY <1>1, ConsistentTyped
<1> HIDE DEF F
<1>5. InSight'
  BY <1>1, <1>4 DEF InSight, F
<1>6. ViewInv'
  BY <1>1, <1>2 DEF ViewInv, Working, Established, UsedSoFar, Entries, UsedIn, NativesOf
<1>7. HeldInv'
  BY <1>1, <1>2 DEF HeldInv, Working, Established, Openable, Of, NativesOf
<1>8. Sound(file)' /\ Sound(memory)'
  <2>1. told' \subseteq NativesOf(file') /\ told' \subseteq NativesOf(memory')
    BY <1>1, <1>2, <1>3 DEF KeptInv, Sound
  <2>2. forked' \/ (under' \subseteq {LastConfig(file')} /\ Shape(file'))
    BY <1>1, <1>3
  <2>3. forked' \/ (under' \subseteq {LastConfig(memory')} /\ Shape(memory'))
    BY <1>1, <1>2 DEF KeptInv, Sound
  <2> QED
    BY <2>1, <2>2, <2>3 DEF Sound
<1>9. KeptInv'
  BY <1>1, <1>2, <1>3, <1>8 DEF KeptInv
<1> QED
  BY <1>5, <1>6, <1>7, <1>9 DEF KnowsInv

\* What the record that was in flight adds to the writer's memory.
CaughtUp ==
  /\ memory' = Append(memory, work.rec) /\ file' = file
  /\ wire = "stored" /\ wire' = "none" /\ missed' = missed /\ forked' = forked
  /\ Working /\ work.rec \in Record /\ memory \in Seq(Record)
  /\ ~missed => memory' = file
  /\ forked \/ ~missed
  /\ told \subseteq NativesOf(file) /\ told \subseteq NativesOf(memory')
  /\ NativesOf(memory') = NativesOf(memory) \cup ({work.rec.native} \ {None})
  /\ work.rec.native \in NativesOf(file) \cup {None}
  /\ UsedIn(memory') <=> UsedIn(memory) \/ work.rec.used
  /\ LastConfig(memory') =
       IF work.rec.kind = "config" THEN work.rec.config ELSE LastConfig(memory)
  /\ Entries(memory') = Entries(memory) \cup {work.rec}
  /\ forked \/ (Shape(file) /\ memory' = file)

\* The caller of the append goes on: the writer's memory catches up with the file.
LEMMA CatchUp == ASSUME Consistent, Acknowledged PROVE CaughtUp
<1>1. /\ memory' = Append(memory, work.rec) /\ file' = file
      /\ wire = "stored" /\ wire' = "none" /\ missed' = missed /\ forked' = forked
  BY DEF Acknowledged
<1>2. Working /\ work.rec \in Record /\ memory \in Seq(Record)
      /\ (~missed => file = Append(memory, work.rec))
  BY <1>1, ConsistentTyped
<1>3. KeptInv
  BY DEF Consistent, KnowsInv
<1>4. NativesOf(memory') = NativesOf(memory) \cup ({work.rec.native} \ {None})
  BY <1>1, <1>2, NativesAppend
<1>5. UsedIn(memory') <=> UsedIn(memory) \/ work.rec.used
  BY <1>1, <1>2, UsedAppend
<1>6. LastConfig(memory') =
        IF work.rec.kind = "config" THEN work.rec.config ELSE LastConfig(memory)
  BY <1>1, <1>2, LastConfigAppend
<1>7. Entries(memory') = Entries(memory) \cup {work.rec}
  BY <1>1, <1>2, EntriesAppend
<1>8. /\ ~missed => memory' = file
      /\ forked \/ ~missed
      /\ told \subseteq NativesOf(file) /\ told \subseteq NativesOf(memory)
      /\ work.rec.native \in NativesOf(file) \cup {None}
      /\ forked \/ Shape(file)
  BY <1>1, <1>2, <1>3 DEF KeptInv, Sound
<1> QED
  BY <1>1, <1>2, <1>4, <1>5, <1>6, <1>7, <1>8 DEF CaughtUp

LEMMA BoundKnows == Consistent /\ Bound => KnowsInv'
<1> SUFFICES ASSUME Consistent, Bound PROVE KnowsInv'
  OBVIOUS
<1> USE DEF CaughtUp
<1>1. /\ Acknowledged /\ work.at = "binding" /\ work'.at = "idle" /\ conv' = "serving" /\ aligned' = TRUE
      /\ UNCHANGED <<known, established, used, order, told, under>>
  BY DEF Bound, Idle
<1>2. CaughtUp
  BY <1>1, CatchUp
<1>3. work.rec.kind = "identity" /\ work.rec.native = None /\ ~work.rec.used /\ work.rec.order = 0
  BY <1>1, RecordsOf, RecordFields DEF Consistent, ElementInv, WorkShape
<1>4. /\ ViewInv /\ KeptInv /\ HeldInv /\ order \in Nat \ {0}
  BY DEF Consistent, KnowsInv, ElementInv, OrderFits
<1>5. InSight'
  BY <1>1, <1>2 DEF InSight
<1>6. Established' = Established /\ (UsedSoFar' <=> UsedSoFar)
  BY <1>1 DEF Established, UsedSoFar
<1>7. ViewInv'
  <2>1. ASSUME ~missed, NEW e \in Entries(memory') PROVE e.order < order
    BY <1>1, <1>2, <1>3, <1>4, <2>1 DEF ViewInv
  <2> QED
    BY <1>1, <1>2, <1>3, <1>4, <1>6, <2>1 DEF ViewInv
<1>8. HeldInv'
  BY <1>1, <1>2, <1>3, <1>4, <1>6 DEF HeldInv
<1>9. KeptInv'
  BY <1>1, <1>2, <1>3, <1>4 DEF KeptInv, Sound
<1> QED
  BY <1>5, <1>7, <1>8, <1>9 DEF KnowsInv

\* The first activation: what the history now says is what the provider stated.
LEMMA SavedKnows == Consistent /\ Saved => KnowsInv'
<1> SUFFICES ASSUME Consistent, Saved PROVE KnowsInv'
  OBVIOUS
<1> USE DEF CaughtUp
<1>1. /\ Acknowledged /\ work.at = "saving" /\ work'.at = "settled"
      /\ known' = work.rec.config /\ under' = under \cup {work.rec.config}
      /\ UNCHANGED <<conv, aligned, established, used, order, told>>
  BY DEF Saved, At
<1>2. CaughtUp
  BY <1>1, CatchUp
<1>3. work.rec.kind = "config" /\ work.rec.native = None /\ ~work.rec.used /\ work.rec.order = 0
      /\ known = None
  BY <1>1, <1>2, RecordsOf, RecordFields DEF Consistent, ElementInv, WorkShape
<1>4. /\ ViewInv /\ KeptInv /\ HeldInv /\ order \in Nat \ {0} /\ conv # "refused"
      /\ under \subseteq Config /\ None \notin Config
  BY <1>2, ConsistentTyped DEF Consistent, KnowsInv, ElementInv, OrderFits, Working
<1>5. InSight'
  BY <1>1, <1>2 DEF InSight
<1>6. Established' = Established /\ (UsedSoFar' <=> UsedSoFar) /\ Working' = Working
  BY <1>1 DEF Established, UsedSoFar, Working
<1>7. ViewInv'
  <2>1. ASSUME ~missed, NEW e \in Entries(memory') PROVE e.order < order
    BY <1>1, <1>2, <1>3, <1>4, <2>1 DEF ViewInv
  <2> QED
    BY <1>1, <1>2, <1>3, <1>4, <1>6, <2>1 DEF ViewInv
<1>8. forked \/ under' = {LastConfig(memory')}
  BY <1>1, <1>2, <1>3, <1>4 DEF HeldInv
<1>9. HeldInv'
  BY <1>1, <1>2, <1>3, <1>4, <1>6, <1>8 DEF HeldInv
<1>10. KeptInv'
  BY <1>1, <1>2, <1>3, <1>4, <1>8 DEF KeptInv, Sound
<1> QED
  BY <1>5, <1>7, <1>9, <1>10 DEF KnowsInv

\* The caller is told its turn's own outcome when it ran where the others ran.
LEMMA RecordedKnows == Consistent /\ Recorded => KnowsInv'
<1> SUFFICES ASSUME Consistent, Recorded PROVE KnowsInv'
  OBVIOUS
<1> USE DEF CaughtUp
<1>1. /\ Acknowledged /\ work.at = "writing"
      /\ work'.at = "leaving" /\ work'.rec = work.rec /\ work'.turn = work.turn
      /\ UNCHANGED <<conv, known, aligned, established, used, order, under>>
      /\ told' = IF established \in {None, work.rec.native}
                 THEN told \cup ({work.rec.native} \ {None}) ELSE told
  BY DEF Recorded, At, view
<1>2. CaughtUp
  BY <1>1, CatchUp
<1>3. work.rec.kind = "turn" /\ work.rec.order = order /\ work.turn
  BY <1>1 DEF Consistent, ElementInv, WorkShape, Reports
<1>4. /\ ViewInv /\ KeptInv /\ HeldInv /\ order \in Nat \ {0} /\ conv # "refused"
      /\ told \subseteq Native /\ None \notin Native
  BY <1>2, ConsistentTyped DEF Consistent, KnowsInv, ElementInv, OrderFits, Working
<1>5. InSight'
  BY <1>1, <1>2 DEF InSight
<1>6. /\ Established = established /\ (UsedSoFar <=> used)
      /\ Established' = IF established = None THEN work.rec.native ELSE established
      /\ UsedSoFar' <=> used \/ work.rec.used
      /\ Working' = Working
  BY <1>1 DEF Established, UsedSoFar, Working
<1>7. ViewInv'
  <2>1. ASSUME ~missed, NEW e \in Entries(memory')
        PROVE  e.order < order \/ (work'.at = "leaving" /\ work'.turn /\ e.order <= order)
    <3>1. CASE e = work.rec
      BY <1>1, <1>3, <1>4, <3>1
    <3>2. CASE e \in Entries(memory)
      BY <1>1, <1>2, <1>4, <2>1, <3>2 DEF ViewInv
    <3> QED
      BY <1>2, <3>1, <3>2
  <2>2. ~missed => IF NativesOf(memory') = {} THEN Established' = None
                   ELSE Established' \in NativesOf(memory')
    BY <1>2, <1>4, <1>6 DEF ViewInv
  <2>3. ~missed => known = LastConfig(memory') /\ (UsedSoFar' <=> UsedIn(memory'))
    BY <1>2, <1>3, <1>4, <1>6 DEF ViewInv
  <2> QED
    BY <1>1, <1>2, <2>1, <2>2, <2>3 DEF ViewInv
<1>8. /\ told' \subseteq {Established'}
      /\ \A a, b \in told' : a = b
      /\ told' \subseteq NativesOf(file) /\ told' \subseteq NativesOf(memory')
  BY <1>1, <1>2, <1>4, <1>6 DEF HeldInv
<1>9. HeldInv'
  BY <1>1, <1>2, <1>3, <1>4, <1>6, <1>8 DEF HeldInv
<1>10. KeptInv'
  BY <1>1, <1>2, <1>3, <1>4, <1>8 DEF KeptInv, Sound
<1> QED
  BY <1>5, <1>7, <1>9, <1>10 DEF KnowsInv

\* Every later activation compares.
LEMMA SameConfigurationKnows ==
  ASSUME Consistent, NEW g \in Config, SameConfiguration(g)
  PROVE  KnowsInv'
<1>1. /\ work.at = "resolving" /\ known = g /\ work'.at = "settled" /\ under' = under \cup {g}
      /\ UNCHANGED <<file, memory, conv, known, aligned, established, used, order>>
      /\ UNCHANGED <<wire, missed, forked, told>>
  BY DEF SameConfiguration, At, history, view, calls
<1>2. /\ InSight /\ ViewInv /\ KeptInv /\ HeldInv /\ conv # "refused"
      /\ wire = "none" /\ g # None
  BY <1>1, ConsistentTyped DEF Consistent, KnowsInv, ElementInv, WorkShape, LifeShape, ValuesTyped
<1>3. Working \/ conv = "releasing"
  BY <1>1 DEF Consistent, ElementInv, LifeShape, ValuesTyped, Working
<1>4. Working
  BY <1>1, <1>3 DEF Consistent, ElementInv, LifeShape
<1>5. forked \/ (under' = {g} /\ LastConfig(memory) = g /\ LastConfig(file) = g)
  BY <1>1, <1>2, <1>4 DEF HeldInv, KeptInv
<1>6. Established' = Established /\ (UsedSoFar' <=> UsedSoFar) /\ Working' = Working
  BY <1>1 DEF Established, UsedSoFar, Working
<1>7. InSight'
  BY <1>1, <1>2 DEF InSight
<1>8. ViewInv'
  <2>1. ASSUME ~missed, NEW e \in Entries(memory) PROVE e.order < order
    BY <1>1, <1>2, <1>4, <2>1 DEF ViewInv
  <2> QED
    BY <1>1, <1>2, <1>6, <2>1 DEF ViewInv
<1>9. HeldInv'
  BY <1>1, <1>2, <1>5, <1>6 DEF HeldInv
<1>10. KeptInv'
  BY <1>1, <1>2, <1>5 DEF KeptInv, Sound
<1> QED
  BY <1>7, <1>8, <1>9, <1>10 DEF KnowsInv

\* The job is let go of, and what the turn observed is noted.
LEMMA LeaveKnows == Consistent /\ (Leave \/ Unwound) => KnowsInv'
<1> SUFFICES ASSUME Consistent, Leave \/ Unwound PROVE KnowsInv'
  OBVIOUS
<1>1. /\ work.at \in {"leaving", "unwinding"} /\ work'.at = "idle"
      /\ order' = IF work.turn THEN order + 1 ELSE order
      /\ UNCHANGED <<file, memory, conv, known, aligned, wire, missed, forked, told, under>>
  BY DEF Leave, Unwound, Idle, history, ghosts
<1>2. /\ InSight /\ ViewInv /\ HeldInv /\ order \in Nat \ {0} /\ wire = "none"
      /\ memory \in Seq(Record)
  BY <1>1, ConsistentTyped DEF Consistent, KnowsInv, ElementInv, OrderFits, WorkShape
<1>3. KeptInv'
  BY <1>1, <1>2, KeptStill DEF Still, StillWire
<1>4. /\ Established' = Established /\ (UsedSoFar' <=> UsedSoFar) /\ Working' = Working
  <2>1. established' = Established /\ (used' <=> UsedSoFar)
    <3>1. CASE Leave
      BY <3>1 DEF Leave, Established, UsedSoFar
    <3>2. CASE Unwound
      BY <3>2 DEF Unwound, Established, UsedSoFar
    <3> QED
      BY <3>1, <3>2
  <2> QED
    BY <1>1, <2>1 DEF Established, UsedSoFar, Working
<1>5. InSight'
  BY <1>1, <1>2 DEF InSight
<1>6. ViewInv'
  <2>1. ASSUME Working, ~missed, NEW e \in Entries(memory) PROVE e.order < order'
    <3>1. e.order \in Nat
      BY <1>2, EntriesType, RecordFields, BoundsAreNat
    <3> QED
      BY <1>1, <1>2, <2>1, <3>1 DEF ViewInv
  <2> QED
    BY <1>1, <1>2, <1>4, <2>1 DEF ViewInv
<1>7. HeldInv'
  BY <1>1, <1>2, <1>4 DEF HeldInv
<1> QED
  BY <1>3, <1>5, <1>6, <1>7 DEF KnowsInv

\* A halted append: whatever landed or was remembered, the histories stay sound,
\* and a conversation that still misses nothing has written nothing.
LEMMA AbandonedKept ==
  ASSUME Consistent, Abandoned, told' = told, under' = under
  PROVE  /\ KeptInv' /\ wire' = "none" /\ (forked => forked')
         /\ ~missed' => ~missed /\ wire # "stored" /\ UNCHANGED <<file, memory>>
         /\ memory' = memory \/ (wire = "stored" /\ memory' = Append(memory, work.rec))
<1> DEFINE F == Append(file, work.rec)
           M == Append(memory, work.rec)
<1>1. /\ file \in Seq(Record) /\ memory \in Seq(Record) /\ work.rec \in Record
      /\ wire = "stored" /\ ~missed => file = M
      /\ wire \in {"none", "sent", "stored"}
  BY ConsistentTyped DEF Consistent, ElementInv, ValuesTyped
<1>2. KeptInv
  BY DEF Consistent, KnowsInv
<1>3. PICK landed \in {wire = "stored"} \cup {wire # "none"},
           kept \in {FALSE} \cup {wire = "stored"} :
        /\ wire' = "none"
        /\ file' = IF landed /\ wire = "sent" THEN F ELSE file
        /\ memory' = IF kept THEN M ELSE memory
        /\ missed' = (missed \/ landed)
        /\ forked' = (forked \/ (missed /\ landed))
  BY DEF Abandoned
<1>4. /\ told \subseteq NativesOf(M)
  BY <1>1, <1>2, NativesAppend DEF KeptInv, Sound
<1> HIDE DEF F, M
<1>5. CASE wire = "sent" /\ landed
  <2>1. /\ told \subseteq NativesOf(F)
        /\ \/ forked \/ missed
           \/ /\ under \subseteq {LastConfig(F)} /\ Shape(F)
              /\ LastConfig(memory) = None \/ LastConfig(F) = LastConfig(memory)
    BY <1>5, Landing DEF F
  <2>2. /\ file' = F /\ memory' = memory /\ missed' /\ (forked' <=> forked \/ missed) /\ wire' = "none"
    BY <1>3, <1>5
  <2>3. KeptInv'
    BY <1>2, <2>1, <2>2 DEF KeptInv, Sound
  <2> QED
    BY <2>2, <2>3
<1>6. CASE wire = "stored"
  <2>1. /\ file' = file /\ memory' \in {memory, M} /\ missed' /\ (forked' <=> forked \/ missed)
        /\ wire' = "none"
    BY <1>3, <1>6
  <2>2. forked' \/ memory' \in {memory, file}
    BY <1>1, <1>6, <2>1
  <2>3. Sound(file)' /\ Sound(memory)'
    BY <1>2, <1>4, <2>1, <2>2 DEF KeptInv, Sound
  <2>4. KeptInv'
    BY <1>2, <2>1, <2>2, <2>3 DEF KeptInv
  <2> QED
    BY <1>6, <2>1, <2>4 DEF M
<1>7. CASE wire # "stored" /\ ~landed
  <2>1. /\ file' = file /\ memory' = memory /\ (missed' <=> missed) /\ (forked' <=> forked)
        /\ wire' = "none"
    BY <1>3, <1>7
  <2>2. KeptInv'
    BY <1>2, <2>1 DEF KeptInv, Sound
  <2> QED
    BY <1>7, <2>1, <2>2
<1> QED
  BY <1>1, <1>3, <1>5, <1>6, <1>7

LEMMA HaltKnows == Consistent /\ Halt => KnowsInv'
<1> SUFFICES ASSUME Consistent, Halt PROVE KnowsInv'
  OBVIOUS
<1>1. /\ Abandoned /\ work.at \notin {"leaving", "unwinding"} /\ work'.at = "unwinding"
      /\ UNCHANGED <<conv, known, aligned, established, used, order, told, under>>
  BY DEF Halt, At, view
<1>2. /\ KeptInv' /\ wire' = "none" /\ (forked => forked')
      /\ ~missed' => ~missed /\ wire # "stored" /\ UNCHANGED <<file, memory>>
      /\ memory' = memory \/ (wire = "stored" /\ memory' = Append(memory, work.rec))
  BY <1>1, AbandonedKept
<1>3. /\ InSight /\ ViewInv /\ HeldInv /\ WorkShape /\ LifeShape
      /\ memory \in Seq(Record) /\ work.rec \in Record
  BY ConsistentTyped DEF Consistent, KnowsInv, ElementInv
<1>4. conv # "refused"
  BY <1>1, <1>3, CallerIsNot0 DEF Halt, LifeShape, Consistent, MailInv, CallsTyped, ElementHasCaller
<1>5. Established' = Established /\ (UsedSoFar' <=> UsedSoFar) /\ Working' = Working
  BY <1>1 DEF Established, UsedSoFar, Working
<1>6. known = None \/ LastConfig(memory') = LastConfig(memory)
  <2>1. CASE memory' = Append(memory, work.rec) /\ wire = "stored"
    <3>1. work.at = "saving" \/ work.rec.kind # "config"
      BY <1>3, <2>1, RecordsOf DEF WorkShape, Reports
    <3>2. LastConfig(memory') = IF work.rec.kind = "config" THEN work.rec.config
                                ELSE LastConfig(memory)
      BY <1>3, <2>1, LastConfigAppend
    <3> QED
      BY <1>3, <3>1, <3>2 DEF WorkShape
  <2> QED
    BY <1>2, <2>1
<1>7. InSight'
  BY <1>1, <1>2, <1>3 DEF InSight
<1>8. ViewInv'
  <2>1. ASSUME Working, ~missed', NEW e \in Entries(memory') PROVE e.order < order
    BY <1>1, <1>2, <1>3, <2>1 DEF ViewInv
  <2> QED
    BY <1>1, <1>2, <1>3, <1>5, <2>1 DEF ViewInv
<1>9. HeldInv'
  BY <1>1, <1>2, <1>3, <1>4, <1>5, <1>6 DEF HeldInv
<1> QED
  BY <1>2, <1>7, <1>8, <1>9 DEF KnowsInv

\* A conversation that has stopped serving holds its turns to nothing any more.
LEMMA DownKnows ==
  ASSUME KeptInv', conv' \notin {"opening", "serving", "refused"}, InSight'
  PROVE  KnowsInv'
  BY DEF KnowsInv, ViewInv, HeldInv, Working

LEMMA FailKnows == Consistent /\ (RunFails \/ Diverges \/ UnwindFails) => KnowsInv'
<1> SUFFICES ASSUME Consistent, RunFails \/ Diverges \/ UnwindFails PROVE KnowsInv'
  OBVIOUS
<1>1. conv = "serving" /\ conv' = "failing" /\ told' = told /\ under' = under
  BY DEF RunFails, Diverges, UnwindFails, Fails
<1>2. InSight /\ WorkShape
  BY DEF Consistent, KnowsInv, ElementInv
<1>3. CASE RunFails
  <2>1. Abandoned
    BY <1>3 DEF RunFails
  <2>2. KeptInv' /\ wire' = "none"
        /\ (~missed' => ~missed /\ wire # "stored" /\ UNCHANGED <<file, memory>>)
    BY <1>1, <2>1, AbandonedKept
  <2>3. InSight'
    BY <1>1, <1>2, <2>2 DEF InSight
  <2> QED
    BY <1>1, <2>2, <2>3, DownKnows
<1>4. CASE Diverges \/ UnwindFails
  <2>1. UNCHANGED <<file, memory, missed, forked, wire>>
        /\ work.at \in {"settled", "resolving", "unwinding"}
    BY <1>4 DEF Diverges, UnwindFails, history
  <2>2. wire = "none"
    BY <1>2, <2>1 DEF WorkShape
  <2>3. KeptInv'
    BY <1>1, <2>1, <2>2, KeptStill DEF Still, StillWire
  <2>4. InSight'
    BY <1>1, <1>2, <2>1, <2>2 DEF InSight
  <2> QED
    BY <1>1, <2>3, <2>4, DownKnows
<1> QED
  BY <1>3, <1>4

\* The root's terminal goes to the file and to the memory.
LEMMA ServeEndsKnows == Consistent /\ ServeEnds => KnowsInv'
<1> SUFFICES ASSUME Consistent, ServeEnds PROVE KnowsInv'
  OBVIOUS
<1>1. /\ conv = "failing" /\ conv' = "ended"
      /\ UNCHANGED <<work, wire, missed, told, under>>
  BY DEF ServeEnds
<1>2. PICK closes \in {FALSE} \cup {cause = "teardown" /\ aligned} :
        /\ file' = IF closes THEN Append(file, Close) ELSE file
        /\ memory' = IF closes THEN Append(memory, Close) ELSE memory
        /\ forked' = (forked \/ (closes /\ missed))
  BY DEF ServeEnds
<1>3. KeptInv /\ wire = "none" /\ file \in Seq(Record) /\ memory \in Seq(Record)
  BY <1>1, ConsistentTyped DEF Consistent, KnowsInv, Working
<1>4. ASSUME NEW h \in Seq(Record)
      PROVE  /\ NativesOf(Append(h, Close)) = NativesOf(h)
             /\ LastConfig(Append(h, Close)) = LastConfig(h)
             /\ Shape(Append(h, Close))
  <2>1. Close \in Record /\ Close.kind = "close" /\ Close.native = None
    BY RecordsOf, RecordFields
  <2> QED
    BY <2>1, NativesAppend, LastConfigAppend, EndedForGood DEF Shape, NativesOf
<1>5. KeptInv'
  <2>1. CASE closes
    <3>1. file' = Append(file, Close) /\ memory' = Append(memory, Close) /\ (forked => forked')
      BY <1>2, <2>1
    <3>2. /\ NativesOf(file') = NativesOf(file) /\ NativesOf(memory') = NativesOf(memory)
          /\ LastConfig(file') = LastConfig(file) /\ LastConfig(memory') = LastConfig(memory)
          /\ Shape(file') /\ Shape(memory')
      BY <1>3, <1>4, <3>1
    <3> QED
      BY <1>1, <1>3, <3>1, <3>2 DEF KeptInv, Sound
  <2>2. CASE ~closes
    <3>1. UNCHANGED <<file, memory>> /\ (forked => forked')
      BY <1>2, <2>2
    <3> QED
      BY <1>1, <1>3, <3>1 DEF KeptInv, Sound
  <2> QED
    BY <2>1, <2>2
<1>6. InSight'
  BY <1>1 DEF InSight
<1> QED
  BY <1>1, <1>5, <1>6, DownKnows

LEMMA ReleaseKnows == Consistent /\ (Release \/ Closed) => KnowsInv'
<1> SUFFICES ASSUME Consistent PROVE (Release \/ Closed) => KnowsInv'
  OBVIOUS
<1>1. WorkShape
  BY DEF Consistent, ElementInv
<1>2. CASE Release
  <2>1. conv' = "releasing" /\ told' = told /\ under' = under
    BY <1>2 DEF Release
  <2>2. InSight'
    BY <2>1 DEF InSight
  <2>3. CASE work.at \in {"idle", "leaving", "unwinding"}
    <3>1. UNCHANGED <<file, memory, work, wire, missed, forked>>
      BY <1>2, <2>3 DEF Release, history
    <3>2. KeptInv'
      BY <2>1, <3>1, KeptStill DEF Still, StillWire
    <3> QED
      BY <2>1, <2>2, <3>2, DownKnows
  <2>4. CASE work.at \notin {"idle", "leaving", "unwinding"}
    <3>1. Abandoned
      BY <1>2, <2>4 DEF Release
    <3>2. KeptInv'
      BY <2>1, <3>1, AbandonedKept
    <3> QED
      BY <2>1, <2>2, <3>2, DownKnows
  <2> QED
    BY <2>3, <2>4
<1>3. CASE Closed
  <2>1. /\ conv' = "down" /\ work.at = "idle"
        /\ UNCHANGED <<file, memory, work, wire, forked, told, under>>
    BY <1>3 DEF Closed, history
  <2>2. wire = "none"
    BY <1>1, <2>1 DEF WorkShape
  <2>3. KeptInv'
    BY <2>1, <2>2, KeptStill DEF Still, StillWire
  <2>4. InSight'
    BY <2>1 DEF InSight
  <2> QED
    BY <2>1, <2>3, <2>4, DownKnows
<1> QED
  BY <1>2, <1>3

\* The process dies, with or without the record on its way, and the next one has
\* the file for its memory.
LEMMA CrashKnows == Consistent /\ Crash => KnowsInv'
<1> SUFFICES ASSUME Consistent, Crash PROVE KnowsInv'
  OBVIOUS
<1> DEFINE F == Append(file, work.rec)
<1>1. /\ conv' = "down" /\ memory' = file' /\ wire' = "none" /\ told' = told /\ under' = under
  BY DEF Crash
<1>2. PICK landed \in {FALSE} \cup {wire = "sent"} :
        /\ file' = IF landed THEN F ELSE file
        /\ forked' = (forked \/ (missed /\ landed))
  BY DEF Crash
<1>3. KeptInv
  BY DEF Consistent, KnowsInv
<1>4. KeptInv'
  <2>1. CASE landed
    <3>1. /\ told \subseteq NativesOf(F)
          /\ forked \/ missed \/ (under \subseteq {LastConfig(F)} /\ Shape(F))
      BY <1>2, <2>1, Landing
    <3>2. file' = F /\ (forked' <=> forked \/ missed)
      BY <1>2, <2>1
    <3> HIDE DEF F
    <3> QED
      BY <1>1, <1>3, <3>1, <3>2 DEF KeptInv, Sound
  <2>2. CASE ~landed
    <3>1. file' = file /\ (forked' <=> forked)
      BY <1>2, <2>2
    <3> QED
      BY <1>1, <1>3, <3>1 DEF KeptInv, Sound
  <2> QED
    BY <2>1, <2>2
<1>5. InSight'
  BY <1>1 DEF InSight
<1> QED
  BY <1>1, <1>4, <1>5, DownKnows

LEMMA AtMostOne ==
  ASSUME NEW S, IsFiniteSet(S), Cardinality(S) <= 1, NEW a \in S, NEW b \in S
  PROVE  a = b
<1> SUFFICES ASSUME a # b PROVE FALSE
  OBVIOUS
<1>1. IsFiniteSet({a}) /\ Cardinality({a}) = 1
  BY FS_Singleton
<1>2. IsFiniteSet({a} \cup {b}) /\ Cardinality({a} \cup {b}) = 1 + 1
  <2>1. b \notin {a}
    OBVIOUS
  <2>2. Cardinality({a} \cup {b}) = IF b \in {a} THEN Cardinality({a}) ELSE Cardinality({a}) + 1
    BY <1>1, FS_AddElement
  <2>3. IsFiniteSet({a} \cup {b})
    BY <1>1, FS_AddElement
  <2> QED
    BY <1>1, <2>1, <2>2, <2>3
<1>3. {a} \cup {b} \subseteq S
  OBVIOUS
<1>4. Cardinality({a} \cup {b}) <= Cardinality(S)
  BY <1>3, FS_Subset
<1>5. Cardinality(S) \in Nat
  BY FS_CardinalityType
<1> QED
  BY <1>2, <1>4, <1>5

LEMMA AtMostOneOf ==
  ASSUME NEW S, \A a, b \in S : a = b
  PROVE  Cardinality(S) <= 1
<1>1. CASE S = {}
  BY <1>1, FS_EmptySet
<1>2. CASE S # {}
  <2>1. PICK a \in S : TRUE
    BY <1>2
  <2>2. S = {a}
    BY <2>1
  <2> QED
    BY <2>2, FS_Singleton
<1> QED
  BY <1>1, <1>2

\* A history that opens names one native conversation at most.
LEMMA OneNative ==
  ASSUME NEW h \in Seq(Record), Openable(h), NEW a \in NativesOf(h), NEW b \in NativesOf(h)
  PROVE  a = b
<1>1. IsFiniteSet(Native)
  BY FS_Interval, BoundsAreNat DEF Native
<1>2. IsFiniteSet(NativesOf(h))
  BY <1>1, NativesType, FS_Subset
<1> QED
  BY <1>2, AtMostOne DEF Openable

LEMMA OpenKnows == Consistent /\ Open => KnowsInv'
<1> SUFFICES ASSUME Consistent, Open PROVE KnowsInv'
  OBVIOUS
<1>1. /\ conv = "down" /\ conv' \in {"opening", "refused"}
      /\ UNCHANGED <<file, memory, work, wire, forked, told, under>>
  BY DEF Open, history
<1>2. work.at = "idle" /\ wire = "none" /\ memory \in Seq(Record) /\ KeptInv
  BY <1>1, ConsistentTyped DEF Consistent, ElementInv, WorkShape, LifeShape, KnowsInv
<1>3. KeptInv'
  BY <1>1, <1>2, KeptStill DEF Still, StillWire
<1>4. CASE conv' = "refused"
  <2>1. ~Openable(memory)
    BY <1>4 DEF Open
  <2>2. InSight' /\ ViewInv' /\ HeldInv'
    BY <1>1, <1>4, <2>1 DEF InSight, ViewInv, HeldInv, Working
  <2> QED
    BY <1>3, <2>2 DEF KnowsInv
<1>5. CASE conv' = "opening"
  <2>1. /\ Openable(memory)
        /\ known' = LastConfig(memory) /\ order' = NextOrder(memory)
        /\ missed' = (memory # file) /\ used' = UsedIn(memory)
        /\ established' = IF NativesOf(memory) = {} THEN None
                          ELSE CHOOSE m \in NativesOf(memory) : TRUE
    BY <1>5 DEF Open
  <2>2. InSight'
    BY <1>1, <1>2, <2>1 DEF InSight
  <2>3. Established' = established' /\ (UsedSoFar' <=> used')
    BY <1>1, <1>2 DEF Established, UsedSoFar
  <2>4. IF NativesOf(memory) = {} THEN Established' = None ELSE Established' \in NativesOf(memory)
    BY <2>1, <2>3
  <2>5. \A e \in Entries(memory) : e.order < order'
    BY <1>2, <2>1, NextOrderIs
  <2>6. ViewInv'
    BY <1>1, <2>1, <2>3, <2>4, <2>5 DEF ViewInv
  <2>7. told \subseteq {Established'}
    <3>1. told \subseteq NativesOf(memory)
      BY <1>2 DEF KeptInv, Sound
    <3> QED
      BY <1>2, <2>1, <2>4, <3>1, OneNative
  <2>8. HeldInv'
    BY <1>1, <1>2, <1>5, <2>1, <2>7 DEF HeldInv, KeptInv, Sound
  <2> QED
    BY <1>3, <2>2, <2>6, <2>8 DEF KnowsInv
<1> QED
  BY <1>1, <1>4, <1>5

\* What an exact history is offered on opening is what it holds, so it replays.
LEMMA ReplayKnows == Consistent /\ Replay => KnowsInv'
<1> SUFFICES ASSUME Consistent, Replay PROVE KnowsInv'
  OBVIOUS
<1>1. /\ conv = "opening" /\ memory # <<>> /\ wire = "none"
      /\ conv' = IF Replays(memory) THEN "serving" ELSE "refused"
      /\ aligned' = (Len(memory) = Len(Offered(memory)))
      /\ UNCHANGED <<file, memory, known, established, used, order, work, wire>>
      /\ UNCHANGED <<missed, forked, told, under>>
  BY DEF Replay, history, ghosts
<1>2. InSight /\ ViewInv /\ KeptInv /\ HeldInv /\ Openable(memory)
  BY <1>1 DEF Consistent, KnowsInv, ElementInv, LifeShape
<1>3. KeptInv'
  BY <1>1, KeptStill DEF Still, StillWire
<1>4. forked \/ (conv' = "serving" /\ aligned')
  <2>1. forked \/ Offered(memory) = memory
    BY <1>1, <1>2 DEF KeptInv, Sound, Shape, Exact, Ended, Openable
  <2>2. ASSUME Offered(memory) = memory PROVE Replays(memory)
    BY <2>2 DEF Replays, Same
  <2> QED
    BY <1>1, <2>1, <2>2
<1>5. Established' = Established /\ (UsedSoFar' <=> UsedSoFar)
  BY <1>1 DEF Established, UsedSoFar
<1>6. InSight'
  BY <1>1, <1>2 DEF InSight
<1>7. ViewInv'
  <2>1. Working' => Working
    BY <1>1 DEF Working
  <2> QED
    BY <1>1, <1>2, <1>5, <2>1 DEF ViewInv
<1>8. HeldInv'
  BY <1>1, <1>2, <1>4, <1>5 DEF HeldInv, Working
<1> QED
  BY <1>3, <1>6, <1>7, <1>8 DEF KnowsInv

LEMMA KnowsPreserved == Consistent /\ [Next]_vars => KnowsInv'
<1> SUFFICES ASSUME Consistent, [Next]_vars PROVE KnowsInv'
  OBVIOUS
<1>1. CASE OwnStep
  BY <1>1, StoreKnows, QuietActions, BoundKnows, ReplayKnows, SavedKnows, RecordedKnows,
     LeaveKnows, HaltKnows, FailKnows, ServeEndsKnows, ReleaseKnows
     DEF OwnStep
<1>2. CASE CallerStep
  BY <1>2, QuietActions DEF CallerStep
<1>3. CASE OthersStep
  BY <1>3, OpenKnows, ReleaseKnows, CrashKnows, QuietActions, SameConfigurationKnows, FailKnows
     DEF OthersStep
<1>4. CASE UNCHANGED vars
  BY <1>4, QuietActions
<1> QED
  BY <1>1, <1>2, <1>3, <1>4 DEF Next

\* The inductive invariant of the whole conversation.
THEOREM ConversationIsConsistent == Spec => []Consistent
<1>1. Init => Consistent
  BY MailInitially, ElementInitially, KnowsInitially DEF Consistent
<1>2. Consistent /\ [Next]_vars => Consistent'
  BY MailPreserved, ElementPreserved, KnowsPreserved DEF Consistent
<1> QED
  BY <1>1, <1>2, PTL DEF Spec

\* All the turns whose callers were given their own outcome ran in one native
\* conversation, and, unless the history forked, all the sessions a provider was
\* authorised to build were built under one configuration.
THEOREM ConversationIsOne == Spec => []OneContinuation
<1>1. ASSUME Consistent PROVE OneContinuation
  <2>1. KeptInv
    BY <1>1 DEF Consistent, KnowsInv
  <2>2. Cardinality(told) <= 1
    BY <2>1, AtMostOneOf DEF KeptInv
  <2>3. forked \/ Cardinality(under) <= 1
    <3>1. forked \/ \A a, b \in under : a = b
      BY <2>1 DEF KeptInv, Sound
    <3> QED
      BY <3>1, AtMostOneOf
  <2> QED
    BY <2>2, <2>3 DEF OneContinuation
<1> QED
  BY <1>1, ConversationIsConsistent, PTL

\* Between two jobs a conversation that missed nothing knows exactly what a
\* reopening would read out of the file.
THEOREM ConversationKnowsItsHistory == Spec => []ViewIsHistory
<1>1. ASSUME Consistent, conv = "serving", work.at = "idle", ~missed
      PROVE  /\ memory = file /\ known = LastConfig(file) /\ used = UsedIn(file)
             /\ IF NativesOf(file) = {} THEN established = None ELSE established \in NativesOf(file)
             /\ order >= NextOrder(file)
  <2>1. /\ InSight /\ ViewInv /\ wire = "none" /\ order \in Nat \ {0} /\ used \in BOOLEAN
        /\ file \in Seq(Record)
    BY <1>1, ConsistentTyped
       DEF Consistent, KnowsInv, ElementInv, WorkShape, OrderFits, ValuesTyped
  <2>2. memory = file /\ Working
    BY <1>1, <2>1 DEF InSight, Working
  <2>3. Established = established /\ (UsedSoFar <=> used)
    BY <1>1 DEF Established, UsedSoFar
  <2>4. \A e \in Entries(file) : e.order < order
    BY <1>1, <2>1, <2>2 DEF ViewInv
  <2>5. NextOrder(file) <= order /\ NextOrder(file) \in Nat
    BY <2>1, <2>4, NextOrderLeast, NextOrderIs, BoundsAreNat
  <2>6. used = UsedIn(file)
    <3>1. used <=> UsedIn(file)
      BY <1>1, <2>1, <2>2, <2>3 DEF ViewInv
    <3> QED
      BY <2>1, <3>1 DEF UsedIn
  <2> QED
    BY <1>1, <2>1, <2>2, <2>3, <2>5, <2>6 DEF ViewInv
<1>2. Consistent => ViewIsHistory
  BY <1>1 DEF ViewIsHistory
<1> QED
  BY <1>2, ConversationIsConsistent, PTL

\* A history on which nobody wrote past a record it missed reopens and replays
\* exactly, unless it ended or names two native conversations.
THEOREM ConversationReopens == Spec => []ReopensUnlessForked
<1>1. Consistent => ReopensUnlessForked
  BY DEF Consistent, KnowsInv, HeldInv, ReopensUnlessForked
<1> QED
  BY <1>1, ConversationIsConsistent, PTL
==============================================================================
