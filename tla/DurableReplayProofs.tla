------------------------- MODULE DurableReplayProofs -------------------------
(***************************************************************************)
(* Replay of the document that wrote the journal.  Where every run         *)
(* executes the same document, no replay diverges: only a child that is    *)
(* cancelled sooner than in the run before leaves history unreached.  And  *)
(* where no one halts the run itself, whatever is restored as cancelled    *)
(* waits beneath a combinator that will cancel it.                         *)
(***************************************************************************)
EXTENDS DurableJournalProofs, FiniteSetTheorems

------------------------------------------------------------------------------
(* Runs of one definition.  Where every run executes the same document,    *)
(* the journal tells how far each coroutine came: a call consumes one      *)
(* yield, an all reads the Closes of its children, and how a race fell     *)
(* makes no difference to a document that catches its error.               *)

OneDefinition  == \A d, e \in Definition : d = e
RacesAreCaught ==
  \A d \in Definition : \A c \in Coroutine : \A i \in DOMAIN d[c] :
    d[c][i].op = "race" => d[c][i].catches

Forking == {"all", "race"}
Written(c) == YieldsIn(journal, c)
ClosedAs(c, s) == \E i \in ClosesOf(c) : journal[i].status = s

\* The entries c consumes before its step i: one for each call.
CallsAt(c, i) == {j \in DOMAIN def[c] : j < i /\ def[c][j].op = "call"}
CallsBefore(c, i) == Cardinality(CallsAt(c, i))

\* The journal tells that c came past its step i.
Passed(c, i) ==
  /\ def[c][i].op # "throw"
  /\ def[c][i].op = "call" =>
       /\ CallsBefore(c, i) < Len(Written(c))
       /\ def[c][i].catches \/ Written(c)[CallsBefore(c, i) + 1].status = "ok"
  /\ def[c][i].op = "all" =>
       def[c][i].catches \/ \A k \in def[c][i].kids : ClosedAs(k, "ok")

PassedBefore(c, i) == \A j \in DOMAIN def[c] : j < i => Passed(c, j)

\* The n-th result of c is one a call of its definition asked for.
Told(c, n, e) ==
  \E i \in DOMAIN def[c] :
    /\ def[c][i].op = "call" /\ def[c][i].name = e.name
    /\ CallsBefore(c, i) + 1 = n /\ PassedBefore(c, i)

\* Every coroutine above d came to a combinator with d beneath it.
ForksAt(q, i, d) ==
  def[q][i].op \in Forking /\ \E k \in def[q][i].kids : d \in Subtree[k]
Reached(d) ==
  \A q \in Coroutine : d \in Subtree[q] \ {q} =>
    \E i \in DOMAIN def[q] : ForksAt(q, i, d) /\ PassedBefore(q, i)

YieldsAreTold ==
  \A c \in Coroutine : \A n \in 1 .. Len(Written(c)) : Told(c, n, Written(c)[n])
AllReached == \A d \in Coroutine : EventsOf(d) # {} => Reached(d)
JournalIsTold == YieldsAreTold /\ AllReached

------------------------------------------------------------------------------
(* Counting the calls of a definition.                                     *)

LEMMA CallsAreFinite ==
  ASSUME RunInv, NEW c \in Coroutine, NEW i
  PROVE  IsFiniteSet(CallsAt(c, i)) /\ CallsBefore(c, i) \in Nat
<1>1. DOMAIN def[c] = 1 .. Len(def[c]) /\ Len(def[c]) \in Nat
  BY Typed, LenProperties
<1>2. IsFiniteSet(DOMAIN def[c])
  BY <1>1, FS_Interval
<1>3. IsFiniteSet(CallsAt(c, i))
  BY <1>2, FS_Subset DEF CallsAt
<1> QED
  BY <1>3, FS_CardinalityType DEF CallsBefore

LEMMA CallsGrow ==
  ASSUME RunInv, NEW c \in Coroutine, NEW i \in Nat, NEW j \in Nat, i <= j
  PROVE  CallsBefore(c, i) <= CallsBefore(c, j)
<1>1. DOMAIN def[c] \subseteq Nat
  BY Typed, LenProperties
<1>2. CallsAt(c, i) \subseteq CallsAt(c, j)
  BY <1>1 DEF CallsAt
<1> QED
  BY <1>2, CallsAreFinite, FS_Subset DEF CallsBefore

LEMMA CallsNext ==
  ASSUME RunInv, NEW c \in Coroutine, NEW i \in DOMAIN def[c]
  PROVE  CallsBefore(c, i + 1) =
           IF def[c][i].op = "call" THEN CallsBefore(c, i) + 1 ELSE CallsBefore(c, i)
<1>1. DOMAIN def[c] \subseteq Nat
  BY Typed, LenProperties
<1>2. CASE def[c][i].op = "call"
  <2>1. CallsAt(c, i + 1) = CallsAt(c, i) \cup {i}
    BY <1>1, <1>2 DEF CallsAt
  <2>2. i \notin CallsAt(c, i)
    BY <1>1 DEF CallsAt
  <2>3. Cardinality(CallsAt(c, i) \cup {i}) = Cardinality(CallsAt(c, i)) + 1
    BY <2>2, CallsAreFinite, FS_AddElement
  <2> QED
    BY <1>2, <2>1, <2>3 DEF CallsBefore
<1>3. CASE def[c][i].op # "call"
  <2>1. CallsAt(c, i + 1) = CallsAt(c, i)
    BY <1>1, <1>3 DEF CallsAt
  <2> QED
    BY <1>3, <2>1 DEF CallsBefore
<1> QED
  BY <1>2, <1>3

\* A call is counted by every later step.
LEMMA CallsPast ==
  ASSUME RunInv, NEW c \in Coroutine, NEW i \in DOMAIN def[c], NEW j \in Nat,
         def[c][i].op = "call", i < j
  PROVE  CallsBefore(c, i) < CallsBefore(c, j)
<1>1. i \in Nat /\ i + 1 \in Nat /\ i + 1 <= j
  BY Typed, LenProperties
<1>2. CallsBefore(c, i + 1) = CallsBefore(c, i) + 1
  BY CallsNext
<1>3. CallsBefore(c, i + 1) <= CallsBefore(c, j)
  BY <1>1, CallsGrow
<1>4. CallsBefore(c, i) \in Nat /\ CallsBefore(c, j) \in Nat
  BY CallsAreFinite
<1> QED
  BY <1>2, <1>3, <1>4

------------------------------------------------------------------------------
(* What the journal tells it tells for good.                               *)

Grows == def' = def /\ (journal' = journal \/ \E c \in Coroutine : BackendStores(c))

LEMMA WrittenType ==
  ASSUME RunInv, NEW c \in Coroutine
  PROVE  Written(c) \in Seq(Event) /\ Len(Written(c)) \in Nat
  BY HistoryTyped, LenProperties DEF Written

LEMMA WrittenGrows ==
  ASSUME RunInv, OwnEvents, Grows, NEW c \in Coroutine
  PROVE  Written(c)' = Written(c) \/ \E e \in Event : Written(c)' = Append(Written(c), e)
<1>1. CASE journal' = journal
  BY <1>1 DEF Written, YieldsIn
<1>2. CASE \E d \in Coroutine : BackendStores(d)
  <2>1. PICK d \in Coroutine : BackendStores(d)
    BY <1>2
  <2>2. pending[d] \in Event
    BY <2>1, StoreFacts
  <2> QED
    BY <2>1, <2>2, JournalGrows DEF Written
<1> QED
  BY <1>1, <1>2 DEF Grows

LEMMA WrittenStays ==
  ASSUME RunInv, OwnEvents, Grows, NEW c \in Coroutine
  PROVE  /\ Len(Written(c)) <= Len(Written(c)')
         /\ \A n \in 1 .. Len(Written(c)) : Written(c)'[n] = Written(c)[n]
<1>1. Written(c) \in Seq(Event) /\ Len(Written(c)) \in Nat
  BY WrittenType
<1>2. CASE Written(c)' = Written(c)
  BY <1>1, <1>2
<1>3. CASE \E e \in Event : Written(c)' = Append(Written(c), e)
  BY <1>1, <1>3, AppendProperties
<1> QED
  BY <1>2, <1>3, WrittenGrows

LEMMA ClosedStays ==
  ASSUME RunInv, OwnEvents, Grows, NEW c \in Coroutine, NEW s, ClosedAs(c, s)
  PROVE  ClosedAs(c, s)'
<1>1. CASE journal' = journal
  BY <1>1 DEF ClosedAs, ClosesOf
<1>2. CASE \E d \in Coroutine : BackendStores(d)
  <2>1. PICK d \in Coroutine : BackendStores(d)
    BY <1>2
  <2> QED
    BY <2>1, StoreFacts DEF ClosedAs, ClosesOf
<1> QED
  BY <1>1, <1>2 DEF Grows

LEMMA PassedStays ==
  ASSUME RunInv, OwnEvents, Grows, NEW c \in Coroutine, NEW i \in DOMAIN def[c], Passed(c, i)
  PROVE  Passed(c, i)'
<1>1. def' = def /\ CallsBefore(c, i)' = CallsBefore(c, i) /\ CallsBefore(c, i) \in Nat
  BY CallsAreFinite DEF Grows, CallsBefore, CallsAt
<1>2. /\ Len(Written(c)) <= Len(Written(c)') /\ Len(Written(c)) \in Nat
      /\ \A n \in 1 .. Len(Written(c)) : Written(c)'[n] = Written(c)[n]
  BY WrittenType, WrittenStays
<1>3. Len(Written(c)') \in Nat
  BY WrittenType, WrittenGrows, AppendProperties
<1>4. \A k \in def[c][i].kids : ClosedAs(k, "ok") => ClosedAs(k, "ok")'
  BY KidsAreBeneath, ClosedStays
<1>5. ASSUME def[c][i].op = "call"
      PROVE  /\ CallsBefore(c, i) < Len(Written(c)')
             /\ def[c][i].catches \/ Written(c)'[CallsBefore(c, i) + 1].status = "ok"
  <2>1. /\ CallsBefore(c, i) < Len(Written(c))
        /\ def[c][i].catches \/ Written(c)[CallsBefore(c, i) + 1].status = "ok"
    BY <1>5 DEF Passed
  <2>2. CallsBefore(c, i) + 1 \in 1 .. Len(Written(c))
    BY <1>1, <1>2, <2>1
  <2> QED
    BY <1>1, <1>2, <1>3, <2>1, <2>2
<1> QED
  BY <1>1, <1>4, <1>5 DEF Passed

LEMMA PassedBeforeStays ==
  ASSUME RunInv, OwnEvents, Grows, NEW c \in Coroutine, NEW i, PassedBefore(c, i)
  PROVE  PassedBefore(c, i)'
  BY PassedStays DEF PassedBefore, Grows

LEMMA ToldStays ==
  ASSUME RunInv, OwnEvents, Grows, NEW c \in Coroutine, NEW n, NEW e, Told(c, n, e)
  PROVE  Told(c, n, e)'
<1>1. PICK i \in DOMAIN def[c] :
        /\ def[c][i].op = "call" /\ def[c][i].name = e.name
        /\ CallsBefore(c, i) + 1 = n /\ PassedBefore(c, i)
  BY DEF Told
<1>2. def' = def /\ CallsBefore(c, i)' = CallsBefore(c, i)
  BY DEF Grows, CallsBefore, CallsAt
<1>3. PassedBefore(c, i)'
  BY <1>1, PassedBeforeStays
<1> QED
  BY <1>1, <1>2, <1>3 DEF Told

LEMMA ReachedStays ==
  ASSUME RunInv, OwnEvents, Grows, NEW d \in Coroutine, Reached(d)
  PROVE  Reached(d)'
  BY PassedBeforeStays DEF Reached, ForksAt, Grows

------------------------------------------------------------------------------
(* Where a run stands in its definition, as long as it has not failed.     *)

Inside(c) == pc[c] \in {"ready", "join", "threw"} \/ Executes(c)

\* Why the step c stands at raised an error it does not catch.
ThrewAt(c) ==
  /\ HasStep(c) /\ ~At(c).catches /\ seen[c] = Known(c)
  /\ \/ /\ At(c).op = "call" /\ Len(seen[c]) = CallsBefore(c, pos[c]) + 1
        /\ seen[c][Len(seen[c])].status # "ok"
     \/ /\ At(c).op = "all" /\ Len(seen[c]) = CallsBefore(c, pos[c])
        /\ \E k \in At(c).kids : \E s \in Status \ {"ok"} : ClosedAs(k, s)

\* The journal tells of every step before the one c stands at, and c was given one
\* result for each call among them.
PlaceAt(c) ==
  Inside(c) =>
    /\ PassedBefore(c, pos[c])
    /\ Executes(c) => HasStep(c) /\ At(c).op = "call"
    /\ pc[c] \in Appending => pending[c].name = At(c).name
    /\ pc[c] = "join" => HasStep(c) /\ At(c).op \in Forking
    /\ pc[c] # "threw" => Len(seen[c]) = CallsBefore(c, pos[c])
    /\ pc[c] = "threw" => ThrewAt(c)
Places == (run = "up" /\ failure = "none") => \A c \in Coroutine : PlaceAt(c)

IdleAtStart ==
  run = "up" => \A c \in Coroutine : pc[c] = "idle" => pos[c] = 1 /\ seen[c] = <<>>

\* What a coroutine is about to store, the journal already tells of.
WriteIsTold(c) ==
  pc[c] = "write" =>
    /\ Reached(c)
    /\ pending[c].type = "yield" => Told(c, Len(Written(c)) + 1, pending[c])
WritesAreTold == run = "up" => \A c \in Coroutine : WriteIsTold(c)

\* The children of the steps a coroutine took have begun.
KidsBegan ==
  (run = "up" /\ failure = "none") =>
    \A c \in Coroutine : \A i \in DOMAIN def[c] :
      (def[c][i].op \in Forking /\ (i < pos[c] \/ (i = pos[c] /\ pc[c] \in {"join", "threw"})))
        => \A k \in def[c][i].kids : pc[k] # "idle"

\* A coroutine that came to its end, restored or not, left no history beneath it.
AlignedAt(d) == IF WasClosed(d) THEN d \in claimed ELSE cursors[d] >= Len(Yields(d))
Through(c) ==
  \/ pc[c] \in Appending /\ pending[c].type = "close"
  \/ c # Root /\ pc[c] \in {"ended", "parked"}
  \/ c # Root /\ pc[c] = "closing" /\ outcome[c] # "cancelled"
  \/ c = Root /\ pc[c] = "closing" /\ phase = "claimed"
EndedAligned ==
  (run = "up" /\ failure = "none") =>
    \A c \in Coroutine : Through(c) => \A d \in Subtree[c] : AlignedAt(d)

\* A child's Close is its outcome.
OutcomeAt(c) ==
  /\ (pc[c] \in Appending /\ pending[c].type = "close") => pending[c] = CloseOf(c, outcome[c])
  /\ pc[c] = "ended" => outcome[c] \in Status /\ ClosedAs(c, outcome[c])
  /\ pc[c] = "parked" => ClosedAs(c, "cancelled")
Outcomed == (run = "up" /\ failure = "none") => \A c \in Coroutine \ {Root} : OutcomeAt(c)

\* Who may be cancelled: a child somebody halts, and a root nobody stops but its owner.
Endings ==
  run = "up" =>
    /\ \A c \in Coroutine \ {Root} :
         pc[c] = "closing" /\ outcome[c] = "cancelled" => c \in halting
    /\ phase = "claimed" => MayStop
    /\ Root \in halting => MayHalt
    /\ pc[Root] = "closing" /\ ~MayHalt => phase = "claimed"

TellInv ==
  /\ JournalIsTold /\ WritesAreTold /\ Places /\ IdleAtStart /\ KidsBegan
  /\ EndedAligned /\ Outcomed /\ Endings

KnownInv == RunInv /\ ControlInv /\ LeafInv /\ ErrInv /\ HistoryInv

------------------------------------------------------------------------------
(* Replay agrees with the journal.                                         *)

\* What was given to the program is a prefix of what the journal holds.
LEMMA KnownIsWritten ==
  ASSUME KnownInv, run = "up", NEW c \in Coroutine
  PROVE  /\ Known(c) \in Seq(Event) /\ Len(Known(c)) \in Nat
         /\ Len(Known(c)) <= Len(Written(c))
         /\ \A n \in 1 .. Len(Known(c)) : Known(c)[n] = Written(c)[n]
         /\ HasEntry(c) => Len(Known(c)) = cursors[c] /\ Yields(c) = Written(c)
         /\ ~HasEntry(c) => Known(c) = Written(c)
<1>1. /\ RunInv /\ ReadsBeforeWriting(c) /\ disabled = {}
  BY DEF KnownInv, HistoryInv, HistoryAt, LeafInv, ReplayIsOn
<1>2. /\ Yields(c) \in Seq(Event) /\ Len(Yields(c)) \in Nat /\ cursors[c] \in Nat
      /\ Appended(c) \in Seq(Event) /\ Written(c) = Yields(c) \o Appended(c)
      /\ cursors[c] <= Len(Yields(c)) /\ Written(c) \in Seq(Event) /\ Len(Written(c)) \in Nat
  BY <1>1, HistoryTyped, Typed, WrittenType DEF ReadsBeforeWriting, Written
<1>3. CASE HasEntry(c)
  <2>1. Appended(c) = <<>>
    BY <1>1, <1>3 DEF ReadsBeforeWriting
  <2>2. Written(c) = Yields(c)
    BY <1>2, <2>1, WholeAndNone
  <2>3. \A n \in 1 .. cursors[c] : Yields(c)[n] \in Event
    BY <1>2, ElementOfSeq
  <2> DEFINE read == SubSeq(Yields(c), 1, cursors[c])
  <2>4. /\ read \in Seq(Event) /\ Len(read) = cursors[c]
        /\ \A n \in 1 .. cursors[c] : read[n] = Yields(c)[n]
    BY <1>2, <2>3, SubSeqProperties
  <2>5. Known(c) = read \o <<>>
    BY <2>1 DEF Known
  <2> HIDE DEF read
  <2>6. Known(c) = read
    BY <2>4, <2>5, WholeAndNone
  <2> QED
    BY <1>2, <1>3, <2>2, <2>4, <2>6
<1>4. CASE ~HasEntry(c)
  <2>1. cursors[c] = Len(Yields(c))
    BY <1>1, <1>2, <1>4 DEF HasEntry
  <2>2. SubSeq(Yields(c), 1, cursors[c]) = Yields(c)
    BY <1>2, <2>1, WholeAndNone
  <2>3. Known(c) = Written(c)
    BY <1>2, <2>2 DEF Known
  <2> QED
    BY <1>2, <1>4, <2>3
<1> QED
  BY <1>3, <1>4

\* A coroutine closes with one outcome.
LEMMA ClosedOnce ==
  ASSUME KnownInv, NEW c \in Coroutine, NEW s, NEW t, ClosedAs(c, s), ClosedAs(c, t)
  PROVE  s = t
<1>1. PICK i \in ClosesOf(c), j \in ClosesOf(c) : journal[i].status = s /\ journal[j].status = t
  BY DEF ClosedAs
<1>2. DOMAIN journal \subseteq Nat
  BY Typed, LenProperties DEF KnownInv
<1>3. i <= j /\ j <= i /\ i \in Nat /\ j \in Nat
  BY <1>1, <1>2 DEF KnownInv, ControlInv, ClosedIsFinal, ClosesOf
<1>4. i = j
  BY <1>3
<1> QED
  BY <1>1, <1>4

\* A coroutine that runs has not closed.
LEMMA RunningIsOpen ==
  ASSUME KnownInv, run = "up", NEW c \in Coroutine, pc[c] \in {"ready", "threw", "join", "live"}
  PROVE  ClosesOf(c) = {} /\ ~WasClosed(c)
<1>1. ClosesOf(c) = {}
  BY DEF KnownInv, ControlInv, ClosedAreSpent, SpentAt
<1>2. 1 .. indexed \subseteq DOMAIN journal
  BY Typed, LenProperties DEF KnownInv
<1> QED
  BY <1>1, <1>2 DEF WasClosed, RetainedCloses, ClosesOf

\* The step at which the body of c ended is one the journal does not get past.
LEMMA EndsWhereTold ==
  ASSUME KnownInv, run = "up", NEW c \in Coroutine, PlaceAt(c), BodyEnds(c),
         NEW i \in DOMAIN def[c], PassedBefore(c, i)
  PROVE  i <= pos[c]
<1>1. /\ pos[c] \in Nat /\ DOMAIN def[c] = 1 .. Len(def[c]) /\ Len(def[c]) \in Nat
      /\ pos[c] # 0 /\ RunInv
  BY Typed, LenProperties DEF KnownInv, RunInv, Busy, BusyAt
<1> SUFFICES ASSUME pos[c] < i PROVE FALSE
  BY <1>1
<1>2. HasStep(c) /\ pos[c] \in DOMAIN def[c]
  BY <1>1 DEF HasStep
<1>3. Passed(c, pos[c])
  BY <1>2 DEF PassedBefore
<1>4. CASE pc[c] = "ready"
  BY <1>2, <1>3, <1>4 DEF BodyEnds, Ready, Passed, At
<1>5. CASE pc[c] = "threw"
  <2>1. ThrewAt(c)
    BY <1>5 DEF PlaceAt, Inside
  <2>2. CASE At(c).op = "call"
    <3>1. /\ seen[c] = Known(c) /\ Len(seen[c]) = CallsBefore(c, pos[c]) + 1
          /\ seen[c][Len(seen[c])].status # "ok" /\ ~At(c).catches
      BY <2>1, <2>2 DEF ThrewAt
    <3>2. CallsBefore(c, pos[c]) \in Nat
      BY <1>1, CallsAreFinite
    <3>3. Len(seen[c]) \in 1 .. Len(Known(c))
      BY <3>1, <3>2
    <3>4. seen[c][Len(seen[c])] = Written(c)[CallsBefore(c, pos[c]) + 1]
      BY <3>1, <3>3, KnownIsWritten
    <3> QED
      BY <1>3, <2>2, <3>1, <3>4 DEF Passed, At
  <2>3. CASE At(c).op = "all"
    <3>1. PICK k \in At(c).kids, s \in Status \ {"ok"} : ClosedAs(k, s)
      BY <2>1, <2>3 DEF ThrewAt
    <3>2. ClosedAs(k, "ok") /\ k \in Coroutine
      BY <1>1, <1>2, <1>3, <2>1, <2>3, <3>1, KidsAreBeneath DEF Passed, At, ThrewAt
    <3> QED
      BY <3>1, <3>2, ClosedOnce
  <2> QED
    BY <2>1, <2>2, <2>3 DEF ThrewAt
<1> QED
  BY <1>4, <1>5 DEF BodyEnds, Ready

\* The next entry is the one the call at hand asks for, and a coroutine that runs has no
\* retained Close to run past.
LEMMA CallsAgree ==
  ASSUME KnownInv, JournalIsTold, NEW c \in Coroutine, Calls(c), PlaceAt(c), failure = "none"
  PROVE  ~Mismatch(c)
<1>1. /\ run = "up" /\ pc[c] = "ready" /\ RunInv /\ HistoryInv /\ pos[c] \in DOMAIN def[c]
      /\ At(c).op = "call" /\ Len(seen[c]) = CallsBefore(c, pos[c])
  BY AtAStep DEF Calls, Ready, Moves, KnownInv, PlaceAt, Inside
<1>2. CASE HasEntry(c)
  <2>1. /\ Len(seen[c]) = cursors[c] /\ cursors[c] \in Nat /\ cursors[c] < Len(Yields(c))
        /\ Entry(c) = Yields(c)[cursors[c] + 1]
    BY <1>1, <1>2, EntryIsNext DEF Entry
  <2>2. Yields(c) = Written(c) /\ Len(Yields(c)) \in Nat
    BY <1>1, <1>2, KnownIsWritten, HistoryTyped
  <2>3. cursors[c] + 1 \in 1 .. Len(Written(c))
    BY <2>1, <2>2
  <2>4. Told(c, cursors[c] + 1, Written(c)[cursors[c] + 1])
    BY <2>3 DEF JournalIsTold, YieldsAreTold
  <2>5. PICK i \in DOMAIN def[c] :
          /\ def[c][i].op = "call" /\ def[c][i].name = Entry(c).name
          /\ CallsBefore(c, i) + 1 = cursors[c] + 1
    BY <2>1, <2>2, <2>4 DEF Told
  <2>6. CallsBefore(c, i) \in Nat /\ CallsBefore(c, pos[c]) \in Nat
    BY <1>1, CallsAreFinite
  <2>7. CallsBefore(c, i) = CallsBefore(c, pos[c])
    BY <1>1, <2>1, <2>5, <2>6
  <2>8. i \in Nat /\ pos[c] \in Nat
    BY <1>1, Typed, LenProperties
  <2>9. ~(i < pos[c]) /\ ~(pos[c] < i)
    BY <1>1, <2>5, <2>6, <2>7, <2>8, CallsPast DEF At
  <2>10. i = pos[c]
    BY <2>8, <2>9
  <2> QED
    BY <1>2, <2>5, <2>10 DEF Mismatch, At
<1>3. CASE ~HasEntry(c)
  BY <1>1, <1>3, RunningIsOpen DEF Mismatch, HasClose
<1> QED
  BY <1>2, <1>3

\* The body of c ended with all its retained entries consumed.
LEMMA EndsHavingRead ==
  ASSUME KnownInv, JournalIsTold, run = "up", failure = "none",
         NEW c \in Coroutine, PlaceAt(c), BodyEnds(c)
  PROVE  AlignedAt(c)
<1>1. /\ pc[c] \in {"ready", "threw"} /\ RunInv /\ HistoryInv
  BY DEF BodyEnds, Ready, KnownInv
<1>2. ~WasClosed(c) /\ disabled = {}
  BY <1>1, RunningIsOpen DEF KnownInv, LeafInv, ReplayIsOn
<1>3. cursors[c] \in Nat /\ Len(Yields(c)) \in Nat
  BY <1>1, Typed, HistoryTyped
<1> SUFFICES ASSUME HasEntry(c) PROVE FALSE
  BY <1>2, <1>3 DEF AlignedAt, HasEntry
<1>4. Len(Known(c)) = cursors[c] /\ Yields(c) = Written(c)
  BY KnownIsWritten
<1>5. cursors[c] + 1 \in 1 .. Len(Written(c))
  BY <1>2, <1>3, <1>4 DEF HasEntry
<1>6. Told(c, cursors[c] + 1, Written(c)[cursors[c] + 1])
  BY <1>5 DEF JournalIsTold, YieldsAreTold
<1>7. PICK i \in DOMAIN def[c] :
        /\ def[c][i].op = "call" /\ CallsBefore(c, i) + 1 = cursors[c] + 1
        /\ PassedBefore(c, i)
  BY <1>6 DEF Told
<1>8. /\ i \in Nat /\ pos[c] \in Nat /\ i <= pos[c]
      /\ CallsBefore(c, i) \in Nat /\ CallsBefore(c, pos[c]) \in Nat
      /\ DOMAIN def[c] = 1 .. Len(def[c]) /\ Len(def[c]) \in Nat
  BY <1>1, <1>7, EndsWhereTold, CallsAreFinite, Typed, LenProperties
<1>9. CallsBefore(c, i) = cursors[c]
  BY <1>3, <1>7, <1>8
<1>10. CASE pc[c] = "ready"
  <2>1. seen[c] = Known(c) /\ Len(seen[c]) = CallsBefore(c, pos[c])
    BY <1>1, <1>10 DEF PlaceAt, Inside, HistoryInv, HistoryAt, SeesWhatIsKnown, KnowsAll
  <2>2. ~(i < pos[c])
    BY <1>1, <1>4, <1>7, <1>8, <1>9, <2>1, CallsPast
  <2>3. i = pos[c]
    BY <1>8, <2>2
  <2>4. HasStep(c)
    BY <1>8, <2>3 DEF HasStep
  <2> QED
    BY <1>7, <1>10, <2>3, <2>4 DEF BodyEnds, Ready, At
<1>11. CASE pc[c] = "threw"
  <2>1. ThrewAt(c)
    BY <1>11 DEF PlaceAt, Inside
  <2>2. CallsBefore(c, i) <= CallsBefore(c, pos[c])
    BY <1>1, <1>8, CallsGrow
  <2>3. At(c).op = "all" /\ CallsBefore(c, i) = CallsBefore(c, pos[c])
    BY <1>4, <1>8, <1>9, <2>1, <2>2 DEF ThrewAt
  <2>4. ~(i < pos[c])
    BY <1>1, <1>7, <1>8, <2>3, CallsPast
  <2>5. i = pos[c]
    BY <1>8, <2>4
  <2> QED
    BY <1>7, <2>3, <2>5 DEF At
<1> QED
  BY <1>1, <1>10, <1>11

LEMMA NothingRetained ==
  ASSUME RunInv, NEW d \in Coroutine, \A j \in EventsOf(d) : j > indexed
  PROVE  ~WasClosed(d) /\ Yields(d) = <<>>
<1>1. /\ journal \in Seq(Event) /\ indexed \in Nat /\ indexed <= Len(journal)
      /\ Len(journal) \in Nat /\ DOMAIN journal = 1 .. Len(journal)
  BY Typed, LenProperties
<1>2. \A j \in 1 .. indexed : journal[j] \in Event /\ journal[j].co # d
  BY <1>1, ElementOfSeq DEF EventsOf
<1>3. ~WasClosed(d)
  BY <1>2 DEF WasClosed, RetainedCloses
<1> DEFINE Others == Event \ YieldEvents(d)
<1>4. \A j \in 1 .. indexed : journal[j] \in Others
  BY <1>2 DEF YieldEvents
<1>5. Retained \in Seq(Others)
  BY <1>1, <1>4, SubSeqProperties DEF Retained
<1>6. Yields(d) \in Seq(Others \cap YieldEvents(d))
  BY <1>5, PickedType DEF Yields, YieldsIn
<1>7. Others \cap YieldEvents(d) = {}
  OBVIOUS
<1>8. Yields(d) \in Seq({})
  BY <1>6, <1>7
<1> HIDE DEF Others
<1>9. /\ Len(Yields(d)) \in Nat /\ \A j \in 1 .. Len(Yields(d)) : Yields(d)[j] \in {}
      /\ Yields(d) \in Seq(Event)
  BY <1>1, <1>8, ElementOfSeq, LenProperties, HistoryTyped
<1>10. Len(Yields(d)) = 0
  <2>1. ~(1 \in 1 .. Len(Yields(d)))
    BY <1>9
  <2> QED
    BY <1>9, <2>1
<1> QED
  BY <1>3, <1>9, <1>10, EmptySeq

\* The body of c ended and everything the journal retains beneath it was reached.
LEMMA EndsAligned ==
  ASSUME KnownInv, JournalIsTold, KidsBegan, EndedAligned, run = "up", failure = "none",
         NEW c \in Coroutine, PlaceAt(c), BodyEnds(c)
  PROVE  ~Unaligned(c)
<1>1. pc[c] \in {"ready", "threw"} /\ RunInv /\ ControlInv
  BY DEF BodyEnds, Ready, KnownInv
<1> SUFFICES ASSUME NEW d \in Subtree[c] PROVE AlignedAt(d)
  <2>1. \A d \in Subtree[c] : d \in Coroutine
    BY TreeAssumption
  <2>2. \A d \in Coroutine : cursors[d] \in Nat /\ Len(Yields(d)) \in Nat
    BY <1>1, Typed, HistoryTyped
  <2> QED
    BY <2>1, <2>2 DEF Unaligned, AlignedAt
<1>2. d \in Coroutine
  BY TreeAssumption
<1>3. CASE d = c
  BY <1>3, EndsHavingRead
<1>4. CASE d # c /\ EventsOf(d) = {}
  <2>1. ~WasClosed(d) /\ Yields(d) = <<>>
    BY <1>1, <1>2, <1>4, NothingRetained
  <2> QED
    BY <1>1, <1>2, <2>1, Typed, EmptySeq DEF AlignedAt
<1>5. CASE d # c /\ EventsOf(d) # {}
  <2>1. PICK i \in DOMAIN def[c] : ForksAt(c, i, d) /\ PassedBefore(c, i)
    BY <1>2, <1>5 DEF JournalIsTold, AllReached, Reached
  <2>2. PICK k \in def[c][i].kids : d \in Subtree[k]
    BY <2>1 DEF ForksAt
  <2>3. /\ i <= pos[c] /\ i \in Nat /\ pos[c] \in Nat
        /\ DOMAIN def[c] = 1 .. Len(def[c]) /\ Len(def[c]) \in Nat
    BY <1>1, <2>1, EndsWhereTold, Typed, LenProperties
  <2>4. i < pos[c] \/ (i = pos[c] /\ pc[c] = "threw")
    <3> SUFFICES ASSUME i = pos[c], pc[c] = "ready" PROVE FALSE
      BY <1>1, <2>3
    <3>1. HasStep(c)
      BY <2>3 DEF HasStep
    <3> QED
      BY <2>1, <3>1 DEF BodyEnds, Ready, At, ForksAt, Forking
  <2>5. pc[k] # "idle"
    BY <2>1, <2>2, <2>4 DEF KidsBegan, ForksAt
  <2>6. k \in Coroutine /\ k \in Subtree[c] \ {c} /\ k # Root
    BY <1>1, <2>1, <2>2, KidsAreBeneath, RootIsNoKid DEF RunInv, TypeOK
  <2>7. pc[k] = "ended"
    BY <1>1, <2>5, <2>6 DEF ControlInv, JoinsWhatRuns, Gone
  <2> QED
    BY <2>2, <2>6, <2>7 DEF EndedAligned, Through
<1> QED
  BY <1>3, <1>4, <1>5

------------------------------------------------------------------------------
(* Every step leaves its coroutine at a place the journal tells of.        *)

LEMMA KnownStays ==
  ASSUME RunInv, OwnEvents, Grows, indexed' = indexed, NEW d \in Coroutine,
         cursors'[d] = cursors[d], ~BackendStores(d)
  PROVE  Known(d)' = Known(d)
<1>1. CASE journal' = journal
  BY <1>1 DEF Known, Yields, Appended, Retained, YieldsIn
<1>2. CASE \E c \in Coroutine : BackendStores(c)
  BY <1>2, JournalGrows DEF Known
<1> QED
  BY <1>1, <1>2 DEF Grows

LEMMA ThrewStays ==
  ASSUME RunInv, OwnEvents, Grows, NEW d \in Coroutine, ThrewAt(d),
         pos'[d] = pos[d], seen'[d] = seen[d], Known(d)' = Known(d)
  PROVE  ThrewAt(d)'
<1>1. /\ def' = def /\ At(d)' = At(d) /\ (HasStep(d)' <=> HasStep(d))
      /\ CallsBefore(d, pos[d])' = CallsBefore(d, pos[d])
  BY DEF Grows, At, HasStep, CallsBefore, CallsAt
<1>2. ASSUME NEW k \in At(d).kids, NEW s, ClosedAs(k, s), HasStep(d)
      PROVE  ClosedAs(k, s)'
  BY <1>2, AtAStep, KidsAreBeneath, ClosedStays DEF At
<1> QED
  BY <1>1, <1>2 DEF ThrewAt

LEMMA PlaceStays ==
  ASSUME RunInv, OwnEvents, Grows, NEW d \in Coroutine, PlaceAt(d), pc'[d] = pc[d],
         pos'[d] = pos[d], pending'[d] = pending[d], seen'[d] = seen[d], Known(d)' = Known(d)
  PROVE  PlaceAt(d)'
<1>1. /\ def' = def /\ At(d)' = At(d) /\ (HasStep(d)' <=> HasStep(d))
      /\ CallsBefore(d, pos[d])' = CallsBefore(d, pos[d])
      /\ Inside(d)' <=> Inside(d)
      /\ Executes(d)' <=> Executes(d)
  BY DEF Grows, At, HasStep, CallsBefore, CallsAt, Inside, Executes
<1>2. PICK n : n = pos[d]
  OBVIOUS
<1>3. PassedBefore(d, pos[d]) => PassedBefore(d, pos[d])'
  <2>1. PassedBefore(d, n) => PassedBefore(d, n)'
    BY PassedBeforeStays
  <2>2. PassedBefore(d, n)' => PassedBefore(d, pos[d])'
    BY <1>2 DEF PassedBefore
  <2> QED
    BY <1>2, <2>1, <2>2
<1>4. ThrewAt(d) => ThrewAt(d)'
  BY ThrewStays
<1> QED
  BY <1>1, <1>2, <1>3, <1>4 DEF PlaceAt

\* The generator is resumed after its step i, or with an error.
LEMMA ResumePlaces ==
  ASSUME RunInv, OwnEvents, Grows, NEW c \in Coroutine, NEW s, Resume(c, s),
         HasStep(c), NEW i \in Nat, i = pos[c], PassedBefore(c, i),
         s = "ok" \/ At(c).catches =>
           Passed(c, i)' /\ Len(seen'[c]) = CallsBefore(c, i + 1),
         ~(s = "ok" \/ At(c).catches) => ThrewAt(c)'
  PROVE  PlaceAt(c)'
<1>1. /\ pc \in [Coroutine -> PC] /\ pos \in [Coroutine -> Nat] /\ def' = def
      /\ DOMAIN def[c] = 1 .. Len(def[c]) /\ Len(def[c]) \in Nat
  BY Typed, LenProperties DEF Grows
<1>2. PassedBefore(c, i)'
  BY PassedBeforeStays
<1>3. CASE s = "ok" \/ At(c).catches
  <2>1. pc'[c] = "ready" /\ pos'[c] = i + 1
    BY <1>1, <1>3 DEF Resume
  <2>2. CallsBefore(c, pos[c])' = CallsBefore(c, i + 1)
    BY <1>1, <2>1 DEF CallsBefore, CallsAt
  <2>3. PassedBefore(c, pos[c])'
    <3> SUFFICES ASSUME NEW j \in DOMAIN def[c], j < i + 1 PROVE Passed(c, j)'
      BY <1>1, <2>1 DEF PassedBefore
    <3>1. j < i \/ j = i
      BY <1>1
    <3> QED
      BY <1>1, <1>2, <1>3, <3>1 DEF PassedBefore
  <2> QED
    BY <1>3, <2>1, <2>2, <2>3 DEF PlaceAt, Executes, Appending
<1>4. CASE ~(s = "ok" \/ At(c).catches)
  <2>1. pc'[c] = "threw" /\ pos'[c] = i
    BY <1>1, <1>4 DEF Resume
  <2>2. PassedBefore(c, pos[c])'
    BY <1>2, <2>1 DEF PassedBefore
  <2> QED
    BY <1>4, <2>1, <2>2 DEF PlaceAt, Executes, Appending
<1> QED
  BY <1>3, <1>4

\* A call is answered with the result the journal holds for it.
LEMMA AnswerPlaces ==
  ASSUME RunInv, OwnEvents, NEW c \in Coroutine, NEW e \in Event, Resume(c, e.status),
         journal' = journal, def' = def, seen[c] \in Seq(Event),
         pos[c] \in DOMAIN def[c], At(c).op = "call", PassedBefore(c, pos[c]),
         Len(seen[c]) = CallsBefore(c, pos[c]),
         Len(seen[c]) < Len(Written(c)), Written(c)[Len(seen[c]) + 1] = e,
         seen'[c] = Append(seen[c], e), seen'[c] = Known(c)'
  PROVE  PlaceAt(c)'
<1>1. Grows /\ HasStep(c)
  BY Typed, LenProperties DEF Grows, HasStep
<1>2. PICK i \in Nat : i = pos[c]
  BY Typed
<1>3. /\ def[c][i].op = "call" /\ At(c) = def[c][i] /\ i \in DOMAIN def[c]
      /\ PassedBefore(c, i) /\ Len(seen[c]) = CallsBefore(c, i)
      /\ CallsBefore(c, i)' = CallsBefore(c, i) /\ Written(c)' = Written(c)
  BY <1>2 DEF At, CallsBefore, CallsAt, Written, YieldsIn
<1>4. /\ Len(seen'[c]) = CallsBefore(c, i) + 1
      /\ seen'[c][CallsBefore(c, i) + 1] = e
  <2>1. /\ Len(Append(seen[c], e)) = Len(seen[c]) + 1
        /\ Append(seen[c], e)[Len(seen[c]) + 1] = e
    BY ONLY seen[c] \in Seq(Event), e \in Event, AppendProperties
  <2> QED
    BY <1>3, <2>1
<1>5. CallsBefore(c, i + 1) = CallsBefore(c, i) + 1
  BY <1>3, CallsNext
<1>6. e.status = "ok" \/ At(c).catches => Passed(c, i)'
  BY <1>3 DEF Passed
<1>7. ASSUME ~(e.status = "ok" \/ At(c).catches) PROVE ThrewAt(c)'
  <2>1. pos'[c] = i
    BY <1>2, <1>7, Typed DEF Resume
  <2>2. /\ At(c)' = At(c) /\ (HasStep(c)' <=> HasStep(c))
        /\ CallsBefore(c, pos[c])' = CallsBefore(c, i)
    BY <1>2, <2>1 DEF At, HasStep, CallsBefore, CallsAt
  <2> QED
    BY <1>1, <1>3, <1>4, <1>7, <2>2 DEF ThrewAt
<1> QED
  BY <1>1, <1>2, <1>3, <1>4, <1>5, <1>6, <1>7, ResumePlaces

LEMMA ReplayPlaces ==
  ASSUME KnownInv, HistoryInv', NEW c \in Coroutine, Replay(c), PlaceAt(c)
  PROVE  PlaceAt(c)'
<1>1. /\ Calls(c) /\ failure = "none" /\ failure' = "none" /\ HasEntry(c)
      /\ run = "up" /\ run' = "up"
      /\ journal' = journal /\ def' = def /\ indexed' = indexed /\ pc[c] = "ready"
      /\ Resume(c, Entry(c).status) /\ HasStep(c) /\ At(c).op = "call"
      /\ seen' = [seen EXCEPT ![c] = Append(@, Entry(c))]
      /\ RunInv /\ ControlInv /\ OwnEvents /\ HistoryInv
  BY DEF Replay, Calls, Ready, Moves, ConsumeYield, KnownInv, ControlInv
<1>2. /\ pos[c] \in DOMAIN def[c] /\ DOMAIN seen = Coroutine
      /\ PassedBefore(c, pos[c]) /\ Len(seen[c]) = CallsBefore(c, pos[c])
  BY <1>1, AtAStep, Typed DEF PlaceAt, Inside
<1>3. /\ Appended(c) = <<>> /\ cursors[c] < Len(Yields(c)) /\ Len(seen[c]) = cursors[c]
      /\ Entry(c) \in Event /\ seen[c] \in Seq(Event) /\ Yields(c) = Written(c)
  BY <1>1, EntryIsNext, KnownIsWritten
<1>4. Written(c)[Len(seen[c]) + 1] = Entry(c)
  BY <1>3 DEF Entry
<1>5. seen'[c] = Append(seen[c], Entry(c))
  BY <1>1, <1>2
<1>6. Appended(c)' = <<>>
  BY <1>1, <1>3 DEF Appended, YieldsIn
<1>7. seen'[c] = Known(c)'
  BY <1>1, <1>6 DEF HistoryInv, HistoryAt, SeesWhatIsKnown
<1> QED
  BY <1>1, <1>2, <1>3, <1>4, <1>5, <1>7, AnswerPlaces

\* What an executing call wrote and was not given yet is all the journal holds beyond it.
LEMMA StoredIsLast ==
  ASSUME KnownInv, run = "up", NEW c \in Coroutine, Stored(c)
  PROVE  /\ Known(c) = Written(c) /\ Written(c) = Append(seen[c], pending[c])
         /\ seen[c] \in Seq(Event) /\ pending[c] \in Event
<1>1. ReadsBeforeWriting(c) /\ SeesWhatIsKnown(c)
  BY DEF KnownInv, HistoryInv, HistoryAt
<1>2. ~HasEntry(c)
  BY <1>1 DEF ReadsBeforeWriting, Executes, Stored, Appending
<1>3. Known(c) = Written(c)
  BY <1>2, KnownIsWritten
<1>4. pending[c] \in Event
  BY DEF Stored, KnownInv, RunInv, Busy, BusyAt
<1> QED
  BY <1>1, <1>3, <1>4 DEF SeesWhatIsKnown

LEMMA AckPlaces ==
  ASSUME KnownInv, HistoryInv', NEW c \in Coroutine, AckYield(c), PlaceAt(c)
  PROVE  PlaceAt(c)'
<1>1. /\ run = "up" /\ Stored(c) /\ journal' = journal /\ def' = def
      /\ UNCHANGED <<indexed, cursors>>
      /\ Resume(c, pending[c].status)
      /\ seen' = [seen EXCEPT ![c] = Append(@, pending[c])] /\ DOMAIN seen = Coroutine
      /\ RunInv /\ OwnEvents
  BY Typed DEF AckYield, Moves, Stored, KnownInv, ControlInv, indexVars
<1>2. /\ Known(c) = Written(c) /\ Written(c) = Append(seen[c], pending[c])
      /\ seen[c] \in Seq(Event) /\ pending[c] \in Event
  BY <1>1, StoredIsLast
<1>3. /\ Executes(c) /\ Inside(c) /\ pc[c] # "threw"
  BY <1>1 DEF Executes, Inside, Stored, Appending
<1>4. /\ PassedBefore(c, pos[c]) /\ HasStep(c) /\ At(c).op = "call"
      /\ Len(seen[c]) = CallsBefore(c, pos[c])
  BY <1>3 DEF PlaceAt
<1>5. pos[c] \in DOMAIN def[c]
  BY <1>1, <1>4, AtAStep
<1>6. /\ Len(Written(c)) = Len(seen[c]) + 1 /\ Len(seen[c]) \in Nat
      /\ Written(c)[Len(seen[c]) + 1] = pending[c]
  BY <1>2, AppendProperties, LenProperties
<1>7. Len(seen[c]) < Len(Written(c))
  BY <1>6
<1>8. seen'[c] = Append(seen[c], pending[c])
  BY <1>1
<1>9. Known(c)' = Known(c)
  BY <1>1 DEF Known, Yields, Appended, Retained, YieldsIn
<1> QED
  BY <1>1, <1>2, <1>4, <1>5, <1>6, <1>7, <1>8, <1>9, AnswerPlaces

\* A combinator passes when all its children closed ok, and raises when one did not.
LEMMA JoinPlaces ==
  ASSUME KnownInv, RacesAreCaught, Outcomed, NEW c \in Coroutine, Join(c), PlaceAt(c),
         failure = "none"
  PROVE  PlaceAt(c)'
<1>1. /\ run = "up" /\ pc[c] = "join" /\ UNCHANGED <<journal, def, indexed, cursors, seen>>
      /\ Resume(c, JoinResult(c)) /\ \A k \in At(c).kids : pc[k] = "ended"
      /\ RunInv /\ OwnEvents /\ Grows
  BY DEF Join, Moves, KnownInv, ControlInv, Grows, indexVars
<1>2. /\ PassedBefore(c, pos[c]) /\ HasStep(c) /\ At(c).op \in Forking
      /\ Len(seen[c]) = CallsBefore(c, pos[c])
  BY <1>1 DEF PlaceAt, Inside
<1>3. pos[c] \in DOMAIN def[c] /\ At(c) = def[c][pos[c]] /\ def \in Definition
  BY <1>1, <1>2, AtAStep DEF At, RunInv, TypeOK
<1> PICK i \in Nat : i = pos[c]
  BY <1>1, Typed
<1>4. ASSUME NEW k \in At(c).kids
      PROVE  /\ k \in Coroutine
             /\ outcome[k] \in Status /\ ClosedAs(k, outcome[k])
             /\ ClosedAs(k, "ok") => ClosedAs(k, "ok")'
  <2>1. k \in Coroutine \ {Root}
    BY <1>1, <1>3, <1>4, KidsAreBeneath, RootIsNoKid
  <2>2. outcome[k] \in Status /\ ClosedAs(k, outcome[k])
    BY <1>1, <1>4, <2>1 DEF Outcomed, OutcomeAt
  <2> QED
    BY <1>1, <2>1, <2>2, ClosedStays
<1>5. seen[c] = Known(c) /\ Known(c)' = Known(c)
  <2>1. seen[c] = Known(c)
    BY <1>1 DEF KnownInv, HistoryInv, HistoryAt, SeesWhatIsKnown, KnowsAll
  <2> QED
    BY <1>1, <2>1 DEF Known, Yields, Appended, Retained, YieldsIn
<1>6. CallsBefore(c, i + 1) = CallsBefore(c, i)
  BY <1>1, <1>2, <1>3, CallsNext DEF Forking
<1>7. At(c).op = "race" => At(c).catches
  BY <1>3 DEF RacesAreCaught
<1>8. At(c).op = "all" =>
        IF \A k \in At(c).kids : outcome[k] = "ok" THEN JoinResult(c) = "ok"
        ELSE JoinResult(c) = "err"
  BY <1>4 DEF JoinResult, Status
<1>9. ASSUME JoinResult(c) = "ok" \/ At(c).catches PROVE Passed(c, i)'
  <2>1. At(c).op = "all" => At(c).catches \/ \A k \in At(c).kids : ClosedAs(k, "ok")'
    <3>1. At(c).op = "all" => At(c).catches \/ \A k \in At(c).kids : outcome[k] = "ok"
      BY <1>8, <1>9
    <3> QED
      BY <1>4, <3>1
  <2>2. def'[c][i] = At(c)
    BY <1>1, <1>3
  <2> QED
    BY <1>2, <2>1, <2>2 DEF Passed, Forking
<1>10. ASSUME ~(JoinResult(c) = "ok" \/ At(c).catches) PROVE ThrewAt(c)'
  <2>1. At(c).op = "all"
    BY <1>2, <1>7, <1>10 DEF Forking
  <2>2. PICK k \in At(c).kids : outcome[k] # "ok"
    BY <1>8, <1>10, <2>1
  <2>3. outcome[k] \in Status \ {"ok"} /\ ClosedAs(k, outcome[k])
    BY <1>4, <2>2
  <2>4. ThrewAt(c)
    BY <1>2, <1>5, <1>10, <2>1, <2>2, <2>3 DEF ThrewAt
  <2>5. pos'[c] = pos[c]
    BY <1>1, <1>10, Typed DEF Resume
  <2> QED
    BY <1>1, <1>5, <2>4, <2>5, ThrewStays
<1> QED
  BY <1>1, <1>2, <1>6, <1>9, <1>10, ResumePlaces

------------------------------------------------------------------------------
(* One step of one coroutine.                                              *)

\* What the replay of a run is proved from.
Replayable ==
  /\ OneDefinition /\ RacesAreCaught /\ Refusable = {}
  /\ ~(MayHalt /\ MayStop)

TellStep(c) ==
  /\ \A d \in Coroutine \ {c} : seen'[d] = seen[d]
  /\ cursors[c] <= cursors'[c] /\ claimed' = claimed /\ halting \subseteq halting'
  /\ Root \in halting' => Root \in halting
  /\ phase' = "claimed" => phase = "claimed"
  /\ pc'[c] = "write" => Admit(c)
  /\ pc'[c] = "threw" => pos'[c] = pos[c]
  /\ pc'[c] = "closing" =>
       IF c = Root THEN phase' = "claimed" \/ Root \in halting
       ELSE outcome'[c] = "cancelled" => c \in halting
  /\ failure' = "none" =>
       /\ (pos'[c] # pos[c] \/ pc'[c] = "threw") => pc[c] = "join" \/ Calls(c) \/ Stored(c)
       /\ Through(c)' => Through(c) \/ ~Unaligned(c)
       /\ c # Root => OutcomeAt(c)'
       /\ PlaceAt(c)'

LEMMA TellTyped ==
  ASSUME RunInv
  PROVE  /\ pc \in [Coroutine -> PC] /\ pos \in [Coroutine -> Nat]
         /\ pending \in [Coroutine -> Event \cup {NoEvent}]
         /\ outcome \in [Coroutine -> Status \cup {"none", "torn"}]
         /\ cursors \in [Coroutine -> Nat] /\ DOMAIN seen = Coroutine
         /\ \A c \in Coroutine : cursors[c] <= cursors[c]
  BY DEF RunInv, TypeOK, IndexTypeOK

\* An effect goes to its executor, or starts the append of its result.
LEMMA LivePlaces ==
  ASSUME RunInv, OwnEvents, NEW c \in Coroutine, PlaceAt(c), GoLive(c) \/ Execute(c)
  PROVE  PlaceAt(c)'
<1>1. /\ UNCHANGED <<journal, def, pos, seen, indexed, cursors>>
      /\ pc \in [Coroutine -> PC] /\ pending \in [Coroutine -> Event \cup {NoEvent}]
      /\ pc[c] \in {"ready", "live"}
  BY Typed DEF GoLive, Execute, Calls, Ready, indexVars
<1>2. /\ HasStep(c) /\ At(c).op = "call" /\ Len(seen[c]) = CallsBefore(c, pos[c])
      /\ PassedBefore(c, pos[c])
  BY <1>1 DEF PlaceAt, Inside, Executes, GoLive, Execute, Calls
<1>3. /\ HasStep(c)' /\ At(c)' = At(c) /\ CallsBefore(c, pos[c])' = CallsBefore(c, pos[c])
  BY <1>1, <1>2 DEF HasStep, At, CallsBefore, CallsAt
<1>4. PassedBefore(c, pos[c])'
  BY <1>1, <1>2 DEF PassedBefore, Passed, CallsBefore, CallsAt, Written, YieldsIn, ClosedAs,
     ClosesOf
<1>5. pc'[c] \in {"live", "turn"} /\ (pc'[c] = "turn" => pending'[c].name = At(c).name)
  BY <1>1 DEF GoLive, Execute, BeginAppend, YieldOf
<1> QED
  BY <1>1, <1>2, <1>3, <1>4, <1>5 DEF PlaceAt, Appending

\* The document that wrote the journal never differs from it, so no coroutine leaves its
\* history for running live, whatever the policy.
LEMMA NothingRunsLive ==
  ASSUME KnownInv, TellInv, Replayable, NEW c \in Coroutine
  PROVE  ~RunLive(c)
<1> SUFFICES ASSUME RunLive(c) PROVE FALSE
  OBVIOUS
<1>1. Calls(c) /\ Mismatch(c) /\ failure = "none" /\ run = "up"
  BY DEF RunLive, Calls, Ready, Moves
<1>2. PlaceAt(c)
  BY <1>1 DEF TellInv, Places
<1> QED
  BY <1>1, <1>2, CallsAgree DEF Replayable, TellInv

LEMMA EffectsTell ==
  ASSUME KnownInv, TellInv, Replayable, HistoryInv', NEW c \in Coroutine, Effects(c)
  PROVE  TellStep(c)
<1>1. /\ pc \in [Coroutine -> PC] /\ pos \in [Coroutine -> Nat]
      /\ pending \in [Coroutine -> Event \cup {NoEvent}] /\ DOMAIN seen = Coroutine
      /\ cursors \in [Coroutine -> Nat] /\ cursors[c] <= cursors[c]
      /\ RunInv /\ OwnEvents
  BY TellTyped DEF KnownInv, ControlInv
<1>2. /\ run = "up" /\ UNCHANGED <<halting, phase, claimed>>
      /\ failure' = "none" => failure = "none"
  BY DEF Effects, CallRefused, Replay, ReplayStale, Diverge, RunLive, GoLive, Execute,
     ExecuteTooLate, Calls, Ready, Moves, ConsumeYield, DisableReplay, indexVars, root
<1>3. failure = "none" => PlaceAt(c)
  BY <1>2 DEF TellInv, Places
<1>4. ASSUME NEW s, Resume(c, s), failure' # "none", UNCHANGED seen, cursors[c] <= cursors'[c]
      PROVE  TellStep(c)
  BY <1>1, <1>2, <1>4 DEF Resume, TellStep
<1>5. ASSUME CallRefused(c) PROVE TellStep(c)
  BY <1>1, <1>4, <1>5 DEF CallRefused, indexVars
<1>6. ASSUME Replay(c) PROVE TellStep(c)
  <2>1. PlaceAt(c)' /\ Calls(c)
    BY <1>3, <1>6, ReplayPlaces DEF Replay
  <2>2. pc'[c] \in {"ready", "threw"} /\ (pc'[c] = "threw" => pos'[c] = pos[c])
    BY <1>1, <1>6 DEF Replay, Resume
  <2>3. \A d \in Coroutine \ {c} : seen'[d] = seen[d]
    BY <1>1, <1>6 DEF Replay
  <2>4. cursors[c] <= cursors'[c]
    BY <1>1, <1>6 DEF Replay, ConsumeYield
  <2>5. ~Through(c)' /\ OutcomeAt(c)'
    BY <2>2 DEF Through, OutcomeAt, Appending
  <2> QED
    BY <1>1, <1>2, <2>1, <2>2, <2>3, <2>4, <2>5 DEF TellStep
<1>7. ASSUME ReplayStale(c) PROVE TellStep(c)
  BY <1>1, <1>4, <1>7 DEF ReplayStale, ConsumeYield
<1>8. ASSUME Diverge(c) PROVE TellStep(c)
  BY <1>1, <1>4, <1>8 DEF Diverge, indexVars
<1>9. ASSUME GoLive(c) \/ Execute(c) PROVE TellStep(c)
  <2>1. PlaceAt(c)'
    BY <1>1, <1>3, <1>9, LivePlaces DEF GoLive, Execute
  <2>2. pc'[c] \in {"live", "turn"} /\ (pc'[c] = "turn" => pending'[c].type = "yield")
    BY <1>1, <1>9 DEF GoLive, Execute, BeginAppend, YieldOf
  <2>3. UNCHANGED <<pos, seen, cursors>>
    BY <1>9 DEF GoLive, Execute, indexVars
  <2>4. ~Through(c)' /\ OutcomeAt(c)'
    BY <2>2 DEF Through, OutcomeAt, Appending
  <2> QED
    BY <1>1, <1>2, <2>1, <2>2, <2>3, <2>4 DEF TellStep
<1>10. ASSUME ExecuteTooLate(c) PROVE TellStep(c)
  BY <1>1, <1>4, <1>10 DEF ExecuteTooLate, indexVars
<1>11. ~RunLive(c)
  BY NothingRunsLive
<1> QED
  BY <1>5, <1>6, <1>7, <1>8, <1>9, <1>10, <1>11 DEF Effects

LEMMA AppendsTell ==
  ASSUME KnownInv, TellInv, Replayable, HistoryInv', NEW c \in Coroutine, Appends(c)
  PROVE  TellStep(c)
<1>1. /\ pc \in [Coroutine -> PC] /\ pos \in [Coroutine -> Nat]
      /\ pending \in [Coroutine -> Event \cup {NoEvent}] /\ DOMAIN seen = Coroutine
      /\ outcome \in [Coroutine -> Status \cup {"none", "torn"}]
      /\ cursors[c] <= cursors[c] /\ RunInv /\ ControlInv /\ OwnEvents
  BY TellTyped DEF KnownInv, ControlInv
<1>2. /\ run = "up" /\ UNCHANGED <<halting, claimed, cursors>>
      /\ failure' = "none" => failure = "none"
      /\ \A d \in Coroutine \ {c} : seen'[d] = seen[d]
  BY <1>1 DEF Appends, Admit, RefuseAdmission, GateRefuses, BackendStores, BackendFailed,
     AckYield, AckClose, Moves, indexVars
<1>3. failure = "none" => PlaceAt(c) /\ (c # Root => OutcomeAt(c))
  BY <1>2 DEF TellInv, Places, Outcomed
<1>4. ASSUME AppendRaised(c, FALSE), failure' # "none" PROVE TellStep(c)
  <2>1. /\ pc'[c] \in {"ready", "threw", "ended"} /\ (phase' = phase \/ phase' = "ended")
        /\ pc'[c] = "threw" => pos'[c] = pos[c]
    BY <1>1, <1>4 DEF AppendRaised, Resume
  <2> QED
    BY <1>1, <1>2, <1>4, <2>1 DEF TellStep
<1>5. ASSUME Admit(c) \/ BackendStores(c) PROVE TellStep(c)
  <2>1. /\ pc[c] \in {"turn", "write"} /\ pc'[c] \in {"write", "stored"}
        /\ UNCHANGED <<pos, pending, outcome, phase, seen, def, indexed>>
        /\ journal' = journal \/ BackendStores(c)
        /\ pc'[c] = "write" => Admit(c)
    BY <1>1, <1>5 DEF Admit, BackendStores, indexVars, root
  <2>2. Grows
    BY <2>1 DEF Grows
  <2>3. Through(c)' => Through(c)
    BY <2>1 DEF Through, Appending
  <2>4. failure = "none" => (c # Root => OutcomeAt(c)')
    BY <1>3, <2>1 DEF OutcomeAt, Appending, CloseOf
  <2>5. failure = "none" => PlaceAt(c)'
    <3> SUFFICES ASSUME failure = "none", Inside(c)' PROVE PlaceAt(c)'
      BY DEF PlaceAt
    <3>1. Executes(c) /\ Inside(c) /\ pc[c] \in Appending
      BY <2>1 DEF Executes, Inside, Appending
    <3>2. /\ HasStep(c) /\ At(c).op = "call" /\ pending[c].name = At(c).name
          /\ Len(seen[c]) = CallsBefore(c, pos[c]) /\ PassedBefore(c, pos[c])
      BY <1>3, <2>1, <3>1 DEF PlaceAt
    <3>3. /\ HasStep(c)' /\ At(c)' = At(c)
          /\ CallsBefore(c, pos[c])' = CallsBefore(c, pos[c])
      BY <2>1, <3>2 DEF HasStep, At, CallsBefore, CallsAt
    <3>4. PICK n : n = pos[c]
      OBVIOUS
    <3>5. PassedBefore(c, n)'
      BY <1>1, <2>2, <3>2, <3>4, PassedBeforeStays
    <3>6. PassedBefore(c, pos[c])'
      BY <2>1, <3>4, <3>5 DEF PassedBefore
    <3> QED
      BY <2>1, <3>2, <3>3, <3>6 DEF PlaceAt
  <2> QED
    BY <1>1, <1>2, <2>1, <2>3, <2>4, <2>5 DEF TellStep
<1>6. ASSUME RefuseAdmission(c) \/ BackendFailed(c) PROVE TellStep(c)
  BY <1>4, <1>6 DEF RefuseAdmission, BackendFailed
<1>7. ~GateRefuses(c)
  BY DEF Replayable, GateRefuses
<1>8. ASSUME AckYield(c) PROVE TellStep(c)
  <2>1. failure = "none" => PlaceAt(c)'
    BY <1>3, <1>8, AckPlaces
  <2>2. /\ pc'[c] \in {"ready", "threw"} /\ Stored(c) /\ phase' = phase
        /\ pc'[c] = "threw" => pos'[c] = pos[c]
    BY <1>1, <1>8 DEF AckYield, Resume, Stored, root
  <2>3. ~Through(c)' /\ OutcomeAt(c)'
    BY <2>2 DEF Through, OutcomeAt, Appending
  <2> QED
    BY <1>1, <1>2, <2>1, <2>2, <2>3 DEF TellStep
<1>9. ASSUME AckClose(c) PROVE TellStep(c)
  <2>1. /\ pc'[c] = "ended" /\ UNCHANGED <<pos, outcome, journal>>
        /\ phase' = phase \/ phase' = "settled"
        /\ pc[c] = "stored" /\ pending[c].type = "close" /\ pending[c] \in Event
    BY <1>1, <1>9 DEF AckClose, root, RunInv, Busy, BusyAt
  <2>2. Through(c)
    BY <2>1 DEF Through, Appending
  <2>3. ~Inside(c)'
    BY <2>1 DEF Inside, Executes, Appending
  <2>4. failure = "none" /\ c # Root => OutcomeAt(c)'
    <3> SUFFICES ASSUME failure = "none", c # Root PROVE OutcomeAt(c)'
      OBVIOUS
    <3>1. pending[c] = CloseOf(c, outcome[c])
      BY <1>3, <2>1 DEF OutcomeAt, Appending
    <3>2. outcome[c] \in Status
      BY <2>1, <3>1 DEF CloseOf, Event
    <3>3. \E i \in DOMAIN journal : journal[i] = pending[c]
      BY <1>1, <2>1 DEF ControlInv, StoredIsJournaled
    <3>4. ClosedAs(c, outcome[c])'
      BY <2>1, <3>1, <3>3 DEF ClosedAs, ClosesOf, CloseOf
    <3> QED
      BY <2>1, <3>2, <3>4 DEF OutcomeAt, Appending
  <2> QED
    BY <1>1, <1>2, <2>1, <2>2, <2>3, <2>4 DEF TellStep, PlaceAt
<1> QED
  BY <1>5, <1>6, <1>7, <1>8, <1>9 DEF Appends

LEMMA ChildrenTell ==
  ASSUME KnownInv, TellInv, Replayable, NEW c \in Coroutine, Children(c), ~Fork(c)
  PROVE  TellStep(c)
<1>1. /\ pc \in [Coroutine -> PC] /\ pos \in [Coroutine -> Nat]
      /\ pending \in [Coroutine -> Event \cup {NoEvent}] /\ DOMAIN seen = Coroutine
      /\ outcome \in [Coroutine -> Status \cup {"none", "torn"}]
      /\ cursors[c] <= cursors[c] /\ RunInv /\ OwnEvents /\ disabled = {}
  BY TellTyped DEF KnownInv, ControlInv, LeafInv, ReplayIsOn, Children, ChildEnds,
     BodyEnds, Ready, ChildEndsUnclosed, CancelledUnaligned, CloseChild, Decide, Join,
     Unwind, Moves
<1>2. /\ run = "up" /\ UNCHANGED <<seen, phase, claimed, cursors>>
      /\ failure' = "none" => failure = "none"
  BY DEF Children, ChildEnds, BodyEnds, Ready, ChildEndsUnclosed, CancelledUnaligned,
     CloseChild, Decide, Join, Unwind, Moves, indexVars, root
<1>3. failure = "none" => PlaceAt(c) /\ (c # Root => OutcomeAt(c))
  BY <1>2 DEF TellInv, Places, Outcomed
<1>4. ASSUME ChildEnds(c) PROVE TellStep(c)
  <2>1. /\ c # Root /\ pc'[c] = "closing" /\ UNCHANGED <<pos, halting>>
        /\ outcome'[c] # "cancelled"
        /\ failure' = "none" => ~Unaligned(c)
    BY <1>1, <1>4 DEF ChildEnds, BodyResult
  <2>2. ~Inside(c)' /\ OutcomeAt(c)'
    BY <2>1 DEF Inside, Executes, OutcomeAt, Appending
  <2> QED
    BY <1>1, <1>2, <2>1, <2>2 DEF TellStep, PlaceAt
<1>5. ASSUME ChildEndsUnclosed(c) \/ CancelledUnaligned(c) PROVE TellStep(c)
  BY <1>1, <1>2, <1>5 DEF ChildEndsUnclosed, CancelledUnaligned, TellStep
<1>6. ASSUME CloseChild(c) PROVE TellStep(c)
  <2>1. /\ c # Root /\ pc[c] = "closing" /\ pc'[c] = "turn"
        /\ pending'[c] = CloseOf(c, outcome[c])
        /\ UNCHANGED <<pos, halting, outcome>>
        /\ outcome[c] = "cancelled" => ~Unaligned(c)
    BY <1>1, <1>6 DEF CloseChild, BeginAppend
  <2>2. ~Inside(c)' /\ OutcomeAt(c)'
    BY <2>1 DEF Inside, Executes, OutcomeAt, Appending, CloseOf
  <2>3. Through(c) \/ ~Unaligned(c)
    BY <2>1 DEF Through
  <2> QED
    BY <1>1, <1>2, <2>1, <2>2, <2>3 DEF TellStep, PlaceAt
<1>7. ASSUME Decide(c) PROVE TellStep(c)
  <2>1. /\ pc[c] = "join" /\ UNCHANGED <<journal, def, indexed, cursors, pc, pos, pending>>
        /\ halting \subseteq halting' /\ UNCHANGED <<outcome, failure>>
    BY <1>7 DEF Decide, indexVars
  <2>2. PICK k \in At(c).kids :
          halting' = halting \cup
            {d \in UNION {Subtree[j] : j \in At(c).kids \ {k}} : ~Gone(d)}
    BY <1>7 DEF Decide
  <2>3. \A j \in At(c).kids : Root \notin Subtree[j]
    <3> SUFFICES ASSUME NEW j \in At(c).kids, Root \in Subtree[j] PROVE FALSE
      OBVIOUS
    <3>1. pos[c] \in DOMAIN def[c]
      BY <1>1, <2>1 DEF RunInv, Busy, BusyAt
    <3>2. j \in Coroutine \ {Root}
      BY <1>1, <3>1, KidsAreBeneath, RootIsNoKid DEF At, RunInv, TypeOK
    <3> QED
      BY <3>2, TreeAssumption
  <2>4. Root \in halting' => Root \in halting
    BY <2>2, <2>3
  <2>5. ~Through(c)' /\ OutcomeAt(c)'
    BY <2>1 DEF Through, OutcomeAt, Appending
  <2>6. failure = "none" => PlaceAt(c)'
    <3>1. Grows /\ Known(c)' = Known(c)
      BY <2>1 DEF Grows, Known, Yields, Appended, Retained, YieldsIn
    <3> QED
      BY <1>1, <1>2, <1>3, <2>1, <3>1, PlaceStays
  <2> QED
    BY <1>1, <1>2, <2>1, <2>4, <2>5, <2>6 DEF TellStep
<1>8. ASSUME Join(c) PROVE TellStep(c)
  <2>1. failure = "none" => PlaceAt(c)'
    BY <1>3, <1>8, JoinPlaces DEF TellInv, Replayable
  <2>2. /\ pc[c] = "join" /\ pc'[c] \in {"ready", "threw"} /\ UNCHANGED <<halting, outcome>>
        /\ pc'[c] = "threw" => pos'[c] = pos[c]
    BY <1>1, <1>8 DEF Join, Resume
  <2>3. ~Through(c)' /\ OutcomeAt(c)'
    BY <2>2 DEF Through, OutcomeAt, Appending
  <2> QED
    BY <1>1, <1>2, <2>1, <2>2, <2>3 DEF TellStep
<1>9. ASSUME Unwind(c) PROVE TellStep(c)
  <2>1. /\ c \in halting /\ UNCHANGED <<pos, halting, journal, failure>>
        /\ pc'[c] = IF pc[c] = "parked" THEN "ended" ELSE "closing"
        /\ outcome'[c] = "cancelled"
    BY <1>1, <1>9 DEF Unwind
  <2>2. ~Inside(c)'
    BY <2>1 DEF Inside, Executes, Appending
  <2>3. failure = "none" /\ c # Root => OutcomeAt(c)'
    <3>1. pc[c] = "parked" /\ failure = "none" /\ c # Root => ClosedAs(c, "cancelled")'
      BY <1>3, <2>1 DEF OutcomeAt, ClosedAs, ClosesOf
    <3> QED
      BY <2>1, <3>1 DEF OutcomeAt, Appending, Status
  <2>4. c = Root => phase # "claimed"
    BY <1>2, <2>1 DEF TellInv, Endings, Replayable
  <2>5. Through(c)' => Through(c)
    BY <1>2, <2>1, <2>4 DEF Through, Appending
  <2> QED
    BY <1>1, <1>2, <2>1, <2>2, <2>3, <2>5 DEF TellStep, PlaceAt
<1> QED
  BY <1>4, <1>5, <1>6, <1>7, <1>8, <1>9 DEF Children

LEMMA RootTells ==
  ASSUME KnownInv, TellInv, Replayable, RootSteps
  PROVE  TellStep(Root)
<1>1. /\ pc \in [Coroutine -> PC] /\ Root \in Coroutine
      /\ pending \in [Coroutine -> Event \cup {NoEvent}] /\ cursors[Root] <= cursors[Root]
      /\ RunInv /\ NeverCompensates
  BY TellTyped, RootIsCoroutine DEF KnownInv, ErrInv
<1>2. /\ run = "up" /\ UNCHANGED <<pos, seen, halting, claimed, cursors>>
      /\ failure' = "none" => failure = "none"
      /\ phase' = "claimed" => phase = "claimed"
  BY DEF RootSteps, RootReturns, RootThrows, RootCompensates, RootFinalizes, RootEnds,
     BodyEnds, Ready, Moves, indexVars
<1>3. \/ pc'[Root] = "ended"
      \/ pc'[Root] = "closing" /\ phase' = "claimed" /\ ~Unaligned(Root)
      \/ pc'[Root] = "turn" /\ pending'[Root].type = "close" /\ ~Unaligned(Root)
  <2>1. ASSUME NEW s, BeginAppend(Root, CloseOf(Root, s))
        PROVE  pc'[Root] = "turn" /\ pending'[Root].type = "close"
    BY <1>1, <2>1 DEF BeginAppend, CloseOf
  <2>2. ASSUME RootReturns PROVE \/ pc'[Root] = "ended"
                                 \/ ~Unaligned(Root) /\ \E s : BeginAppend(Root, CloseOf(Root, s))
    BY <1>1, <2>2 DEF RootReturns, RootEnds
  <2>3. ASSUME RootThrows
        PROVE  \/ pc'[Root] = "ended"
               \/ pc'[Root] = "closing" /\ phase' = "claimed" /\ ~Unaligned(Root)
               \/ ~Unaligned(Root) /\ \E s : BeginAppend(Root, CloseOf(Root, s))
    BY <1>1, <2>3 DEF RootThrows, RootEnds
  <2>4. ASSUME RootFinalizes
        PROVE  \/ pc'[Root] = "ended"
               \/ ~Unaligned(Root) /\ \E s : BeginAppend(Root, CloseOf(Root, s))
    BY <1>1, <2>4 DEF RootFinalizes, RootEnds
  <2>5. ~RootCompensates
    BY <1>1, <1>2 DEF RootCompensates, NeverCompensates
  <2> QED
    BY <2>1, <2>2, <2>3, <2>4, <2>5 DEF RootSteps
<1>4. ~Inside(Root)'
  BY <1>3 DEF Inside, Executes, Appending
<1>5. Through(Root)' => ~Unaligned(Root)
  BY <1>3 DEF Through, Appending
<1> QED
  BY <1>1, <1>2, <1>3, <1>4, <1>5 DEF TellStep, PlaceAt

------------------------------------------------------------------------------
(* Such a step keeps what the journal tells.                               *)

\* What is admitted to the journal is the answer to the call its coroutine stands at,
\* beneath coroutines that wait where the journal leads.
LEMMA AdmittedIsTold ==
  ASSUME KnownInv, Places, NEW c \in Coroutine, Admit(c)
  PROVE  /\ Reached(c)
         /\ pending[c].type = "yield" => Told(c, Len(Written(c)) + 1, pending[c])
<1>1. /\ run = "up" /\ failure = "none" /\ pc[c] = "turn" /\ RunInv
      /\ \A d \in Coroutine : PlaceAt(d)
  BY DEF Admit, Moves, Places, KnownInv
<1>2. Reached(c)
  <2> SUFFICES ASSUME NEW q \in Coroutine, c \in Subtree[q] \ {q}
               PROVE  \E i \in DOMAIN def[q] : ForksAt(q, i, c) /\ PassedBefore(q, i)
    BY DEF Reached
  <2>1. pc[q] = "join" /\ \E k \in At(q).kids : c \in Subtree[k]
    BY <1>1 DEF KnownInv, ControlInv, JoinsWhatRuns, Gone
  <2>2. PassedBefore(q, pos[q]) /\ HasStep(q) /\ At(q).op \in Forking
    BY <1>1, <2>1 DEF PlaceAt, Inside
  <2>3. pos[q] \in DOMAIN def[q] /\ At(q) = def[q][pos[q]]
    BY <1>1, <2>2, AtAStep DEF At
  <2> QED
    BY <2>1, <2>2, <2>3 DEF ForksAt
<1>3. ASSUME pending[c].type = "yield"
      PROVE  Told(c, Len(Written(c)) + 1, pending[c])
  <2>1. Executes(c) /\ Inside(c) /\ KnowsAll(c) /\ pc[c] \in Appending
    BY <1>1, <1>3 DEF Executes, Inside, KnowsAll, Appending
  <2>2. /\ PassedBefore(c, pos[c]) /\ HasStep(c) /\ At(c).op = "call"
        /\ pending[c].name = At(c).name /\ Len(seen[c]) = CallsBefore(c, pos[c])
    BY <1>1, <2>1 DEF PlaceAt
  <2>3. pos[c] \in DOMAIN def[c] /\ At(c) = def[c][pos[c]]
    BY <1>1, <2>2, AtAStep DEF At
  <2>4. ~HasEntry(c) /\ seen[c] = Known(c)
    BY <1>1, <2>1
       DEF KnownInv, HistoryInv, HistoryAt, ReadsBeforeWriting, SeesWhatIsKnown
  <2>5. Len(Written(c)) = CallsBefore(c, pos[c])
    BY <1>1, <2>2, <2>4, KnownIsWritten
  <2> QED
    BY <2>2, <2>3, <2>5 DEF Told
<1> QED
  BY <1>2, <1>3

LEMMA JournalStaysTold ==
  ASSUME RunInv, OwnEvents, JournalIsTold, Grows,
         \A c \in Coroutine : BackendStores(c) => WriteIsTold(c)
  PROVE  JournalIsTold'
<1>1. CASE journal' = journal
  <2>1. \A c \in Coroutine : Written(c)' = Written(c) /\ EventsOf(c)' = EventsOf(c)
    BY <1>1 DEF Written, YieldsIn, EventsOf
  <2> QED
    BY <2>1, ToldStays, ReachedStays DEF JournalIsTold, YieldsAreTold, AllReached
<1>2. ASSUME NEW c \in Coroutine, BackendStores(c) PROVE JournalIsTold'
  <2>1. /\ pending[c] \in Event /\ pending[c].co = c /\ pc[c] = "write"
        /\ DOMAIN journal = 1 .. Len(journal) /\ Len(journal) \in Nat
        /\ DOMAIN journal' = 1 .. (Len(journal) + 1)
        /\ \A i \in 1 .. Len(journal) : journal'[i] = journal[i]
        /\ journal'[Len(journal) + 1] = pending[c]
    BY <1>2, StoreFacts
  <2>2. Reached(c) /\ (pending[c].type = "yield" => Told(c, Len(Written(c)) + 1, pending[c]))
    BY <1>2, <2>1 DEF WriteIsTold
  <2>3. AllReached'
    <3> SUFFICES ASSUME NEW d \in Coroutine, NEW j \in EventsOf(d)' PROVE Reached(d)'
      BY DEF AllReached
    <3>1. j \in EventsOf(d) \/ d = c
      BY <2>1 DEF EventsOf
    <3> QED
      BY <2>2, <3>1, ReachedStays DEF JournalIsTold, AllReached
  <2>4. YieldsAreTold'
    <3> SUFFICES ASSUME NEW d \in Coroutine, NEW n \in 1 .. Len(Written(d)')
                 PROVE  Told(d, n, Written(d)[n])'
      BY DEF YieldsAreTold
    <3>1. Written(d) \in Seq(Event) /\ Len(Written(d)) \in Nat
      BY WrittenType
    <3>2. ASSUME n \in 1 .. Len(Written(d)) PROVE Told(d, n, Written(d)[n])'
      <4>1. Told(d, n, Written(d)[n]) /\ Written(d)'[n] = Written(d)[n]
        BY <3>2, WrittenStays DEF JournalIsTold, YieldsAreTold
      <4>2. PICK e : e = Written(d)[n]
        OBVIOUS
      <4>3. Told(d, n, e)'
        BY <4>1, <4>2, ToldStays
      <4> QED
        BY <4>1, <4>2, <4>3 DEF Told
    <3>3. ASSUME n \notin 1 .. Len(Written(d)) PROVE Told(d, n, Written(d)[n])'
      <4>1. /\ d = c /\ pending[c].type = "yield"
            /\ Written(d)' = Append(Written(d), pending[c])
        BY <1>2, <3>3, JournalGrows DEF Written
      <4>2. /\ Len(Append(Written(d), pending[c])) = Len(Written(d)) + 1
            /\ Append(Written(d), pending[c])[Len(Written(d)) + 1] = pending[c]
        BY ONLY <2>1, <3>1, AppendProperties
      <4>3. n = Len(Written(d)) + 1 /\ Written(d)'[n] = pending[c]
        BY <3>1, <3>3, <4>1, <4>2
      <4>4. PICK e : e = pending[c]
        OBVIOUS
      <4>5. Told(c, n, e)'
        BY <2>2, <4>1, <4>3, <4>4, ToldStays
      <4> QED
        BY <4>1, <4>3, <4>4, <4>5 DEF Told
    <3> QED
      BY <3>2, <3>3
  <2> QED
    BY <2>3, <2>4 DEF JournalIsTold
<1> QED
  BY <1>1, <1>2 DEF Grows

\* What is on its way to the journal stays told while others move.
LEMMA WriteStaysTold ==
  ASSUME RunInv, OwnEvents, Grows, NEW d \in Coroutine, WriteIsTold(d),
         pc'[d] = pc[d], pending'[d] = pending[d], ~BackendStores(d)
  PROVE  WriteIsTold(d)'
<1>1. Written(d)' = Written(d)
  <2>1. CASE journal' = journal
    BY <2>1 DEF Written, YieldsIn
  <2>2. CASE \E c \in Coroutine : BackendStores(c)
    BY <2>2, JournalGrows DEF Written
  <2> QED
    BY <2>1, <2>2 DEF Grows
<1>2. PICK n, e : n = Len(Written(d)) + 1 /\ e = pending[d]
  OBVIOUS
<1>3. Told(d, n, e) => Told(d, n, e)'
  BY ToldStays
<1>4. Told(d, n, e)' => Told(d, Len(Written(d)) + 1, pending[d])'
  BY <1>1, <1>2 DEF Told
<1> QED
  BY <1>2, <1>3, <1>4, ReachedStays DEF WriteIsTold

LEMMA AlignedStays ==
  ASSUME RunInv, indexed' = indexed, NEW d \in Coroutine,
         Yields(d)' = Yields(d), WasClosed(d)' <=> WasClosed(d),
         cursors[d] <= cursors'[d], cursors'[d] \in Nat, claimed \subseteq claimed', AlignedAt(d)
  PROVE  AlignedAt(d)'
<1>1. cursors[d] \in Nat /\ Len(Yields(d)) \in Nat
  BY Typed, HistoryTyped
<1> QED
  BY <1>1 DEF AlignedAt

LEMMA StepKeepsTell ==
  ASSUME KnownInv, TellInv, Replayable, RunInv',
         NEW c \in Coroutine, StepOf(c), LeafStep(c), TellStep(c)
  PROVE  TellInv'
<1>1. /\ RunInv /\ OwnEvents /\ disabled = {} /\ run = "up" /\ run' = "up" /\ def' = def
      /\ indexed' = indexed /\ JournalIsTold
      /\ journal' = journal \/ BackendStores(c)
      /\ failure' = "none" => failure = "none"
  BY DEF KnownInv, ControlInv, LeafInv, ReplayIsOn, TellInv, StepOf, LeafStep
<1>2. Grows
  BY <1>1 DEF Grows
<1>3. \A d \in Coroutine \ {c} :
        /\ pc'[d] = pc[d] /\ pos'[d] = pos[d] /\ pending'[d] = pending[d]
        /\ seen'[d] = seen[d] /\ outcome'[d] = outcome[d] /\ cursors'[d] = cursors[d]
  BY DEF StepOf, LeafStep, TellStep
<1>4. \A d \in Coroutine : BackendStores(d) => d = c
  <2> SUFFICES ASSUME NEW d \in Coroutine, BackendStores(d), d # c PROVE FALSE
    OBVIOUS
  <2>1. pc[d] = "write" /\ pc'[d] = "stored"
    BY <1>1, StoreFacts
  <2> QED
    BY <1>3, <2>1
<1>5. \A d \in Coroutine : BackendStores(d) => WriteIsTold(d)
  BY <1>1 DEF TellInv, WritesAreTold
<1>6. JournalIsTold'
  BY <1>1, <1>2, <1>5, JournalStaysTold
<1>7. WritesAreTold'
  <2> SUFFICES ASSUME NEW d \in Coroutine PROVE WriteIsTold(d)'
    BY DEF WritesAreTold
  <2>1. CASE d # c
    BY <1>1, <1>2, <1>3, <1>4, <2>1, WriteStaysTold DEF TellInv, WritesAreTold
  <2>2. CASE d = c
    <3> SUFFICES ASSUME Admit(c) PROVE WriteIsTold(c)'
      BY <2>2 DEF WriteIsTold, TellStep
    <3>1. /\ Reached(c)
          /\ pending[c].type = "yield" => Told(c, Len(Written(c)) + 1, pending[c])
      BY AdmittedIsTold DEF TellInv
    <3>2. UNCHANGED <<journal, def, pending>>
      BY DEF Admit
    <3>3. Reached(c)'
      BY <1>1, <1>2, <3>1, ReachedStays
    <3>4. PICK n, e : n = Len(Written(c)) + 1 /\ e = pending[c]
      OBVIOUS
    <3>5. Told(c, n, e) => Told(c, n, e)'
      BY <1>1, <1>2, ToldStays
    <3>6. Told(c, n, e)' => Told(c, Len(Written(c)) + 1, pending[c])'
      BY <3>2, <3>4 DEF Told, Written, YieldsIn
    <3> QED
      BY <3>1, <3>2, <3>3, <3>4, <3>5, <3>6 DEF WriteIsTold
  <2> QED
    BY <2>1, <2>2
<1>8. Places'
  <2> SUFFICES ASSUME failure' = "none", NEW d \in Coroutine PROVE PlaceAt(d)'
    BY DEF Places
  <2>1. CASE d # c
    <3>1. Known(d)' = Known(d)
      BY <1>1, <1>2, <1>3, <1>4, <2>1, KnownStays
    <3> QED
      BY <1>1, <1>2, <1>3, <2>1, <3>1, PlaceStays DEF TellInv, Places
  <2> QED
    BY <2>1 DEF TellStep
<1>9. IdleAtStart'
  BY <1>1, <1>3 DEF StepOf, TellInv, IdleAtStart
<1>10. KidsBegan'
  <2> SUFFICES ASSUME failure' = "none", NEW d \in Coroutine, NEW i \in DOMAIN def[d],
                      def[d][i].op \in Forking,
                      (i < pos[d] \/ (i = pos[d] /\ pc[d] \in {"join", "threw"}))',
                      NEW k \in def[d][i].kids
               PROVE  pc'[k] # "idle"
    BY <1>1 DEF KidsBegan
  <2>1. k \in Coroutine
    BY <1>1, KidsAreBeneath
  <2>2. pc[k] # "idle" => pc'[k] # "idle"
    BY <1>3, <2>1 DEF StepOf
  <2>3. CASE i < pos[d] \/ (i = pos[d] /\ pc[d] \in {"join", "threw"})
    BY <1>1, <2>2, <2>3 DEF TellInv, KidsBegan
  <2>4. CASE ~(i < pos[d] \/ (i = pos[d] /\ pc[d] \in {"join", "threw"}))
    <3>1. d = c
      BY <1>3, <2>4
    <3>2. i \in Nat /\ pos[c] \in Nat /\ pos'[c] \in {pos[c], pos[c] + 1}
          /\ (pc'[c] = "join" => pc[c] = "join" /\ pos'[c] = pos[c])
          /\ (pc'[c] = "threw" => pos'[c] = pos[c])
      BY <1>1, <3>1, Typed, LenProperties DEF StepOf, TellStep
    <3>3. i = pos[c] /\ (pos'[c] # pos[c] \/ pc'[c] = "threw")
      BY <2>4, <3>1, <3>2
    <3>4. Calls(c) \/ Stored(c)
      BY <2>4, <3>1, <3>3 DEF TellStep
    <3>5. At(c).op = "call"
      BY <1>1, <3>4 DEF Calls, TellInv, Places, PlaceAt, Inside, Executes, Stored, Appending
    <3> QED
      BY <3>1, <3>3, <3>5 DEF At, Forking
  <2> QED
    BY <2>3, <2>4
<1>11. EndedAligned'
  <2> SUFFICES ASSUME failure' = "none", NEW d \in Coroutine, Through(d)', NEW b \in Subtree[d]
               PROVE  AlignedAt(b)'
    BY DEF EndedAligned
  <2>1. b \in Coroutine /\ cursors[b] \in Nat /\ cursors'[b] \in Nat
    BY <1>1, TreeAssumption, Typed DEF RunInv, TypeOK, IndexTypeOK
  <2>2. AlignedAt(b)
    <3>1. CASE Through(d)
      BY <1>1, <3>1 DEF TellInv, EndedAligned
    <3>2. CASE ~Through(d)
      <4>1. d = c
        BY <1>3, <3>2 DEF Through, StepOf
      <4>2. ~Unaligned(c)
        BY <3>2, <4>1 DEF TellStep
      <4>3. Len(Yields(b)) \in Nat
        BY <1>1, <2>1, HistoryTyped
      <4> QED
        BY <1>1, <2>1, <4>1, <4>2, <4>3 DEF Unaligned, AlignedAt
    <3> QED
      BY <3>1, <3>2
  <2>3. Yields(b)' = Yields(b)
    <3>1. CASE journal' = journal
      BY <1>1, <3>1 DEF Yields, Retained, YieldsIn
    <3> QED
      BY <1>1, <2>1, <3>1, JournalGrows
  <2>4. WasClosed(b)' <=> WasClosed(b)
    BY <1>1, <2>1, ClosesFacts
  <2>5. cursors[b] <= cursors'[b] /\ claimed \subseteq claimed'
    BY <1>3, <2>1 DEF TellStep
  <2> QED
    BY <1>1, <2>1, <2>2, <2>3, <2>4, <2>5, AlignedStays
<1>12. Outcomed'
  <2> SUFFICES ASSUME failure' = "none", NEW d \in Coroutine \ {Root} PROVE OutcomeAt(d)'
    BY DEF Outcomed
  <2>1. CASE d # c
    <3>1. OutcomeAt(d)
      BY <1>1 DEF TellInv, Outcomed
    <3>2. \A s : ClosedAs(d, s) => ClosedAs(d, s)'
      BY <1>1, <1>2, ClosedStays
    <3>3. PICK s : s = outcome[d]
      OBVIOUS
    <3>4. ClosedAs(d, s)' => ClosedAs(d, outcome[d])'
      BY <1>3, <2>1, <3>3 DEF ClosedAs
    <3> QED
      BY <1>3, <2>1, <3>1, <3>2, <3>3, <3>4 DEF OutcomeAt, CloseOf
  <2> QED
    BY <2>1 DEF TellStep
<1>13. Endings'
  <2>1. Endings
    BY DEF TellInv
  <2>2. \A d \in Coroutine \ {Root} :
          pc'[d] = "closing" /\ outcome'[d] = "cancelled" => d \in halting'
    BY <1>1, <1>3, <2>1 DEF Endings, TellStep
  <2>3. pc'[Root] = "closing" /\ ~MayHalt => phase' = "claimed"
    <3>1. CASE c = Root
      BY <1>1, <2>1, <3>1 DEF Endings, TellStep
    <3>2. CASE c # Root
      BY <1>1, <1>3, <2>1, <3>2, RootIsCoroutine DEF Endings, StepOf
    <3> QED
      BY <3>1, <3>2
  <2> QED
    BY <1>1, <2>1, <2>2, <2>3 DEF Endings, TellStep
<1> QED
  BY <1>6, <1>7, <1>8, <1>9, <1>10, <1>11, <1>12, <1>13 DEF TellInv

------------------------------------------------------------------------------
(* A combinator begins, a process begins.                                  *)

\* A coroutine that starts was given nothing, and nothing is asked of the journal.
LEMMA FreshPlace ==
  ASSUME RunInv', NEW c \in Coroutine, pc'[c] = "ready", pos'[c] = 1, seen'[c] = <<>>
  PROVE  PlaceAt(c)'
<1>1. DOMAIN def'[c] \subseteq Nat \ {0}
  <2>1. def'[c] \in Seq(Step)
    BY DefinitionAssumption DEF RunInv, TypeOK
  <2>2. DOMAIN def'[c] = 1 .. Len(def'[c]) /\ Len(def'[c]) \in Nat
    BY <2>1, LenProperties
  <2> QED
    BY <2>2
<1>2. CallsAt(c, pos[c])' = {} /\ PassedBefore(c, pos[c])'
  BY <1>1 DEF CallsAt, PassedBefore
<1>3. CallsBefore(c, pos[c])' = 0
  BY <1>2, FS_EmptySet DEF CallsBefore
<1>4. Len(seen'[c]) = 0
  BY EmptySeq
<1> QED
  BY <1>2, <1>3, <1>4 DEF PlaceAt, Executes, Appending

\* Restoring a closed child reaches all that is retained beneath it.
LEMMA RestoredIsAligned ==
  ASSUME KnownInv, RunInv', NEW c \in Coroutine, Fork(c), NEW k \in At(c).kids,
         k \in Coroutine, HasClose(k), NEW b \in Subtree[k]
  PROVE  AlignedAt(b)'
<1>1. /\ RunInv /\ UNCHANGED <<journal, indexed, cursors>> /\ b \in Coroutine
      /\ claimed' = claimed \cup UNION {ClaimSet(d) : d \in At(c).kids}
      /\ WasClosed(k)
  BY TreeAssumption DEF KnownInv, Fork, ClaimAll, HasClose
<1>2. (WasClosed(b)' <=> WasClosed(b)) /\ Yields(b)' = Yields(b)
  BY <1>1 DEF WasClosed, RetainedCloses, Yields, Retained, YieldsIn
<1>3. CASE WasClosed(b)
  <2>1. b \in ClaimSet(k)
    BY <1>1, <1>3 DEF ClaimSet, WasRetained
  <2> QED
    BY <1>1, <1>2, <1>3, <2>1 DEF AlignedAt
<1>4. CASE ~WasClosed(b)
  <2>1. b # k
    BY <1>1, <1>4
  <2>2. PICK i \in 1 .. indexed : journal[i].type = "close" /\ journal[i].co = k
    BY <1>1 DEF WasClosed, RetainedCloses
  <2>3. /\ indexed \in Nat /\ Len(journal) \in Nat /\ indexed <= Len(journal)
        /\ DOMAIN journal = 1 .. Len(journal)
    BY <1>1, Typed, LenProperties
  <2>4. i \in ClosesOf(k)
    BY <2>2, <2>3 DEF ClosesOf
  <2>5. ASSUME NEW j \in EventsOf(b) PROVE FALSE
    <3>1. PICK m \in ClosesOf(b) : m < i
      BY <2>1, <2>4, <2>5 DEF EventsOf, KnownInv, LeafInv, LeafFirst
    <3>2. m \in 1 .. indexed /\ journal[m].type = "close" /\ journal[m].co = b
      BY <2>3, <3>1 DEF ClosesOf
    <3> QED
      BY <1>4, <3>2 DEF WasClosed, RetainedCloses
  <2>6. Yields(b) = <<>>
    BY <1>1, <2>5, NothingRetained
  <2>7. Len(<<>>) = 0
    BY EmptySeq
  <2> QED
    BY <1>1, <1>2, <1>4, <2>6, <2>7, Typed DEF AlignedAt
<1> QED
  BY <1>3, <1>4

\* A restored child has the outcome it closed with.
LEMMA RestoredOutcome ==
  ASSUME KnownInv, NEW c \in Coroutine, Fork(c), NEW k \in At(c).kids, k \in Coroutine \ {c}
  PROVE  OutcomeAt(k)'
<1>1. /\ RunInv /\ UNCHANGED <<journal, indexed>>
      /\ journal \in Seq(Event) /\ indexed \in Nat /\ indexed <= Len(journal)
      /\ Len(journal) \in Nat /\ DOMAIN journal = 1 .. Len(journal)
  BY Typed, LenProperties DEF KnownInv, Fork, ClaimAll
<1>2. pc'[k] = IF Restores(k, "cancelled") THEN "parked"
               ELSE IF HasClose(k) THEN "ended" ELSE "ready"
  BY DEF Fork
<1>3. outcome'[k] = IF Restores(k, "ok") THEN "ok"
                    ELSE IF Restores(k, "err") THEN "err" ELSE "none"
  BY DEF Fork
<1>4. \A s : Restores(k, s) => s \in Status /\ ClosedAs(k, s)'
  <2> SUFFICES ASSUME NEW s, Restores(k, s) PROVE s \in Status /\ ClosedAs(k, s)'
    OBVIOUS
  <2>1. PICK i \in 1 .. indexed :
          journal[i].type = "close" /\ journal[i].co = k /\ journal[i].status = s
    BY DEF Restores, RetainedCloses
  <2>2. i \in DOMAIN journal /\ journal[i] \in Event
    BY <1>1, ElementOfSeq
  <2> QED
    BY <1>1, <2>1, <2>2 DEF Event, ClosedAs, ClosesOf
<1>5. HasClose(k) => \E s : Restores(k, s)
  BY DEF HasClose, WasClosed, Restores
<1>6. ASSUME pc'[k] = "ended" PROVE outcome'[k] \in Status /\ ClosedAs(k, outcome[k])'
  <2>1. HasClose(k) /\ ~Restores(k, "cancelled")
    BY <1>2, <1>6
  <2>2. Restores(k, "ok") \/ Restores(k, "err")
    BY <1>4, <1>5, <2>1 DEF Status
  <2>3. Restores(k, outcome'[k])
    BY <1>3, <2>2
  <2>4. PICK s : s = outcome'[k]
    OBVIOUS
  <2>5. s \in Status /\ ClosedAs(k, s)'
    BY <1>4, <2>3, <2>4
  <2> QED
    BY <2>4, <2>5 DEF ClosedAs
<1>7. pc'[k] = "parked" => ClosedAs(k, "cancelled")'
  BY <1>2, <1>4
<1>8. pc'[k] \notin Appending
  BY <1>2 DEF Appending
<1> QED
  BY <1>6, <1>7, <1>8 DEF OutcomeAt

LEMMA ForkKeepsTell ==
  ASSUME KnownInv, TellInv, Replayable, RunInv', NEW c \in Coroutine, Fork(c)
  PROVE  TellInv'
<1>1. /\ run = "up" /\ pc[c] = "ready" /\ pc'[c] = "join" /\ pos[c] \in DOMAIN def[c]
      /\ \A k \in At(c).kids : pc[k] = "idle" /\ k \in Coroutine \ {c}
      /\ \A k \in At(c).kids :
           IF HasClose(k) THEN pc'[k] \in {"parked", "ended"} ELSE pc'[k] = "ready"
      /\ \A d \in Coroutine \ {c} : d \notin At(c).kids => pc'[d] = pc[d]
      /\ UNCHANGED <<journal, indexed, cursors, disabled, run, def, pos, pending,
                     failure, root, seen>>
  BY ForkFacts DEF KnownInv, ControlInv
<1>2. /\ RunInv /\ OwnEvents /\ Grows /\ phase' = phase /\ halting' = halting
      /\ At(c).op \in Forking /\ HasStep(c) /\ claimed \subseteq claimed'
  BY <1>1 DEF KnownInv, ControlInv, Grows, root, Fork, Forks, ClaimAll, Forking
<1>3. \A d \in Coroutine : d \notin At(c).kids => outcome'[d] = outcome[d]
  BY DEF Fork
<1>4. \A d \in Coroutine : BackendStores(d) => WriteIsTold(d)
  BY <1>1 DEF TellInv, WritesAreTold
<1>5. JournalIsTold'
  BY <1>2, <1>4, JournalStaysTold DEF TellInv
<1>6. WritesAreTold'
  <2> SUFFICES ASSUME NEW d \in Coroutine, pc'[d] = "write" PROVE WriteIsTold(d)'
    BY DEF WritesAreTold, WriteIsTold
  <2>1. pc[d] = "write"
    BY <1>1
  <2>2. ~BackendStores(d)
    BY <1>2, StoreFacts
  <2> QED
    BY <1>1, <1>2, <2>1, <2>2, WriteStaysTold DEF TellInv, WritesAreTold
<1>7. Places'
  <2> SUFFICES ASSUME failure = "none", NEW d \in Coroutine PROVE PlaceAt(d)'
    BY <1>1 DEF Places
  <2>1. PlaceAt(d)
    BY <1>1 DEF TellInv, Places
  <2>2. CASE d = c
    <3>1. PassedBefore(c, pos[c]) /\ Len(seen[c]) = CallsBefore(c, pos[c])
      BY <1>1, <2>1, <2>2 DEF PlaceAt, Inside
    <3>2. /\ HasStep(c)' /\ At(c)' = At(c) /\ CallsBefore(c, pos[c])' = CallsBefore(c, pos[c])
      BY <1>1, <1>2 DEF HasStep, At, CallsBefore, CallsAt
    <3>3. PICK n : n = pos[c]
      OBVIOUS
    <3>4. PassedBefore(c, n)'
      BY <1>2, <3>1, <3>3, PassedBeforeStays
    <3>5. PassedBefore(c, pos[c])'
      BY <1>1, <3>3, <3>4 DEF PassedBefore
    <3> QED
      BY <1>1, <1>2, <2>2, <3>1, <3>2, <3>5 DEF PlaceAt, Executes, Appending
  <2>3. CASE d \in At(c).kids
    <3>1. CASE pc'[d] = "ready"
      BY <1>1, <2>3, <3>1, FreshPlace DEF TellInv, IdleAtStart
    <3>2. CASE pc'[d] \in {"parked", "ended"}
      BY <3>2 DEF PlaceAt, Inside, Executes, Appending
    <3> QED
      BY <1>1, <2>3, <3>1, <3>2
  <2>4. CASE d # c /\ d \notin At(c).kids
    <3>1. Known(d)' = Known(d)
      BY <1>1 DEF Known, Yields, Appended, Retained, YieldsIn
    <3> QED
      BY <1>1, <1>2, <2>1, <2>4, <3>1, PlaceStays
  <2> QED
    BY <2>2, <2>3, <2>4
<1>8. IdleAtStart'
  BY <1>1 DEF TellInv, IdleAtStart
<1>9. KidsBegan'
  <2> SUFFICES ASSUME failure = "none", NEW d \in Coroutine, NEW i \in DOMAIN def[d],
                      def[d][i].op \in Forking,
                      (i < pos[d] \/ (i = pos[d] /\ pc[d] \in {"join", "threw"}))',
                      NEW k \in def[d][i].kids
               PROVE  pc'[k] # "idle"
    BY <1>1 DEF KidsBegan
  <2>1. k \in Coroutine
    BY <1>2, KidsAreBeneath
  <2>2. pc[k] # "idle" => pc'[k] # "idle"
    BY <1>1, <2>1
  <2>3. CASE i < pos[d] \/ (i = pos[d] /\ pc[d] \in {"join", "threw"})
    BY <1>1, <2>2, <2>3 DEF TellInv, KidsBegan
  <2>4. CASE ~(i < pos[d] \/ (i = pos[d] /\ pc[d] \in {"join", "threw"}))
    <3>1. d = c /\ i = pos[c]
      BY <1>1, <2>4
    <3> QED
      BY <1>1, <3>1 DEF At
  <2> QED
    BY <2>3, <2>4
<1>10. EndedAligned'
  <2> SUFFICES ASSUME failure = "none", NEW d \in Coroutine, Through(d)', NEW b \in Subtree[d]
               PROVE  AlignedAt(b)'
    BY <1>1 DEF EndedAligned
  <2>1. d # c
    BY <1>1 DEF Through, Appending
  <2>2. CASE d \in At(c).kids
    <3>1. HasClose(d)
      BY <1>1, <2>2 DEF Through, Appending
    <3> QED
      BY <1>1, <2>2, <3>1, RestoredIsAligned
  <2>3. CASE d \notin At(c).kids
    <3>1. Through(d)
      BY <1>1, <1>2, <1>3, <2>1, <2>3 DEF Through
    <3>2. b \in Coroutine /\ AlignedAt(b)
      BY <1>1, <3>1, TreeAssumption DEF TellInv, EndedAligned
    <3>3. cursors[b] \in Nat /\ cursors[b] <= cursors'[b] /\ cursors'[b] \in Nat
      BY <1>1, <1>2, <3>2, Typed
    <3>4. (WasClosed(b)' <=> WasClosed(b)) /\ Yields(b)' = Yields(b)
      BY <1>1 DEF WasClosed, RetainedCloses, Yields, Retained, YieldsIn
    <3> QED
      BY <1>1, <1>2, <3>2, <3>3, <3>4, AlignedStays
  <2> QED
    BY <2>2, <2>3
<1>11. Outcomed'
  <2> SUFFICES ASSUME failure = "none", NEW d \in Coroutine \ {Root} PROVE OutcomeAt(d)'
    BY <1>1 DEF Outcomed
  <2>1. CASE d = c
    BY <1>1, <2>1 DEF OutcomeAt, Appending
  <2>2. CASE d \in At(c).kids
    BY <1>1, <2>2, RestoredOutcome
  <2>3. CASE d # c /\ d \notin At(c).kids
    <3>1. OutcomeAt(d) /\ pc'[d] = pc[d] /\ outcome'[d] = outcome[d] /\ pending' = pending
      BY <1>1, <1>3, <2>3 DEF TellInv, Outcomed
    <3>2. /\ ClosedAs(d, "cancelled") => ClosedAs(d, "cancelled")'
          /\ ClosedAs(d, outcome[d]) => ClosedAs(d, outcome[d])'
      BY <1>1, <3>1 DEF ClosedAs, ClosesOf
    <3> QED
      BY <3>1, <3>2 DEF OutcomeAt, CloseOf
  <2> QED
    BY <2>1, <2>2, <2>3
<1>12. Endings'
  <2>1. ASSUME NEW d \in Coroutine, pc'[d] = "closing"
        PROVE  pc[d] = "closing" /\ outcome'[d] = outcome[d]
    BY <1>1, <1>3, <2>1
  <2> QED
    BY <1>1, <1>2, <2>1, RootIsCoroutine DEF TellInv, Endings
<1> QED
  BY <1>5, <1>6, <1>7, <1>8, <1>9, <1>10, <1>11, <1>12 DEF TellInv

\* Steps that only claim the root or mark coroutines as halting.
LEMMA OutsideKeepsTell ==
  ASSUME KnownInv, TellInv, Replayable,
         RequestInterruption \/ Halt \/ UNCHANGED vars
  PROVE  TellInv'
<1>1. /\ UNCHANGED <<journal, indexed, cursors, claimed, run, def, pc, pos, pending,
                     outcome, failure, seen>>
      /\ halting \subseteq halting'
  BY DEF RequestInterruption, Halt, vars, indexVars
<1>2. Grows
  BY <1>1 DEF Grows
<1>3. /\ phase' = phase \/ (phase = "open" /\ phase' = "claimed" /\ MayStop /\ run = "up")
      /\ Root \in halting' => Root \in halting \/ MayHalt
      /\ phase' # phase => halting' = halting
  BY DEF RequestInterruption, Halt, vars, root
<1>4. \A d \in Coroutine : ~BackendStores(d)
  <2> SUFFICES ASSUME NEW d \in Coroutine, BackendStores(d) PROVE FALSE
    OBVIOUS
  <2>1. pc[d] = "write" /\ pc'[d] = "stored"
    BY StoreFacts DEF KnownInv, ControlInv
  <2> QED
    BY <1>1, <2>1
<1>5. RunInv /\ OwnEvents
  BY DEF KnownInv, ControlInv
<1>6. JournalIsTold'
  BY <1>2, <1>4, <1>5, JournalStaysTold DEF TellInv
<1>7. WritesAreTold'
  BY <1>1, <1>2, <1>4, <1>5, WriteStaysTold DEF TellInv, WritesAreTold
<1>8. Places'
  <2>1. \A d \in Coroutine : Known(d)' = Known(d)
    BY <1>1 DEF Known, Yields, Appended, Retained, YieldsIn
  <2> QED
    BY <1>1, <1>2, <1>5, <2>1, PlaceStays DEF TellInv, Places
<1>9. IdleAtStart' /\ KidsBegan'
  BY <1>1 DEF TellInv, IdleAtStart, KidsBegan
<1>10. EndedAligned'
  <2> SUFFICES ASSUME run = "up", failure = "none", NEW d \in Coroutine, Through(d)',
                      NEW b \in Subtree[d]
               PROVE  AlignedAt(b)'
    BY <1>1 DEF EndedAligned
  <2>1. Through(d)
    BY <1>1, <1>3 DEF Through, TellInv, Endings, Replayable
  <2>2. b \in Coroutine /\ AlignedAt(b)
    BY <2>1, TreeAssumption DEF TellInv, EndedAligned
  <2> QED
    BY <1>1, <2>2 DEF AlignedAt, WasClosed, RetainedCloses, Yields, Retained, YieldsIn
<1>11. Outcomed'
  BY <1>1 DEF TellInv, Outcomed, OutcomeAt, ClosedAs, ClosesOf
<1>12. Endings'
  BY <1>1, <1>3 DEF TellInv, Endings
<1> QED
  BY <1>6, <1>7, <1>8, <1>9, <1>10, <1>11, <1>12 DEF TellInv

LEMMA ProcessesKeepTell ==
  ASSUME KnownInv, TellInv, Replayable, RunInv', Start \/ Restore \/ Crash
  PROVE  TellInv'
<1>1. /\ journal' = journal /\ RunInv /\ OwnEvents
      /\ def \in Definition /\ def' \in Definition
  BY DEF Start, Restore, Crash, KnownInv, ControlInv, RunInv, TypeOK
<1>2. Grows
  BY <1>1 DEF Grows, Replayable, OneDefinition
<1>3. \A d \in Coroutine : BackendStores(d) => WriteIsTold(d)
  BY DEF BackendStores, Moves, TellInv, WritesAreTold
<1>4. JournalIsTold'
  BY <1>1, <1>2, <1>3, JournalStaysTold DEF TellInv
<1>5. ASSUME Restore \/ Crash PROVE TellInv'
  <2>1. run' # "up"
    BY <1>5 DEF Restore, Crash
  <2> QED
    BY <1>4, <2>1 DEF TellInv, WritesAreTold, Places, IdleAtStart, KidsBegan, EndedAligned,
       Outcomed, Endings
<1>6. ASSUME Start PROVE TellInv'
  <2>1. /\ pc' = [c \in Coroutine |-> IF c = Root THEN "ready" ELSE "idle"]
        /\ pos' = [c \in Coroutine |-> 1]
        /\ seen' = [c \in Coroutine |-> <<>>]
        /\ halting' = {} /\ phase' = "open"
    BY <1>6 DEF Start, ForgetRun
  <2>2. WritesAreTold' /\ IdleAtStart' /\ Endings'
    BY <2>1, RootIsCoroutine DEF WritesAreTold, WriteIsTold, IdleAtStart, Endings
  <2>3. EndedAligned' /\ Outcomed'
    BY <2>1 DEF EndedAligned, Outcomed, OutcomeAt, Through, Appending
  <2>4. Places'
    <3> SUFFICES ASSUME NEW d \in Coroutine PROVE PlaceAt(d)'
      BY DEF Places
    <3>1. CASE d = Root
      BY <2>1, <3>1, FreshPlace
    <3>2. CASE d # Root
      BY <2>1, <3>2 DEF PlaceAt, Inside, Executes, Appending
    <3> QED
      BY <3>1, <3>2
  <2>5. KidsBegan'
    <3> SUFFICES ASSUME NEW d \in Coroutine, NEW i \in DOMAIN def[d],
                        (i < pos[d] \/ (i = pos[d] /\ pc[d] \in {"join", "threw"}))'
                 PROVE  FALSE
      BY <1>2 DEF KidsBegan, Grows
    <3>1. i \in Nat \ {0}
      BY <1>1, Typed, LenProperties
    <3> QED
      BY <2>1, <3>1
  <2> QED
    BY <1>4, <2>2, <2>3, <2>4, <2>5 DEF TellInv
<1> QED
  BY <1>5, <1>6

LEMMA TellKept ==
  ASSUME Replayable
  PROVE  KnownInv /\ KnownInv' /\ TellInv /\ [Next]_vars => TellInv'
<1> SUFFICES ASSUME KnownInv, KnownInv', TellInv, [Next]_vars PROVE TellInv'
  OBVIOUS
<1>1. RunInv /\ RunInv' /\ HistoryInv' /\ Refusable = {}
  BY DEF KnownInv, Replayable
<1>2. ASSUME RootSteps PROVE TellInv'
  <2>1. NeverCompensates
    BY DEF KnownInv, ErrInv
  <2> QED
    BY <1>1, <1>2, <2>1, RootIsCoroutine, RootStepsAreSteps, RootStepsAreLeafSteps, RootTells,
       StepKeepsTell
<1>3. ASSUME NEW c \in Coroutine, Effects(c) PROVE TellInv'
  BY <1>1, <1>3, EffectsAreSteps, EffectsAreLeafSteps, EffectsTell, StepKeepsTell
<1>4. ASSUME NEW c \in Coroutine, Appends(c) PROVE TellInv'
  BY <1>1, <1>4, AppendsAreSteps, AppendsAreLeafSteps, AppendsTell, StepKeepsTell
<1>5. ASSUME NEW c \in Coroutine, Children(c) PROVE TellInv'
  BY <1>1, <1>5, ChildrenAreSteps, ChildrenAreLeafSteps, ChildrenTell, StepKeepsTell,
     ForkKeepsTell
<1> QED
  BY <1>1, <1>2, <1>3, <1>4, <1>5, OutsideKeepsTell, ProcessesKeepTell
     DEF Next, Progress, Finished

LEMMA TellInit ==
  ASSUME Init
  PROVE  TellInv
<1>1. \A c \in Coroutine : Written(c) = <<>> /\ EventsOf(c) = {}
  BY PickedEmpty DEF Init, IndexInit, Written, YieldsIn, EventsOf
<1>2. \A c \in Coroutine : Len(Written(c)) = 0
  BY <1>1, EmptySeq
<1>3. JournalIsTold
  BY <1>1, <1>2 DEF JournalIsTold, YieldsAreTold, AllReached
<1>4. run = "down"
  BY DEF Init
<1> QED
  BY <1>3, <1>4 DEF TellInv, WritesAreTold, Places, IdleAtStart, KidsBegan, EndedAligned,
     Outcomed, Endings

LEMMA KnownInit ==
  ASSUME RunInv, ControlInv, ErrInv, HistoryInv, Init
  PROVE  KnownInv
  BY LeafInit DEF KnownInv

LEMMA KnownKept ==
  ASSUME Replayable, KnownInv, TellInv, [Next]_vars,
         RunInv', ControlInv', ErrInv', HistoryInv'
  PROVE  KnownInv' /\ TellInv'
<1>1. \A c \in Coroutine : ~RunLive(c)
  BY NothingRunsLive
<1>2. KnownInv'
  BY <1>1, LeafKept DEF KnownInv, Replayable
<1> QED
  BY <1>2, TellKept

LEMMA TellInvariant ==
  ASSUME Replayable
  PROVE  Spec => [](KnownInv /\ TellInv)
<1>1. RunInv /\ ControlInv /\ ErrInv /\ HistoryInv /\ Init => KnownInv /\ TellInv
  BY KnownInit, TellInit
<1>2. /\ RunInv' /\ ControlInv' /\ ErrInv' /\ HistoryInv'
      /\ KnownInv /\ TellInv /\ [Next]_vars
      => (KnownInv /\ TellInv)'
  BY KnownKept
<1>3. Spec => []ErrInv
  BY ErrInvariant DEF Replayable
<1> QED
  BY <1>1, <1>2, <1>3, RunInvariant, ControlInvariant, HistoryInvariant, PTL DEF Spec

------------------------------------------------------------------------------
(* No replay diverges.                                                     *)

LEMMA OnlyHalted ==
  ASSUME KnownInv, TellInv, Replayable, [Next]_vars, failure = "none", failure' = "divergence"
  PROVE  \E c \in halting \ {Root} : pc[c] = "closing" /\ pc'[c] = "ended"
<1>1. ASSUME run = "up"
      PROVE  \A c \in Coroutine :
               /\ Calls(c) => ~Mismatch(c)
               /\ BodyEnds(c) => ~Unaligned(c)
  <2> SUFFICES ASSUME NEW c \in Coroutine
               PROVE  /\ Calls(c) => ~Mismatch(c)
                      /\ BodyEnds(c) => ~Unaligned(c)
    OBVIOUS
  <2>1. PlaceAt(c)
    BY <1>1 DEF TellInv, Places
  <2> QED
    BY <1>1, <2>1, CallsAgree, EndsAligned DEF TellInv
<1>2. ASSUME NEW c \in Coroutine, Effects(c) PROVE FALSE
  <2>1. Diverge(c)
    BY <1>2 DEF Effects, CallRefused, Replay, ReplayStale, RunLive, GoLive, Execute,
       ExecuteTooLate
  <2>2. Calls(c) /\ Mismatch(c) /\ run = "up"
    BY <2>1 DEF Diverge, Calls, Ready, Moves
  <2> QED
    BY <1>1, <2>2
<1>3. ASSUME NEW c \in Coroutine, Appends(c) PROVE FALSE
  BY <1>3 DEF Appends, Admit, RefuseAdmission, GateRefuses, BackendStores, BackendFailed,
     AckYield, AckClose
<1>4. ASSUME NEW c \in Coroutine, Children(c)
      PROVE  \E d \in halting \ {Root} : pc[d] = "closing" /\ pc'[d] = "ended"
  <2>1. ChildEnds(c) \/ CancelledUnaligned(c)
    BY <1>4 DEF Children, Fork, ChildEndsUnclosed, CloseChild, Decide, Join, Unwind
  <2>2. ~ChildEnds(c)
    <3> SUFFICES ASSUME ChildEnds(c) PROVE FALSE
      OBVIOUS
    <3>1. BodyEnds(c) /\ Unaligned(c) /\ run = "up"
      BY DEF ChildEnds, BodyEnds, Ready, Moves
    <3> QED
      BY <1>1, <3>1
  <2>3. /\ run = "up" /\ c # Root /\ pc[c] = "closing" /\ outcome[c] = "cancelled"
        /\ pc'[c] = "ended"
    BY <2>1, <2>2, TellTyped DEF CancelledUnaligned, KnownInv
  <2> QED
    BY <2>3 DEF TellInv, Endings
<1>5. ASSUME RootSteps PROVE FALSE
  <2>1. run = "up" /\ Root \in Coroutine
    BY <1>5, RootIsCoroutine DEF RootSteps, RootReturns, RootThrows, RootCompensates,
       RootFinalizes, BodyEnds, Ready, Moves
  <2>2. ~RootReturns /\ ~RootThrows
    BY <1>1, <2>1 DEF RootReturns, RootThrows
  <2>3. RootFinalizes
    BY <1>5, <2>2 DEF RootSteps, RootCompensates
  <2>4. pc[Root] = "closing" /\ phase = "claimed" /\ Unaligned(Root)
    BY <2>3 DEF RootFinalizes
  <2>5. \A d \in Subtree[Root] : AlignedAt(d)
    BY <2>1, <2>4 DEF TellInv, EndedAligned, Through
  <2>6. \A d \in Coroutine : cursors[d] \in Nat /\ Len(Yields(d)) \in Nat
    BY Typed, HistoryTyped DEF KnownInv
  <2>7. Subtree[Root] \subseteq Coroutine
    BY TreeAssumption
  <2> QED
    BY <2>4, <2>5, <2>6, <2>7 DEF Unaligned, AlignedAt
<1>6. ~(RequestInterruption \/ Halt \/ Start \/ Restore \/ Crash \/ UNCHANGED vars)
  BY DEF RequestInterruption, Halt, Start, Restore, Crash, ForgetRun, vars
<1> QED
  BY <1>2, <1>3, <1>4, <1>5, <1>6 DEF Next, Progress, Finished

\* Where every run executes the same document, a run that replays it never diverges:
\* every call finds the entry it made, and whatever returns has reached all that is
\* retained beneath it - after any number of crashes, stops, halts, failed effects and
\* failed appends, under either divergence policy.  Only a child that a combinator
\* cancels sooner than in the run before can leave history unreached.
THEOREM RunOnlyHaltedDiverge ==
  ASSUME OneDefinition, RacesAreCaught, Refusable = {}, ~(MayHalt /\ MayStop)
  PROVE  Spec => OnlyHaltedDiverge
<1>1. Replayable
  BY DEF Replayable
<1>2. KnownInv /\ TellInv /\ [Next]_vars =>
        [(failure = "none" /\ failure' = "divergence") =>
            \E c \in halting \ {Root} : pc[c] = "closing" /\ pc'[c] = "ended"]_vars
  BY <1>1, OnlyHalted
<1>3. Spec => [](KnownInv /\ TellInv)
  BY <1>1, TellInvariant
<1> QED
  BY <1>2, <1>3, PTL DEF Spec, OnlyHaltedDiverge

------------------------------------------------------------------------------
(* Children that wait to be cancelled.  Where no one halts the run itself, *)
(* a child is cancelled because another child of an all failed, and that   *)
(* failure is in the journal before the cancellation is: whoever restores  *)
(* the cancelled child restores the failed one with it.                    *)

NoRaces == \A d \in Definition : \A c \in Coroutine : \A i \in DOMAIN d[c] : d[c][i].op # "race"

\* A child of the all above c failed before the n-th event of the journal, and c was
\* beneath another.
CancelledBy(c, n) ==
  \E p \in Coroutine : \E i \in DOMAIN def[p] : \E k \in def[p][i].kids :
    /\ \E j \in def[p][i].kids \ {k} : c \in Subtree[j]
    /\ \E m \in ClosesOf(k) : m < n /\ journal[m].status = "err"
CancelledRightly ==
  \A c \in Coroutine \ {Root} : \A i \in ClosesOf(c) :
    journal[i].status = "cancelled" => CancelledBy(c, i)

\* So it is already when c is on its way to close as cancelled.
Cancels(c) ==
  \/ pc[c] = "closing" /\ outcome[c] = "cancelled" /\ failure = "none"
  \/ /\ pc[c] \in {"turn", "write"}
     /\ pending[c].type = "close" /\ pending[c].status = "cancelled"
CancellingRightly ==
  run = "up" => \A c \in Coroutine \ {Root} : Cancels(c) => CancelledBy(c, Len(journal) + 1)

\* Who is halted is halted by a combinator that still waits for it ...
HaltedBy(c, p) ==
  /\ pc[p] = "join" /\ winner[p] # Nobody
  /\ \E j \in At(p).kids \ {winner[p]} : c \in Subtree[j]
HaltedRightly ==
  run = "up" => \A c \in halting :
    pc[c] # "idle" /\ (~Gone(c) => \E p \in Coroutine : HaltedBy(c, p))

\* ... and was decided by a child that failed.
WinnersFailed ==
  run = "up" => \A p \in Coroutine : (pc[p] = "join" /\ winner[p] # Nobody) =>
    /\ winner[p] \in At(p).kids /\ pc[winner[p]] = "ended"
    /\ outcome[winner[p]] \in {"err", "torn"}

\* Only a coroutine that waits for its children has had a winner.
Undecided(c) == pc[c] = "idle" \/ (Inside(c) /\ pc[c] # "join")
DecidedWaiting == run = "up" => \A c \in Coroutine : Undecided(c) => winner[c] = Nobody

\* A child is restored as it closed, and with the other children of its combinator.
RestoredAt(c) ==
  /\ pc[c] = "parked" => c # Root /\ "cancelled" \in RetainedCloses(c)
  /\ (c # Root /\ pc[c] # "idle" /\ "err" \in RetainedCloses(c)) =>
       pc[c] = "ended" /\ outcome[c] = "err"
  /\ pc[c] = "join" => \A k \in At(c).kids : pc[k] # "idle"
RestoredRightly == run = "up" => \A c \in Coroutine : RestoredAt(c)

ParkInv ==
  /\ CancelledRightly /\ CancellingRightly /\ HaltedRightly /\ WinnersFailed
  /\ DecidedWaiting /\ RestoredRightly

ParkStep(c) ==
  /\ \A d \in Coroutine \ {c} : outcome'[d] = outcome[d] /\ winner'[d] = winner[d]
  /\ pc'[c] # "parked"
  /\ failure' = "none" => failure = "none"
  /\ \/ halting' = halting /\ winner'[c] = winner[c]
     \/ Decide(c)
     \/ halting' = halting /\ winner'[c] = Nobody /\ pc'[c] # "join"
  /\ Undecided(c)' => Undecided(c) \/ winner'[c] = Nobody
  /\ (c # Root /\ Cancels(c)') => Cancels(c) \/ (Unwind(c) /\ failure = "none")

LEMMA ParkTyped ==
  ASSUME RunInv
  PROVE  /\ pc \in [Coroutine -> PC] /\ pos \in [Coroutine -> Nat]
         /\ pending \in [Coroutine -> Event \cup {NoEvent}]
         /\ outcome \in [Coroutine -> Status \cup {"none", "torn"}]
         /\ winner \in [Coroutine -> Coroutine] /\ halting \subseteq Coroutine
  BY DEF RunInv, TypeOK

LEMMA EffectsPark ==
  ASSUME RunInv, NEW c \in Coroutine, Effects(c)
  PROVE  ParkStep(c)
<1>1. /\ pc \in [Coroutine -> PC] /\ pending \in [Coroutine -> Event \cup {NoEvent}]
      /\ pc[c] \in {"ready", "live"}
  BY ParkTyped DEF Effects, CallRefused, Replay, ReplayStale, Diverge, RunLive, GoLive,
     Execute, ExecuteTooLate, Calls, Ready
<1>2. UNCHANGED <<outcome, winner, halting>> /\ (failure' = "none" => failure = "none")
  BY DEF Effects, CallRefused, Replay, ReplayStale, Diverge, RunLive, GoLive, Execute,
     ExecuteTooLate
<1>3. \/ pc'[c] \in {"ready", "threw", "live"}
      \/ pc'[c] = "turn" /\ pending'[c].type = "yield"
  BY <1>1 DEF Effects, CallRefused, Replay, ReplayStale, Diverge, RunLive, GoLive, Execute,
     ExecuteTooLate, Resume, BeginAppend, YieldOf
<1>4. Undecided(c)
  BY <1>1 DEF Undecided, Inside, Executes
<1> QED
  BY <1>2, <1>3, <1>4 DEF ParkStep, Cancels

LEMMA AppendsPark ==
  ASSUME RunInv, NEW c \in Coroutine, Appends(c)
  PROVE  ParkStep(c)
<1>1. /\ pc \in [Coroutine -> PC] /\ pending \in [Coroutine -> Event \cup {NoEvent}]
      /\ outcome \in [Coroutine -> Status \cup {"none", "torn"}]
      /\ pc[c] \in Appending
  BY ParkTyped DEF Appends, Admit, RefuseAdmission, GateRefuses, BackendStores,
     BackendFailed, AckYield, AckClose, Appending
<1>2. /\ UNCHANGED <<winner, halting>> /\ (failure' = "none" => failure = "none")
      /\ \A d \in Coroutine \ {c} : outcome'[d] = outcome[d]
  BY <1>1 DEF Appends, Admit, RefuseAdmission, GateRefuses, BackendStores, BackendFailed,
     AckYield, AckClose, AppendRaised
<1>3. pending[c].type = "yield" => Undecided(c)
  BY <1>1 DEF Undecided, Inside, Executes, Appending
<1>4. ASSUME Admit(c) \/ BackendStores(c) PROVE ParkStep(c)
  <2>1. /\ pc[c] \in {"turn", "write"} /\ pc'[c] \in {"write", "stored"}
        /\ pending' = pending
    BY <1>1, <1>4 DEF Admit, BackendStores
  <2> QED
    BY <1>2, <2>1 DEF ParkStep, Cancels, Undecided, Inside, Executes, Appending
<1>5. ASSUME ~Admit(c), ~BackendStores(c) PROVE ParkStep(c)
  <2>1. \/ pc'[c] \in {"ready", "threw"} /\ pending[c].type = "yield"
        \/ pc'[c] \in {"ended", "compensate"}
    BY <1>1, <1>5 DEF Appends, RefuseAdmission, GateRefuses, BackendFailed, AckYield,
       AckClose, AppendRaised, Resume
  <2> QED
    BY <1>2, <1>3, <2>1 DEF ParkStep, Cancels, Undecided, Inside, Executes, Appending
<1> QED
  BY <1>4, <1>5

LEMMA ChildrenPark ==
  ASSUME RunInv, NEW c \in Coroutine, Children(c), ~Fork(c)
  PROVE  ParkStep(c)
<1>1. /\ pc \in [Coroutine -> PC] /\ pending \in [Coroutine -> Event \cup {NoEvent}]
      /\ outcome \in [Coroutine -> Status \cup {"none", "torn"}]
      /\ winner \in [Coroutine -> Coroutine]
  BY ParkTyped
<1>2. ASSUME ChildEnds(c) PROVE ParkStep(c)
  <2>1. pc'[c] = "closing" /\ outcome'[c] # "cancelled"
    BY <1>1, <1>2 DEF ChildEnds, BodyResult
  <2> QED
    BY <1>1, <1>2, <2>1 DEF ChildEnds, ParkStep, Cancels, Undecided, Inside, Executes, Appending
<1>3. ASSUME ChildEndsUnclosed(c) \/ CancelledUnaligned(c) PROVE ParkStep(c)
  BY <1>1, <1>3 DEF ChildEndsUnclosed, CancelledUnaligned, ParkStep, Cancels, Undecided,
     Inside, Executes, Appending
<1>4. ASSUME CloseChild(c) PROVE ParkStep(c)
  <2>1. /\ pc[c] = "closing" /\ failure = "none" /\ pc'[c] = "turn"
        /\ pending'[c] = CloseOf(c, outcome[c]) /\ UNCHANGED <<outcome, winner, halting, failure>>
    BY <1>1, <1>4 DEF CloseChild, BeginAppend
  <2> QED
    BY <2>1 DEF ParkStep, Cancels, CloseOf, Undecided, Inside, Executes, Appending
<1>5. ASSUME Decide(c) PROVE ParkStep(c)
  <2>1. /\ pc[c] = "join" /\ UNCHANGED <<pc, outcome, pending, failure>>
        /\ \A d \in Coroutine \ {c} : winner'[d] = winner[d]
    BY <1>1, <1>5 DEF Decide
  <2> QED
    BY <1>5, <2>1 DEF ParkStep, Cancels, Undecided, Inside, Executes, Appending
<1>6. ASSUME Join(c) PROVE ParkStep(c)
  <2>1. /\ pc'[c] \in {"ready", "threw"} /\ UNCHANGED <<outcome, halting, failure>>
        /\ winner'[c] = Nobody /\ \A d \in Coroutine \ {c} : winner'[d] = winner[d]
    BY <1>1, <1>6 DEF Join, Resume
  <2> QED
    BY <2>1 DEF ParkStep, Cancels
<1>7. ASSUME Unwind(c) PROVE ParkStep(c)
  <2>1. /\ pc'[c] \in {"ended", "closing"} /\ UNCHANGED <<winner, halting, failure>>
        /\ \A d \in Coroutine \ {c} : outcome'[d] = outcome[d]
    BY <1>1, <1>7 DEF Unwind
  <2> QED
    BY <1>7, <2>1 DEF ParkStep, Cancels, Undecided, Inside, Executes, Appending
<1> QED
  BY <1>2, <1>3, <1>4, <1>5, <1>6, <1>7 DEF Children

LEMMA RootParks ==
  ASSUME RunInv, RootSteps
  PROVE  ParkStep(Root)
<1>1. /\ pc \in [Coroutine -> PC] /\ pending \in [Coroutine -> Event \cup {NoEvent}]
      /\ Root \in Coroutine
  BY ParkTyped, RootIsCoroutine
<1>2. UNCHANGED <<outcome, winner, halting>> /\ (failure' = "none" => failure = "none")
  BY DEF RootSteps, RootReturns, RootThrows, RootCompensates, RootFinalizes
<1>3. \/ pc'[Root] \in {"ended", "closing"}
      \/ pc'[Root] = "turn" /\ pending'[Root].type = "close"
  BY <1>1 DEF RootSteps, RootReturns, RootThrows, RootCompensates, RootFinalizes, RootEnds,
     BeginAppend, CloseOf
<1> QED
  BY <1>2, <1>3 DEF ParkStep, Undecided, Inside, Executes, Appending

LEMMA CancelledByStays ==
  ASSUME RunInv, OwnEvents, Grows, NEW c \in Coroutine, NEW n \in Nat, CancelledBy(c, n)
  PROVE  CancelledBy(c, n)'
<1>1. /\ def' = def /\ journal \in Seq(Event)
      /\ \A k \in Coroutine : \A m \in ClosesOf(k) :
           m \in ClosesOf(k)' /\ journal'[m] = journal[m]
  <2>1. CASE journal' = journal
    BY <2>1, Typed DEF Grows, ClosesOf
  <2>2. CASE \E d \in Coroutine : BackendStores(d)
    <3>1. PICK d \in Coroutine : BackendStores(d)
      BY <2>2
    <3>2. /\ DOMAIN journal = 1 .. Len(journal) /\ DOMAIN journal' = 1 .. (Len(journal) + 1)
          /\ \A i \in 1 .. Len(journal) : journal'[i] = journal[i]
          /\ Len(journal) \in Nat
      BY <3>1, StoreFacts
    <3> QED
      BY <3>2, Typed DEF Grows, ClosesOf
  <2> QED
    BY <2>1, <2>2 DEF Grows
<1>2. \A p \in Coroutine : \A i \in DOMAIN def[p] : \A k \in def[p][i].kids : k \in Coroutine
  BY KidsAreBeneath
<1>3. ASSUME NEW k \in Coroutine, NEW m \in ClosesOf(k), m < n, journal[m].status = "err"
      PROVE  \E l \in ClosesOf(k)' : l < n /\ journal'[l].status = "err"
  BY <1>1, <1>3
<1> QED
  BY <1>1, <1>2, <1>3 DEF CancelledBy

LEMMA CancelledByLater ==
  ASSUME RunInv, NEW c \in Coroutine, NEW n \in Nat, NEW l \in Nat, n <= l, CancelledBy(c, n)
  PROVE  CancelledBy(c, l)
<1>1. \A k : ClosesOf(k) \subseteq Nat
  BY Typed, LenProperties DEF ClosesOf
<1>2. \A k : \A m \in ClosesOf(k) : m < n => m < l
  BY <1>1
<1> QED
  BY <1>2 DEF CancelledBy

LEMMA RetainedStays ==
  ASSUME RunInv, OwnEvents, Grows, indexed' = indexed, NEW c \in Coroutine
  PROVE  RetainedCloses(c)' = RetainedCloses(c)
<1>1. indexed \in Nat /\ indexed <= Len(journal) /\ Len(journal) \in Nat
  BY Typed, LenProperties
<1>2. \A i \in 1 .. indexed : journal'[i] = journal[i]
  BY <1>1, StoreFacts DEF Grows
<1>3. {j \in 1 .. indexed : journal'[j].type = "close" /\ journal'[j].co = c}
        = {j \in 1 .. indexed : journal[j].type = "close" /\ journal[j].co = c}
  BY <1>2
<1> QED
  BY <1>2, <1>3 DEF RetainedCloses

\* The winner of a combinator closed as failed, so whom it halts is cancelled rightly.
LEMMA HaltedIsCancelled ==
  ASSUME KnownInv, TellInv, ParkInv, NEW c \in Coroutine, run = "up", c \in halting,
         ~Gone(c), failure = "none"
  PROVE  CancelledBy(c, Len(journal) + 1)
<1>1. PICK p \in Coroutine : HaltedBy(c, p)
  BY DEF ParkInv, HaltedRightly
<1>2. /\ pc[p] = "join" /\ winner[p] # Nobody /\ pos[p] \in DOMAIN def[p]
      /\ winner[p] \in def[p][pos[p]].kids /\ pc[winner[p]] = "ended"
      /\ outcome[winner[p]] \in {"err", "torn"}
      /\ \E j \in def[p][pos[p]].kids \ {winner[p]} : c \in Subtree[j]
  BY <1>1 DEF HaltedBy, ParkInv, WinnersFailed, At, KnownInv, RunInv, Busy, BusyAt
<1>3. winner[p] \in Coroutine \ {Root}
  BY <1>2, ParkTyped DEF KnownInv, Nobody
<1>4. outcome[winner[p]] \in Status /\ ClosedAs(winner[p], outcome[winner[p]])
  BY <1>2, <1>3 DEF TellInv, Outcomed, OutcomeAt
<1>5. outcome[winner[p]] = "err"
  BY <1>2, <1>4 DEF Status
<1>6. PICK m \in ClosesOf(winner[p]) : journal[m].status = "err"
  BY <1>4, <1>5 DEF ClosedAs
<1>7. m < Len(journal) + 1
  BY <1>6, Typed, LenProperties DEF KnownInv, ClosesOf
<1> QED
  BY <1>2, <1>6, <1>7 DEF CancelledBy

LEMMA StepKeepsPark ==
  ASSUME KnownInv, TellInv, ParkInv, NoRaces, NEW c \in Coroutine, StepOf(c), ParkStep(c)
  PROVE  ParkInv'
<1>1. /\ RunInv /\ OwnEvents /\ JoinsWhatRuns /\ Grows /\ run = "up"
      /\ UNCHANGED <<def, indexed>>
      /\ pc[c] \notin {"idle", "ended"} /\ pc'[c] # "idle"
      /\ pc'[c] = "join" => pc[c] = "join" /\ pos'[c] = pos[c]
      /\ \A d \in Coroutine \ {c} :
           /\ pc'[d] = pc[d] /\ pos'[d] = pos[d] /\ pending'[d] = pending[d]
           /\ outcome'[d] = outcome[d] /\ winner'[d] = winner[d]
      /\ Len(journal) \in Nat
  BY Typed, LenProperties DEF KnownInv, ControlInv, StepOf, ParkStep, Grows
<1>2. \A d \in Coroutine : ~Gone(d)' => ~Gone(d)
  BY <1>1 DEF Gone
<1>3. \A d \in Coroutine : pc[d] = "ended" => pc'[d] = "ended" /\ outcome'[d] = outcome[d]
  BY <1>1
<1>4. Len(journal') \in Nat /\ Len(journal) <= Len(journal')
  <2>1. CASE journal' = journal
    BY <1>1, <2>1
  <2>2. CASE BackendStores(c)
    <3>1. journal' = Append(journal, pending[c]) /\ pending[c] \in Event /\ journal \in Seq(Event)
      BY <1>1, <2>2, StoreFacts, Typed DEF BackendStores
    <3>2. Len(journal') = Len(journal) + 1
      BY ONLY <3>1, AppendProperties
    <3> QED
      BY <1>1, <3>2
  <2> QED
    BY <2>1, <2>2 DEF StepOf
<1>5. ASSUME NEW k \in At(c).kids, Decide(c), winner'[c] = k
      PROVE  pos[c] \in DOMAIN def[c] /\ At(c).op # "race" /\ k \in Coroutine \ {Root, c}
  <2>1. pos[c] \in DOMAIN def[c] /\ def \in Definition
    BY <1>1, <1>5 DEF Decide, RunInv, Busy, BusyAt, TypeOK
  <2> QED
    BY <1>1, <2>1, KidsAreBeneath, RootIsNoKid DEF At, NoRaces
<1>6. CancelledRightly'
  <2> SUFFICES ASSUME NEW d \in Coroutine \ {Root}, NEW i \in ClosesOf(d)',
                      journal'[i].status = "cancelled"
               PROVE  CancelledBy(d, i)'
    BY DEF CancelledRightly
  <2>1. CASE i \in ClosesOf(d) /\ journal'[i] = journal[i]
    <3>1. CancelledBy(d, i) /\ i \in Nat
      BY <1>1, <2>1, Typed, LenProperties DEF ParkInv, CancelledRightly, ClosesOf
    <3> QED
      BY <1>1, <3>1, CancelledByStays
  <2>2. CASE ~(i \in ClosesOf(d) /\ journal'[i] = journal[i])
    <3>1. BackendStores(c)
      BY <1>1, <2>2 DEF StepOf, ClosesOf
    <3>2. i = Len(journal) + 1 /\ d = c /\ Cancels(c)
      BY <1>1, <2>2, <3>1, StoreFacts DEF ClosesOf, Cancels
    <3>3. CancelledBy(c, i)
      BY <1>1, <3>2 DEF ParkInv, CancellingRightly
    <3> QED
      BY <1>1, <3>2, <3>3, CancelledByStays
  <2> QED
    BY <2>1, <2>2
<1>7. CancellingRightly'
  <2> SUFFICES ASSUME NEW d \in Coroutine \ {Root}, Cancels(d)'
               PROVE  CancelledBy(d, Len(journal) + 1)'
    BY DEF CancellingRightly
  <2>1. CancelledBy(d, Len(journal) + 1)
    <3>1. CASE Cancels(d)
      BY <1>1, <3>1 DEF ParkInv, CancellingRightly
    <3>2. CASE ~Cancels(d)
      <4>1. d = c
        BY <1>1, <3>2 DEF ParkStep, Cancels
      <4>2. Unwind(c) /\ failure = "none"
        BY <3>2, <4>1 DEF ParkStep
      <4> QED
        BY <1>1, <4>1, <4>2, HaltedIsCancelled DEF Unwind
    <3> QED
      BY <3>1, <3>2
  <2> DEFINE n == Len(journal) + 1
             l == Len(journal') + 1
  <2>2. n \in Nat /\ l \in Nat /\ n <= l
    BY <1>1, <1>4
  <2> HIDE DEF n
  <2>3. CancelledBy(d, l)
    BY <1>1, <2>1, <2>2, CancelledByLater DEF n
  <2> HIDE DEF l
  <2>4. PICK h \in Nat : h = l
    BY <2>2
  <2>5. CancelledBy(d, h)'
    BY <1>1, <2>3, <2>4, CancelledByStays
  <2>6. h = (Len(journal) + 1)'
    BY <2>4 DEF l
  <2> QED
    BY <2>5, <2>6 DEF CancelledBy
<1>8. HaltedRightly'
  <2> SUFFICES ASSUME NEW d \in halting'
               PROVE  pc'[d] # "idle" /\ (~Gone(d)' => \E p \in Coroutine : HaltedBy(d, p)')
    BY DEF HaltedRightly
  <2>1. CASE d \in halting
    <3>1. d \in Coroutine /\ pc[d] # "idle" /\ (~Gone(d) => \E p \in Coroutine : HaltedBy(d, p))
      BY <1>1, <2>1, ParkTyped DEF ParkInv, HaltedRightly
    <3>2. pc'[d] # "idle"
      BY <1>1, <3>1
    <3> SUFFICES ASSUME ~Gone(d)' PROVE \E p \in Coroutine : HaltedBy(d, p)'
      BY <3>2
    <3>3. PICK p \in Coroutine : HaltedBy(d, p)
      BY <1>2, <3>1
    <3>4. CASE p # c
      BY <1>1, <3>3, <3>4 DEF HaltedBy, At
    <3>5. CASE p = c
      <4>1. PICK j \in At(c).kids \ {winner[c]} : d \in Subtree[j]
        BY <3>3, <3>5 DEF HaltedBy
      <4>2. pos[c] \in DOMAIN def[c] /\ pc[c] = "join" /\ winner[c] # Nobody
        BY <1>1, <3>3, <3>5 DEF HaltedBy, RunInv, Busy, BusyAt
      <4>3. j \in Coroutine /\ j \in Subtree[c] \ {c}
        BY <1>1, <4>1, <4>2, KidsAreBeneath DEF At
      <4>4. d \in Subtree[c] \ {c}
        BY <4>1, <4>3, TreeAssumption
      <4>5. pc[j] # "ended"
        BY <1>1, <1>2, <3>1, <4>1, <4>3 DEF JoinsWhatRuns, Gone
      <4>6. pc'[c] = "join"
        BY <1>2, <3>1, <4>1, <4>2, <4>4, <4>5 DEF StepOf
      <4>7. winner'[c] = winner[c]
        BY <4>2, <4>6 DEF ParkStep, Decide
      <4> QED
        BY <1>1, <3>3, <3>5, <4>6, <4>7 DEF HaltedBy, At
    <3> QED
      BY <3>4, <3>5
  <2>2. CASE d \notin halting
    <3>1. Decide(c)
      BY <2>2 DEF ParkStep
    <3>2. PICK k \in At(c).kids :
            /\ winner' = [winner EXCEPT ![c] = k]
            /\ halting' = halting \cup
                 {b \in UNION {Subtree[j] : j \in At(c).kids \ {k}} : ~Gone(b)}
      BY <3>1 DEF Decide
    <3>3. PICK j \in At(c).kids \ {k} : d \in Subtree[j] /\ ~Gone(d)
      BY <2>2, <3>2
    <3>4. winner'[c] = k
      BY <1>1, <3>2, ParkTyped
    <3>5. k # Nobody /\ pc' = pc /\ pos' = pos /\ pc[c] = "join"
      BY <1>5, <3>1, <3>4 DEF Decide, Nobody
    <3>6. HaltedBy(d, c)'
      BY <1>1, <3>3, <3>4, <3>5 DEF HaltedBy, At
    <3> QED
      BY <3>3, <3>5, <3>6 DEF Gone
  <2> QED
    BY <2>1, <2>2
<1>9. WinnersFailed'
  <2> SUFFICES ASSUME NEW p \in Coroutine, pc'[p] = "join", winner'[p] # Nobody
               PROVE  /\ winner'[p] \in At(p)'.kids /\ pc'[winner'[p]] = "ended"
                      /\ outcome'[winner'[p]] \in {"err", "torn"}
    BY DEF WinnersFailed
  <2>1. pc[p] = "join" /\ At(p)' = At(p)
    BY <1>1 DEF At
  <2>2. CASE winner'[p] = winner[p]
    <3>1. winner[p] \in Coroutine
      BY <1>1, ParkTyped
    <3>2. /\ winner[p] \in At(p).kids /\ pc[winner[p]] = "ended"
          /\ outcome[winner[p]] \in {"err", "torn"}
      BY <1>1, <2>1, <2>2 DEF ParkInv, WinnersFailed
    <3> QED
      BY <1>3, <2>1, <2>2, <3>1, <3>2
  <2>3. CASE winner'[p] # winner[p]
    <3>1. p = c /\ Decide(c)
      BY <1>1, <2>3 DEF ParkStep
    <3>2. PICK k \in At(c).kids : Decides(c, k) /\ winner' = [winner EXCEPT ![c] = k]
      BY <3>1 DEF Decide
    <3>3. winner'[c] = k /\ UNCHANGED <<pc, outcome>>
      BY <1>1, <3>1, <3>2, ParkTyped DEF Decide
    <3>4. At(c).op # "race"
      BY <1>5, <3>1, <3>3
    <3> QED
      BY <2>1, <3>1, <3>2, <3>3, <3>4 DEF Decides
  <2> QED
    BY <2>2, <2>3
<1>10. DecidedWaiting'
  <2> SUFFICES ASSUME NEW d \in Coroutine, Undecided(d)' PROVE winner'[d] = Nobody
    BY DEF DecidedWaiting
  <2>1. CASE d # c
    <3>1. Undecided(d)
      BY <1>1, <2>1 DEF Undecided, Inside, Executes
    <3> QED
      BY <1>1, <2>1, <3>1 DEF ParkInv, DecidedWaiting
  <2>2. CASE d = c
    <3>1. SUFFICES ASSUME Undecided(c), winner'[c] # Nobody PROVE FALSE
      BY <2>2, <3>1 DEF ParkStep
    <3>2. winner[c] = Nobody /\ pc[c] # "join"
      BY <1>1, <3>1 DEF ParkInv, DecidedWaiting, Undecided
    <3> QED
      BY <3>1, <3>2 DEF ParkStep, Decide
  <2> QED
    BY <2>1, <2>2
<1>11. RestoredRightly'
  <2> SUFFICES ASSUME NEW d \in Coroutine PROVE RestoredAt(d)'
    BY DEF RestoredRightly
  <2>1. RestoredAt(d) /\ RetainedCloses(d)' = RetainedCloses(d)
    BY <1>1, RetainedStays DEF ParkInv, RestoredRightly
  <2>2. pc'[d] = "parked" => pc[d] = "parked"
    BY <1>1 DEF ParkStep
  <2>3. pc'[d] # "idle" => pc[d] # "idle"
    BY <1>1
  <2>4. ASSUME pc'[d] = "join", NEW k \in At(d)'.kids PROVE pc'[k] # "idle"
    <3>1. pc[d] = "join" /\ At(d)' = At(d)
      BY <1>1, <2>4 DEF At
    <3>2. pos[d] \in DOMAIN def[d]
      BY <1>1, <3>1 DEF RunInv, Busy, BusyAt
    <3>3. k \in Coroutine /\ pc[k] # "idle"
      BY <1>1, <2>1, <2>4, <3>1, <3>2, KidsAreBeneath DEF RestoredAt, At
    <3> QED
      BY <1>1, <3>3
  <2> QED
    BY <1>3, <2>1, <2>2, <2>3, <2>4 DEF RestoredAt
<1> QED
  BY <1>6, <1>7, <1>8, <1>9, <1>10, <1>11 DEF ParkInv

LEMMA RetainedIsClosed ==
  ASSUME RunInv, NEW c \in Coroutine, NEW s \in RetainedCloses(c)
  PROVE  \E i \in ClosesOf(c) : i <= indexed /\ journal[i].status = s
<1>1. 1 .. indexed \subseteq DOMAIN journal
  BY Typed, LenProperties
<1> QED
  BY <1>1 DEF RetainedCloses, ClosesOf

LEMMA RetainedOnce ==
  ASSUME KnownInv, NEW c \in Coroutine, NEW s \in RetainedCloses(c), NEW t \in RetainedCloses(c)
  PROVE  s = t
  BY RetainedIsClosed, ClosedOnce DEF KnownInv, ClosedAs

LEMMA ForkKeepsPark ==
  ASSUME KnownInv, ParkInv, NEW c \in Coroutine, Fork(c)
  PROVE  ParkInv'
<1>1. /\ run = "up" /\ pc[c] = "ready" /\ pc'[c] = "join" /\ pos[c] \in DOMAIN def[c]
      /\ \A k \in At(c).kids : pc[k] = "idle" /\ k \in Coroutine \ {c}
      /\ \A k \in At(c).kids : pc'[k] \in {"parked", "ended", "ready"}
      /\ \A d \in Coroutine \ {c} : d \notin At(c).kids => pc'[d] = pc[d]
      /\ UNCHANGED <<journal, indexed, run, def, pos, pending, failure>>
  BY ForkFacts DEF KnownInv, ControlInv
<1>2. /\ RunInv /\ OwnEvents /\ Grows /\ disabled = {}
      /\ UNCHANGED <<winner, halting>>
      /\ \A d \in Coroutine : d \notin At(c).kids => outcome'[d] = outcome[d]
  BY <1>1 DEF KnownInv, ControlInv, LeafInv, ReplayIsOn, Grows, Fork
<1>3. winner[c] = Nobody
  BY <1>1 DEF ParkInv, DecidedWaiting, Undecided, Inside
<1>4. ASSUME NEW d \in Coroutine, NEW n \in Nat, CancelledBy(d, n) PROVE CancelledBy(d, n)'
  BY <1>2, <1>4, CancelledByStays
<1>5. Len(journal) + 1 \in Nat /\ DOMAIN journal \subseteq Nat
  BY <1>2, Typed, LenProperties
<1>6. CancelledRightly'
  BY <1>1, <1>4, <1>5 DEF ParkInv, CancelledRightly, ClosesOf
<1>7. CancellingRightly'
  <2> SUFFICES ASSUME NEW d \in Coroutine \ {Root}, Cancels(d)'
               PROVE  CancelledBy(d, Len(journal) + 1)'
    BY DEF CancellingRightly
  <2>1. d # c /\ d \notin At(c).kids
    BY <1>1 DEF Cancels
  <2>2. CancelledBy(d, Len(journal) + 1)
    BY <1>1, <1>2, <2>1 DEF Cancels, ParkInv, CancellingRightly
  <2>3. PICK n \in Nat : n = Len(journal) + 1
    BY <1>5
  <2>4. CancelledBy(d, n)' /\ n = (Len(journal) + 1)'
    BY <1>1, <1>4, <2>2, <2>3
  <2> QED
    BY <2>4 DEF CancelledBy
<1>8. HaltedRightly'
  <2> SUFFICES ASSUME NEW d \in halting
               PROVE  pc'[d] # "idle" /\ (~Gone(d)' => \E p \in Coroutine : HaltedBy(d, p)')
    BY <1>2 DEF HaltedRightly
  <2>1. d \in Coroutine /\ pc[d] # "idle" /\ (~Gone(d) => \E p \in Coroutine : HaltedBy(d, p))
    BY <1>1, <1>2, ParkTyped DEF ParkInv, HaltedRightly
  <2>2. pc'[d] # "idle" /\ (~Gone(d)' => ~Gone(d))
    BY <1>1, <2>1 DEF Gone
  <2>3. \A p \in Coroutine : HaltedBy(d, p) => HaltedBy(d, p)'
    BY <1>1, <1>2 DEF HaltedBy, At
  <2> QED
    BY <2>1, <2>2, <2>3
<1>9. WinnersFailed'
  <2> SUFFICES ASSUME NEW p \in Coroutine, pc'[p] = "join", winner[p] # Nobody
               PROVE  /\ winner[p] \in At(p)'.kids /\ pc'[winner[p]] = "ended"
                      /\ outcome'[winner[p]] \in {"err", "torn"}
    BY <1>2 DEF WinnersFailed
  <2>1. pc[p] = "join" /\ At(p)' = At(p) /\ winner[p] \in Coroutine
    BY <1>1, <1>2, <1>3, ParkTyped DEF At
  <2>2. /\ winner[p] \in At(p).kids /\ pc[winner[p]] = "ended"
        /\ outcome[winner[p]] \in {"err", "torn"}
    BY <1>1, <2>1 DEF ParkInv, WinnersFailed
  <2> QED
    BY <1>1, <1>2, <2>1, <2>2
<1>10. DecidedWaiting'
  <2> SUFFICES ASSUME NEW d \in Coroutine, Undecided(d)' PROVE winner[d] = Nobody
    BY <1>2 DEF DecidedWaiting
  <2>1. Undecided(d)
    BY <1>1 DEF Undecided, Inside, Executes
  <2> QED
    BY <1>1, <2>1 DEF ParkInv, DecidedWaiting
<1>11. RestoredRightly'
  <2> SUFFICES ASSUME NEW d \in Coroutine PROVE RestoredAt(d)'
    BY DEF RestoredRightly
  <2>1. RestoredAt(d) /\ RetainedCloses(d)' = RetainedCloses(d)
    BY <1>1, <1>2, RetainedStays DEF ParkInv, RestoredRightly
  <2>2. CASE d = c
    BY <1>1, <2>1, <2>2 DEF RestoredAt, At
  <2>3. CASE d \in At(c).kids
    <3>1. d # Root
      BY <1>1, <1>2, <2>3, RootIsNoKid DEF At, RunInv, TypeOK
    <3>2. /\ pc'[d] = IF Restores(d, "cancelled") THEN "parked"
                      ELSE IF HasClose(d) THEN "ended" ELSE "ready"
          /\ outcome'[d] = IF Restores(d, "ok") THEN "ok"
                           ELSE IF Restores(d, "err") THEN "err" ELSE "none"
      BY <1>1, <2>3 DEF Fork
    <3>3. \A s : Restores(d, s) <=> s \in RetainedCloses(d)
      BY <1>2 DEF Restores, HasClose, WasClosed
    <3>4. "err" \in RetainedCloses(d) =>
            /\ HasClose(d) /\ "ok" \notin RetainedCloses(d)
            /\ "cancelled" \notin RetainedCloses(d)
      BY <1>2, RetainedOnce DEF HasClose, WasClosed
    <3> QED
      BY <1>1, <2>1, <2>3, <3>1, <3>2, <3>3, <3>4 DEF RestoredAt
  <2>4. CASE d # c /\ d \notin At(c).kids
    <3>1. pc'[d] = pc[d] /\ outcome'[d] = outcome[d] /\ At(d)' = At(d)
      BY <1>1, <1>2, <2>4 DEF At
    <3>2. ASSUME pc[d] = "join", NEW k \in At(d).kids PROVE pc'[k] # "idle"
      <4>1. pos[d] \in DOMAIN def[d]
        BY <1>2, <3>2 DEF RunInv, Busy, BusyAt
      <4>2. k \in Coroutine /\ pc[k] # "idle"
        BY <1>2, <2>1, <3>2, <4>1, KidsAreBeneath DEF RestoredAt, At
      <4> QED
        BY <1>1, <4>2
    <3> QED
      BY <2>1, <3>1, <3>2 DEF RestoredAt
  <2> QED
    BY <2>2, <2>3, <2>4
<1> QED
  BY <1>6, <1>7, <1>8, <1>9, <1>10, <1>11 DEF ParkInv

LEMMA ProcessesKeepPark ==
  ASSUME KnownInv, ParkInv, OneDefinition, KnownInv', Start \/ Restore \/ Crash
  PROVE  ParkInv'
<1>1. journal' = journal /\ def' = def /\ Grows /\ RunInv /\ OwnEvents
  BY DEF Start, Restore, Crash, KnownInv, ControlInv, RunInv, TypeOK, OneDefinition, Grows
<1>2. \A k : ClosesOf(k) \subseteq Nat
  BY <1>1, Typed, LenProperties DEF ClosesOf
<1>3. CancelledRightly'
  <2> SUFFICES ASSUME NEW d \in Coroutine \ {Root}, NEW i \in ClosesOf(d),
                      journal[i].status = "cancelled"
               PROVE  CancelledBy(d, i)'
    BY <1>1 DEF CancelledRightly, ClosesOf
  <2>1. CancelledBy(d, i) /\ i \in Nat
    BY <1>2 DEF ParkInv, CancelledRightly
  <2> QED
    BY <1>1, <2>1, CancelledByStays
<1>4. ASSUME Restore \/ Crash PROVE ParkInv'
  <2>1. run' # "up"
    BY <1>4 DEF Restore, Crash
  <2> QED
    BY <1>3, <2>1 DEF ParkInv, CancellingRightly, HaltedRightly, WinnersFailed,
       DecidedWaiting, RestoredRightly
<1>5. ASSUME Start PROVE ParkInv'
  <2>1. /\ pc' = [c \in Coroutine |-> IF c = Root THEN "ready" ELSE "idle"]
        /\ winner' = [c \in Coroutine |-> Nobody]
        /\ halting' = {}
    BY <1>5 DEF Start, ForgetRun
  <2>2. \A c \in Coroutine : ~Cancels(c)' /\ RestoredAt(c)'
    BY <2>1 DEF Cancels, RestoredAt
  <2> QED
    BY <1>3, <2>1, <2>2 DEF ParkInv, CancellingRightly, HaltedRightly, WinnersFailed,
       DecidedWaiting, RestoredRightly
<1> QED
  BY <1>4, <1>5

LEMMA RequestKeepsPark ==
  ASSUME KnownInv, ParkInv, RequestInterruption \/ UNCHANGED vars
  PROVE  ParkInv'
<1>1. UNCHANGED <<journal, indexed, run, def, pc, pos, pending, outcome, winner, halting,
                  failure>>
  BY DEF RequestInterruption, vars, indexVars
<1>2. \A k : ClosesOf(k)' = ClosesOf(k)
  BY <1>1 DEF ClosesOf
<1>3. CancelledRightly' /\ CancellingRightly'
  BY <1>1, <1>2 DEF ParkInv, CancelledRightly, CancellingRightly, Cancels, CancelledBy
<1>4. HaltedRightly' /\ WinnersFailed' /\ DecidedWaiting'
  BY <1>1 DEF ParkInv, HaltedRightly, HaltedBy, Gone, At, WinnersFailed, DecidedWaiting,
     Undecided, Inside, Executes
<1>5. RestoredRightly'
  BY <1>1 DEF ParkInv, RestoredRightly, RestoredAt, RetainedCloses, At
<1> QED
  BY <1>3, <1>4, <1>5 DEF ParkInv

LEMMA ParkKept ==
  ASSUME OneDefinition, NoRaces, MayHalt = FALSE
  PROVE  KnownInv /\ KnownInv' /\ TellInv /\ ParkInv /\ [Next]_vars => ParkInv'
<1> SUFFICES ASSUME KnownInv, KnownInv', TellInv, ParkInv, [Next]_vars PROVE ParkInv'
  OBVIOUS
<1>1. RunInv
  BY DEF KnownInv
<1>2. ASSUME RootSteps PROVE ParkInv'
  BY <1>1, <1>2, RootIsCoroutine, RootStepsAreSteps, RootParks, StepKeepsPark
<1>3. ASSUME NEW c \in Coroutine, Effects(c) PROVE ParkInv'
  BY <1>1, <1>3, EffectsAreSteps, EffectsPark, StepKeepsPark
<1>4. ASSUME NEW c \in Coroutine, Appends(c) PROVE ParkInv'
  BY <1>1, <1>4, AppendsAreSteps, AppendsPark, StepKeepsPark
<1>5. ASSUME NEW c \in Coroutine, Children(c) PROVE ParkInv'
  BY <1>1, <1>5, ChildrenAreSteps, ChildrenPark, StepKeepsPark, ForkKeepsPark
<1>6. ~Halt
  BY DEF Halt
<1> QED
  BY <1>2, <1>3, <1>4, <1>5, <1>6, RequestKeepsPark, ProcessesKeepPark
     DEF Next, Progress, Finished

LEMMA ParkInit ==
  ASSUME Init
  PROVE  ParkInv
<1>1. run = "down" /\ \A c \in Coroutine : ClosesOf(c) = {}
  BY DEF Init, IndexInit, ClosesOf
<1> QED
  BY <1>1 DEF ParkInv, CancelledRightly, CancellingRightly, HaltedRightly, WinnersFailed,
     DecidedWaiting, RestoredRightly

\* A coroutine is beneath one child of a combinator at most.
LEMMA BeneathOne ==
  ASSUME RunInv, NEW p \in Coroutine, NEW i \in DOMAIN def[p], NEW k \in def[p][i].kids,
         NEW l \in DOMAIN def[p], NEW j \in def[p][l].kids, NEW c \in Coroutine,
         c \in Subtree[k], c \in Subtree[j]
  PROVE  j = k /\ l = i
<1>1. /\ k \in Coroutine /\ k \in Subtree[p] \ {p}
      /\ \A q \in Coroutine : k \in Subtree[q] => q = k \/ p \in Subtree[q]
      /\ \A b \in DOMAIN def[p] : k \in def[p][b].kids => b = i
      /\ j \in Coroutine /\ j \in Subtree[p] \ {p}
      /\ \A q \in Coroutine : j \in Subtree[q] => q = j \/ p \in Subtree[q]
  BY KidsAreBeneath
<1>2. k \in Subtree[j] \/ j \in Subtree[k]
  BY <1>1, TreeAssumption
<1>3. p \notin Subtree[k] /\ p \notin Subtree[j]
  BY <1>1, TreeAssumption
<1>4. j = k
  BY <1>1, <1>2, <1>3
<1> QED
  BY <1>1, <1>4

LEMMA ParkedHasReason ==
  ASSUME KnownInv, ParkInv, NoRaces
  PROVE  ParkedIsCancellable
<1> SUFFICES ASSUME NEW c \in Coroutine, run = "up", pc[c] = "parked"
             PROVE  \E p \in Coroutine :
                      /\ pc[p] = "join" /\ c \in Subtree[p]
                      /\ \E k \in At(p).kids :
                           /\ c \notin Subtree[k] /\ pc[k] # "parked"
                           /\ ~(At(p).op = "all" /\ pc[k] = "ended" /\ outcome[k] = "ok")
  BY DEF ParkedIsCancellable
<1>1. RunInv /\ JoinsWhatRuns /\ RestoredRightly
  BY DEF KnownInv, ControlInv, ParkInv
<1>2. c # Root /\ "cancelled" \in RetainedCloses(c)
  BY <1>1 DEF RestoredRightly, RestoredAt
<1>3. PICK i \in ClosesOf(c) : i <= indexed /\ journal[i].status = "cancelled"
  BY <1>1, <1>2, RetainedIsClosed
<1>4. CancelledBy(c, i)
  BY <1>2, <1>3 DEF ParkInv, CancelledRightly
<1>5. PICK p \in Coroutine : \E l \in DOMAIN def[p] : \E k \in def[p][l].kids :
        /\ \E j \in def[p][l].kids \ {k} : c \in Subtree[j]
        /\ \E m \in ClosesOf(k) : m < i /\ journal[m].status = "err"
  BY <1>4 DEF CancelledBy
<1>6. PICK l \in DOMAIN def[p] : \E k \in def[p][l].kids :
        /\ \E j \in def[p][l].kids \ {k} : c \in Subtree[j]
        /\ \E m \in ClosesOf(k) : m < i /\ journal[m].status = "err"
  BY <1>5
<1>7. PICK k \in def[p][l].kids :
        /\ \E j \in def[p][l].kids \ {k} : c \in Subtree[j]
        /\ \E m \in ClosesOf(k) : m < i /\ journal[m].status = "err"
  BY <1>6
<1>8. PICK j \in def[p][l].kids \ {k} : c \in Subtree[j]
  BY <1>7
<1>9. /\ k \in Coroutine \ {Root} /\ j \in Coroutine /\ j \in Subtree[p] \ {p}
      /\ Subtree[p] \in SUBSET Coroutine
  BY <1>1, KidsAreBeneath, RootIsNoKid, TreeAssumption DEF RunInv, TypeOK
<1>10. c \in Subtree[p] \ {p}
  BY <1>8, <1>9, TreeAssumption
<1>11. pc[p] = "join" /\ \E b \in At(p).kids : c \in Subtree[b]
  BY <1>1, <1>10 DEF JoinsWhatRuns, Gone
<1>12. pos[p] \in DOMAIN def[p]
  BY <1>1, <1>11 DEF RunInv, Busy, BusyAt
<1>13. l = pos[p]
  <2>1. PICK b \in def[p][pos[p]].kids : c \in Subtree[b]
    BY <1>11 DEF At
  <2> QED
    BY <1>1, <1>8, <1>12, <2>1, BeneathOne
<1>14. k \in At(p).kids /\ c \notin Subtree[k]
  BY <1>1, <1>8, <1>13, BeneathOne DEF At
<1>15. "err" \in RetainedCloses(k)
  <2>1. PICK m \in ClosesOf(k) : m < i /\ journal[m].status = "err"
    BY <1>7
  <2>2. m \in 1 .. indexed
    BY <1>1, <1>3, <2>1, Typed, LenProperties DEF ClosesOf
  <2> QED
    BY <2>1, <2>2 DEF RetainedCloses, ClosesOf
<1>16. pc[k] = "ended" /\ outcome[k] = "err"
  BY <1>1, <1>9, <1>11, <1>14, <1>15 DEF RestoredRightly, RestoredAt
<1> QED
  BY <1>10, <1>11, <1>14, <1>16

\* "This cannot deadlock" (combinators.ts): where every run executes the same document of
\* calls and alls and no one halts the run itself, whatever child a later run restores as
\* cancelled waits beneath an all that a failed child, restored with it, decides - after
\* any number of crashes and stops.
THEOREM RunParkedIsCancellable ==
  ASSUME OneDefinition, NoRaces, Refusable = {}, MayHalt = FALSE
  PROVE  Spec => []ParkedIsCancellable
<1>1. Replayable
  BY DEF Replayable, RacesAreCaught, NoRaces
<1>2. Spec => [](KnownInv /\ TellInv)
  BY <1>1, TellInvariant
<1>3. KnownInv /\ KnownInv' /\ TellInv /\ ParkInv /\ [Next]_vars => ParkInv'
  BY ParkKept
<1>4. Spec => []ParkInv
  BY <1>2, <1>3, ParkInit, PTL DEF Spec
<1>5. KnownInv /\ ParkInv => ParkedIsCancellable
  BY ParkedHasReason
<1> QED
  BY <1>2, <1>4, <1>5, PTL
==============================================================================
