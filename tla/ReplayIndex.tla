----------------------------- MODULE ReplayIndex -----------------------------
(***************************************************************************)
(* The retained history of a durable run and the index every coroutine     *)
(* replays from (replay-index.ts).                                         *)
(*                                                                         *)
(* The journal is the only durable state.  A run reads it once; what it    *)
(* read is the prefix of length `indexed`, and events appended later by    *)
(* the same run are not part of its index.  Everything else in this module *)
(* is memory and is lost with the process.                                 *)
(***************************************************************************)
EXTENDS Naturals, Sequences, FiniteSets, Subsequence

CONSTANTS
  Coroutine,             \* coroutine identities: root, root.0, root.0.1, ...
  Root,                  \* the identity durableRun gives its own workflow
  Subtree,               \* Subtree[c]: c and every identity prefixed by "c."
  Name,                  \* effect descriptions, as far as matching compares them
  NoName                 \* the description of a Close, which has none

ASSUME TreeAssumption ==
  /\ Root \in Coroutine
  /\ Subtree \in [Coroutine -> SUBSET Coroutine]
  /\ Subtree[Root] = Coroutine
  /\ \A c \in Coroutine : c \in Subtree[c]
  /\ \A c \in Coroutine : \A d \in Subtree[c] : Subtree[d] \subseteq Subtree[c]
  /\ \A c \in Coroutine : \A d \in Subtree[c] : c \in Subtree[d] => c = d
  /\ \A c, d \in Coroutine :
       Subtree[c] \cap Subtree[d] # {} => c \in Subtree[d] \/ d \in Subtree[c]

ASSUME NameAssumption == NoName \notin Name

Status == {"ok", "err", "cancelled"}

\* A Yield records how one effect of a coroutine settled, a Close how the
\* coroutine itself ended (types.ts).
Event ==
  [type : {"yield", "close"}, co : Coroutine, name : Name \cup {NoName}, status : Status]

YieldOf(c, n, s) == [type |-> "yield", co |-> c, name |-> n, status |-> s]
CloseOf(c, s)    == [type |-> "close", co |-> c, name |-> NoName, status |-> s]

VARIABLES
  journal,               \* the durable event stream, in append order
  indexed,               \* how many of its events this run's index was built from
  cursors,               \* per coroutine: retained yields consumed so far
  disabled,              \* coroutines whose replay was switched off (run-live)
  claimed                \* retained identities the current definition reached

indexVars == <<indexed, cursors, disabled, claimed>>

\* The yields of one coroutine in a stretch of the journal.
YieldEvents(c) ==
  [type : {"yield"}, co : {c}, name : Name \cup {NoName}, status : Status]
YieldsIn(events, c) == Picked(events, YieldEvents(c))

Retained == SubSeq(journal, 1, indexed)
Yields(c) == YieldsIn(Retained, c)

\* A retained Close decides whether a coroutine runs again, whatever `disabled` says.
RetainedCloses(c) ==
  {journal[i].status : i \in {j \in 1 .. indexed :
                                journal[j].type = "close" /\ journal[j].co = c}}
WasClosed(c) == RetainedCloses(c) # {}
\* Mutant of HasClose: only a successful Close counts.
HasOkClose(c) == c \notin disabled /\ "ok" \in RetainedCloses(c)
HasClose(c)  == c \notin disabled /\ WasClosed(c)
\* Mutant of Restores: a failed child is restored like a cancelled one.
RestoresNotOk(c, s) ==
  /\ HasClose(c)
  /\ (s = "cancelled") <=> ("ok" \notin RetainedCloses(c))
Restores(c, s) == HasClose(c) /\ s \in RetainedCloses(c)

WasRetained(c) == Yields(c) # <<>> \/ WasClosed(c)

\* Is there an unconsumed retained entry for c, and which?
HasEntry(c) == c \notin disabled /\ cursors[c] < Len(Yields(c))
Entry(c)    == Yields(c)[cursors[c] + 1]

\* Mutant of ClaimSet: what ran beneath a closed child is not reached with it.
ClaimOne(c) == {c}

\* claim(): reaching a closed identity reaches all that ran beneath it.
ClaimSet(c) ==
  {c} \cup {d \in Subtree[c] : WasClosed(c) /\ WasRetained(d)}

\* Mutant of Unaligned: only the coroutine itself is looked at, not what is beneath.
UnalignedAlone(c) ==
  /\ c \notin disabled
  /\ IF WasClosed(c) THEN c \notin claimed ELSE cursors[c] < Len(Yields(c))

\* firstUnaligned(): some retained history in the subtree of c was never reached
\* by the current definition - a closed coroutine nobody claimed, or an open one
\* with entries left.
Unaligned(c) ==
  /\ c \notin disabled
  /\ \E d \in Subtree[c] \ disabled :
       IF WasClosed(d) THEN d \notin claimed ELSE cursors[d] < Len(Yields(d))

------------------------------------------------------------------------------
IndexInit ==
  /\ journal = <<>>
  /\ indexed = 0
  /\ cursors = [c \in Coroutine |-> 0]
  /\ disabled = {}
  /\ claimed = {}

\* new ReplayIndex(yield* stream.readAll()), and the claim of the root.
BuildIndex ==
  /\ indexed' = Len(journal)
  /\ cursors' = [c \in Coroutine |-> 0]
  /\ disabled' = {}
  /\ claimed' = {Root}

\* The index goes away with the process; the journal does not.
DropIndex ==
  /\ indexed' = 0
  /\ cursors' = [c \in Coroutine |-> 0]
  /\ disabled' = {}
  /\ claimed' = {}

\* Mutant of ConsumeYield: the cursor stays where it is.
ConsumeNothing(c) == UNCHANGED indexVars

ConsumeYield(c) ==
  /\ cursors' = [cursors EXCEPT ![c] = @ + 1]
  /\ UNCHANGED <<indexed, disabled, claimed>>

DisableReplay(c) ==
  /\ disabled' = disabled \cup {c}
  /\ UNCHANGED <<indexed, cursors, claimed>>

ClaimAll(ids) ==
  /\ claimed' = claimed \cup UNION {ClaimSet(c) : c \in ids}
  /\ UNCHANGED <<indexed, cursors, disabled>>

IndexTypeOK ==
  /\ journal \in Seq(Event)
  /\ indexed \in 0 .. Len(journal)
  /\ cursors \in [Coroutine -> Nat]
  /\ disabled \in SUBSET Coroutine
  /\ claimed \in SUBSET Coroutine
==============================================================================
