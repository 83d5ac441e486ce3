----------------------------- MODULE AppendFence -----------------------------
(***************************************************************************)
(* The cooperative first-come-first-served fence that serialises every     *)
(* append of one durable run (createAppendFence in durability.ts).  The    *)
(* connection lock of the workflow package (workflow/src/deno/lock.ts) is  *)
(* the same algorithm over another resource.                               *)
(*                                                                         *)
(* A turn is taken by entering a scope and given back when that scope      *)
(* unwinds.  The scope may unwind at any moment, also while the turn still *)
(* waits, and also between the grant and the moment its holder notices.    *)
(***************************************************************************)
EXTENDS Naturals, Sequences, FiniteSets

CONSTANT Turn            \* the scopes that ask for a turn

VARIABLES
  held,                  \* somebody holds the fence
  waiting,               \* the queued turns, oldest first
  granted                \* the turns whose `granted` flag is set

fenceVars == <<held, waiting, granted>>

Queued == {waiting[i] : i \in DOMAIN waiting}

Init ==
  /\ held = FALSE
  /\ waiting = <<>>
  /\ granted = {}

\* Mutant of Hold: the fence is taken without looking whether it is held.
HoldEagerly(t) ==
  /\ t \notin granted
  /\ t \notin Queued
  /\ held' = TRUE
  /\ granted' = granted \cup {t}
  /\ UNCHANGED waiting

\* hold(): take a free fence at once, otherwise queue behind everybody else.
Hold(t) ==
  /\ t \notin granted
  /\ t \notin Queued
  /\ IF held
       THEN /\ waiting' = Append(waiting, t)
            /\ UNCHANGED <<held, granted>>
       ELSE /\ held' = TRUE
            /\ granted' = granted \cup {t}
            /\ UNCHANGED waiting

\* Mutants of Release: it frees the fence and forgets who waits; it hands over to
\* the newest waiter.
ReleaseForgetful(t) ==
  /\ t \in granted
  /\ held' = FALSE
  /\ granted' = granted \ {t}
  /\ UNCHANGED waiting

ReleaseNewest(t) ==
  /\ t \in granted
  /\ IF waiting = <<>>
       THEN /\ held' = FALSE
            /\ granted' = granted \ {t}
            /\ UNCHANGED waiting
       ELSE /\ granted' = (granted \ {t}) \cup {waiting[Len(waiting)]}
            /\ waiting' = SubSeq(waiting, 1, Len(waiting) - 1)
            /\ UNCHANGED held

\* The unwinding of a granted turn: hand over synchronously, so the fence is
\* never free while somebody waits and never owned by a turn that is gone.
Release(t) ==
  /\ t \in granted
  /\ IF waiting = <<>>
       THEN /\ held' = FALSE
            /\ granted' = granted \ {t}
            /\ UNCHANGED waiting
       ELSE /\ granted' = (granted \ {t}) \cup {Head(waiting)}
            /\ waiting' = Tail(waiting)
            /\ UNCHANGED held

\* The unwinding of a turn that still waits: it leaves the queue where it is.
Withdraw(t) ==
  \E i \in DOMAIN waiting :
    /\ waiting[i] = t
    /\ t \notin granted
    /\ waiting' = SubSeq(waiting, 1, i - 1) \o SubSeq(waiting, i + 1, Len(waiting))
    /\ UNCHANGED <<held, granted>>

Next == \E t \in Turn : Hold(t) \/ Release(t) \/ Withdraw(t)

\* A holder's scope always unwinds in the end: an append settles or is cancelled.
Fairness == \A t \in Turn : WF_fenceVars(Release(t))

Spec == Init /\ [][Next]_fenceVars
FairSpec == Spec /\ Fairness
------------------------------------------------------------------------------
TypeOK ==
  /\ held \in BOOLEAN
  /\ waiting \in Seq(Turn)
  /\ granted \in SUBSET Turn

\* At most one append is between its grant and its settlement: two coroutines
\* never write to the stream at the same time.
MutualExclusion == \A t, u \in granted : t = u

\* The fence is held exactly while some live turn owns it, and nobody waits at
\* a free fence: neither a cancelled holder nor a cancelled waiter strands it.
NoStrandedFence ==
  /\ held <=> granted # {}
  /\ waiting # <<>> => held

\* No turn stands in the queue twice or waits for a fence it already owns.
OneTurnEach ==
  /\ \A i, j \in DOMAIN waiting : waiting[i] = waiting[j] => i = j
  /\ \A i \in DOMAIN waiting : waiting[i] \notin granted

\* Two turns that keep waiting keep their order, and whoever is granted next was
\* at the head of the queue or found it empty.
KeepsOrder ==
  /\ \A t \in granted' \ granted : waiting = <<>> \/ t = Head(waiting)
  /\ \A i, j \in DOMAIN waiting :
       (i < j /\ waiting[i] \in Queued' /\ waiting[j] \in Queued')
         => \E k, l \in DOMAIN waiting' :
              k < l /\ waiting'[k] = waiting[i] /\ waiting'[l] = waiting[j]

\* Appends are admitted in the order in which they asked: no turn is overtaken.
FirstComeFirstServed == [][KeepsOrder]_fenceVars

\* A queued turn does not wait for ever: it is granted unless its own scope
\* withdraws it.
EveryTurnIsServed ==
  \A t \in Turn : (t \in Queued) ~> (t \notin Queued)
==============================================================================
