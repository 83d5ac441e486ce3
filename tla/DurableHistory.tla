---------------------------- MODULE DurableHistory ----------------------------
(***************************************************************************)
(* What a durable run promises, without runs, indexes, appends or          *)
(* coroutine scheduling: for each coroutine one sequence of decided        *)
(* results and at most one ending, and a program that sees exactly those   *)
(* results in that order - however often it is started over.               *)
(***************************************************************************)
EXTENDS Naturals, Sequences

CONSTANTS Coroutine, Subtree, Result

VARIABLES
  decided,               \* per coroutine, the results that can never change again
  ended,                 \* the coroutines that ended for good
  seen                   \* per coroutine, the results its program was given

hvars == <<decided, ended, seen>>

HistoryInit ==
  /\ decided = [c \in Coroutine |-> <<>>]
  /\ ended = {}
  /\ seen = [c \in Coroutine |-> <<>>]

\* Nothing at or above c has ended.
Open(c) == \A d \in Coroutine : c \in Subtree[d] => d \notin ended

DecideResult(c) ==
  /\ Open(c)
  /\ Len(decided'[c]) = Len(decided[c]) + 1
  /\ \E e \in Result : decided' = [decided EXCEPT ![c] = Append(@, e)]
  /\ UNCHANGED <<ended, seen>>

End(c) ==
  /\ Open(c)
  /\ ended' = ended \cup {c}
  /\ UNCHANGED <<decided, seen>>

\* The program of c goes on with the next decided result, and no other.
See(c) ==
  /\ Len(seen[c]) < Len(decided[c])
  /\ seen' = [seen EXCEPT ![c] = Append(@, decided[c][Len(@) + 1])]
  /\ UNCHANGED <<decided, ended>>

StartOver ==
  /\ seen' = [c \in Coroutine |-> <<>>]
  /\ UNCHANGED <<decided, ended>>

HistoryNext == StartOver \/ \E c \in Coroutine : DecideResult(c) \/ End(c) \/ See(c)

HistorySpec == HistoryInit /\ [][HistoryNext]_hvars
==============================================================================
