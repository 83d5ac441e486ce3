----------------------------- MODULE DurableWait -----------------------------
(***************************************************************************)
(* What a durable wait promises whoever answers it (the contract stated in *)
(* workflow/src/suspension): a request is asked once, one value is         *)
(* accepted for it, and that value, and no other, ends the wait, once.     *)
(***************************************************************************)
CONSTANTS
  Wait,                  \* the waits of one run
  Answer,                \* the values people may deliver
  Nil                    \* no value yet

VARIABLE wait            \* per wait, how far it has got and the value it carries

Unasked == [phase |-> "unasked", value |-> Nil]

Init == wait = [w \in Wait |-> Unasked]

\* The request is retained.
Ask(w) ==
  /\ wait[w].phase = "unasked"
  /\ wait' = [wait EXCEPT ![w].phase = "asked"]

\* A value is accepted for an asked wait that has none.
Deliver(w, a) ==
  /\ wait[w].phase = "asked"
  /\ wait' = [wait EXCEPT ![w] = [phase |-> "delivered", value |-> a]]

\* The accepted value ends the wait.
Publish(w) ==
  /\ wait[w].phase = "delivered"
  /\ wait' = [wait EXCEPT ![w].phase = "answered"]

Next == \E w \in Wait : Ask(w) \/ Publish(w) \/ \E a \in Answer : Deliver(w, a)

Spec == Init /\ [][Next]_wait
==============================================================================
