------------------------------- MODULE OnceOnly -------------------------------
(***************************************************************************)
(* What an idempotency key promises: a command is done at most once for a  *)
(* key, everyone who asks for it again is told of that one execution, and  *)
(* an error means that nothing has been done under the key.                *)
(***************************************************************************)
CONSTANTS Attempts, Keys, Requests, None

VARIABLES
  asked,    \* what each attempt asks: a key and a request
  done,     \* by key: the request that was done and the attempt that did it
  answer    \* what each attempt was told

vars == <<asked, done, answer>>

Nothing == [key |-> None, req |-> None]

Init ==
  /\ asked = [a \in Attempts |-> Nothing]
  /\ done = [k \in Keys |-> [req |-> None, by |-> None]]
  /\ answer = [a \in Attempts |-> None]

Waits(a) == asked[a].key # None /\ answer[a] = None

Told(a, x) ==
  /\ answer' = [answer EXCEPT ![a] = x]
  /\ UNCHANGED <<asked, done>>

Ask(a, k, q) ==
  /\ asked[a] = Nothing
  /\ asked' = [asked EXCEPT ![a] = [key |-> k, req |-> q]]
  /\ UNCHANGED <<done, answer>>

Execute(a) ==
  /\ Waits(a) /\ done[asked[a].key].by = None
  /\ done' = [done EXCEPT ![asked[a].key] = [req |-> asked[a].req, by |-> a]]
  /\ UNCHANGED <<asked, answer>>

\* The result is the one of the execution under the key, for the same request.
Tell(a) ==
  /\ Waits(a) /\ done[asked[a].key].by # None
  /\ done[asked[a].key].req = asked[a].req
  /\ Told(a, done[asked[a].key].by)

RefuseReuse(a) ==
  /\ Waits(a) /\ done[asked[a].key].by # None
  /\ done[asked[a].key].req # asked[a].req
  /\ Told(a, "REUSED")

Fail(a) == Waits(a) /\ done[asked[a].key].by = None /\ Told(a, "ERROR")

\* The connection breaks: whoever asked does not know whether it was done.
Lose(a) == Waits(a) /\ Told(a, "LOST")

Next ==
  \E a \in Attempts :
    \/ \E k \in Keys, q \in Requests : Ask(a, k, q)
    \/ Execute(a) \/ Tell(a) \/ RefuseReuse(a) \/ Fail(a) \/ Lose(a)

Spec == Init /\ [][Next]_vars
===============================================================================
