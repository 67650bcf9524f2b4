----------------------------- MODULE AsyncQueue -----------------------------
(***************************************************************************)
(* AsyncQueue (ts/util/AsyncQueue.ts): values are added by callers and     *)
(* consumed by one `for await` loop.  This is the second part of the       *)
(* stream of a job queue, which JobQueue models as a sequence.             *)
(*                                                                         *)
(* The iterator is `yield* this.#queue` on an array.  The array iterator   *)
(* decides that it is at the end when it is asked for a value; the         *)
(* generator learns of it some microtasks later and only then replaces the *)
(* array.  What other code runs in between is what this module is about.   *)
(***************************************************************************)
EXTENDS Naturals, Sequences

CONSTANTS
  Values,
  MaxAdds,          \* bound: calls of add()
  AddsWhileEnding   \* callers may run in those microtasks

ASSUME AsyncQueueAssumption == MaxAdds \in Nat /\ AddsWhileEnding \in BOOLEAN

VARIABLES
  items,      \* the array this.#queue
  next,       \* the index the array iterator is at
  consumer,   \* "body": between two values, or not yet started;
              \* "ending": at the end of the array, not yet told;
              \* "waiting": awaits this.#onAdd; "woken": resolved
  added,      \* history: every value added
  consumed    \* history: every value the loop got

vars == <<items, next, consumer, added, consumed>>

Init ==
  /\ items = <<>>
  /\ next = 1
  /\ consumer = "body"
  /\ added = <<>>
  /\ consumed = <<>>

\* Mutant of Wake: only the first add() of the queue wakes the loop, as `once`
\* around the whole callback would have it.
WakeOnce == consumer' = IF consumer = "waiting" /\ added = <<>>
                        THEN "woken" ELSE consumer

Wake == consumer' = IF consumer = "waiting" THEN "woken" ELSE consumer

Add(v) ==
  /\ Len(added) < MaxAdds
  /\ consumer = "ending" => AddsWhileEnding
  /\ items' = Append(items, v)
  /\ Wake
  /\ added' = Append(added, v)
  /\ UNCHANGED <<next, consumed>>

\* The loop asks for the next value.
Ask ==
  /\ consumer = "body"
  /\ IF next <= Len(items)
     THEN /\ consumed' = Append(consumed, items[next])
          /\ next' = next + 1
          /\ UNCHANGED consumer
     ELSE /\ consumer' = "ending"
          /\ UNCHANGED <<consumed, next>>
  /\ UNCHANGED <<items, added>>

\* Mutant of Reset: the array is kept and the iterator starts again.
ResetIterator ==
  /\ consumer = "ending"
  /\ next' = 1
  /\ consumer' = "waiting"
  /\ UNCHANGED <<items, added, consumed>>

Reset ==
  /\ consumer = "ending"
  /\ items' = <<>>
  /\ next' = 1
  /\ consumer' = "waiting"
  /\ UNCHANGED <<added, consumed>>

Resume ==
  /\ consumer = "woken"
  /\ consumer' = "body"
  /\ UNCHANGED <<items, next, added, consumed>>

Next == (\E v \in Values : Add(v)) \/ Ask \/ Reset \/ Resume

Spec == Init /\ [][Next]_vars

\* The loop keeps asking, and microtasks are run.
FairSpec == Spec /\ WF_vars(Ask) /\ WF_vars(Reset) /\ WF_vars(Resume)

----------------------------------------------------------------------------
TypeOK ==
  /\ items \in Seq(Values)
  /\ next \in 1..Len(items) + 1
  /\ consumer \in {"body", "ending", "waiting", "woken"}
  /\ added \in Seq(Values)
  /\ consumed \in Seq(Values)

\* "Consume values out in the order they were added" and "Values are removed
\* from the queue when they're consumed" (ts/util/AsyncQueue.ts), never
\* before: what was added is what was consumed followed by what the iterator
\* has yet to reach.
InOrder == added = consumed \o SubSeq(items, next, Len(items))

\* No wake-up is lost: the loop gets every value.
EveryValueIsConsumed ==
  \A n \in 1..MaxAdds : Len(added) >= n ~> Len(consumed) >= n

\* The loop sleeps only on an empty queue.  With this and TypeOK, InOrder is
\* inductive when no caller runs while the iterator is ending.
SleepsOnEmpty ==
  /\ consumer = "waiting" => items = <<>>
  /\ consumer = "ending" /\ ~AddsWhileEnding => next = Len(items) + 1
=============================================================================
