--------------------------------- MODULE Gate ---------------------------------
(* The heavy-work gate (AppState.transcription_gate): a tokio semaphore with *)
(* one permit, shared by desktop jobs, companion jobs and companion AI. It  *)
(* is fair: a permit given back goes straight to the first waiter, whose    *)
(* acquire is then ready, and a waiter that goes away passes it on.         *)
EXTENDS Naturals, SequencesExt

CONSTANT
  Free        \* nobody holds the permit

VARIABLES
  holder,     \* who the permit belongs to
  waiters     \* who waits for it, in order

gateVars == <<holder, waiters>>

GateInit == holder = Free /\ waiters = <<>>

TryAcquire(c) ==
  /\ holder = Free
  /\ holder' = c
  /\ UNCHANGED waiters

Wait(c) ==
  /\ holder # Free
  /\ waiters' = Append(waiters, c)
  /\ UNCHANGED holder

\* acquire_owned: the permit at once, or a place in the queue.
Acquire(c) == TryAcquire(c) \/ Wait(c)

Granted(c) == holder = c

PassOn ==
  IF waiters = <<>> THEN holder' = Free /\ UNCHANGED waiters
  ELSE holder' = Head(waiters) /\ waiters' = Tail(waiters)

Release(c) == holder = c /\ PassOn

\* The acquire is dropped while it waits, or with the permit it was given.
Abandon(c) ==
  \/ holder = c /\ PassOn
  \/ \E i \in DOMAIN waiters :
       /\ waiters[i] = c
       /\ waiters' = RemoveAt(waiters, i)
       /\ UNCHANGED holder
=============================================================================
