---------------------------- MODULE BufferQueue ----------------------------
(***************************************************************************)
(* What an OpenSL ES buffer-queue player promises to the engine, with no   *)
(* ring, no lock and no thread: from its creation to its destruction, the  *)
(* buffers are played in the order they were enqueued, one at a time, none *)
(* is lost or played twice, and whenever a callback is registered as a     *)
(* buffer ends, it is called before the next buffer starts and before the  *)
(* player goes away.  Module OpenSLES implements it (its property          *)
(* Implements).                                                            *)
(***************************************************************************)
EXTENDS Naturals, Sequences

CONSTANTS Players, Buffers, NoBuffer,
          Capacity      \* buffers a queue holds besides the one that plays

VARIABLES alive,        \* alive[p]: the player exists
          listens,      \* listens[p]: the engine wants to hear of finished ones
          pending,      \* pending[p]: the enqueued buffers, oldest first
          inflight,     \* inflight[p]: the buffer that plays, or NoBuffer
          owed          \* owed[p]: a finished buffer is not yet notified

queueVars == <<pending, inflight, owed>>
vars == <<alive, listens, queueVars>>

Init == /\ alive = [p \in Players |-> FALSE]
        /\ listens = [p \in Players |-> FALSE]
        /\ pending = [p \in Players |-> <<>>]
        /\ inflight = [p \in Players |-> NoBuffer]
        /\ owed = [p \in Players |-> FALSE]

(* A player begins with nothing to play and nobody to tell. *)
Create(p) == /\ ~alive[p]
             /\ alive' = [alive EXCEPT ![p] = TRUE]
             /\ listens' = [listens EXCEPT ![p] = FALSE]
             /\ pending' = [pending EXCEPT ![p] = <<>>]
             /\ inflight' = [inflight EXCEPT ![p] = NoBuffer]
             /\ UNCHANGED owed

(* Its end is the only way a queue goes away; no call is cut short by it. *)
Destroy(p) == /\ alive[p]
              /\ ~owed[p]
              /\ alive' = [alive EXCEPT ![p] = FALSE]
              /\ UNCHANGED <<listens, queueVars>>

(* The engine registers a completion callback, or takes it back. *)
Listen(p, on) == /\ alive[p]
                 /\ listens' = [listens EXCEPT ![p] = on]
                 /\ UNCHANGED <<alive, queueVars>>

(* One more buffer at the end of the queue, if there is room. *)
Appended(p, b) == /\ Len(pending[p]) < Capacity
                  /\ pending' = [pending EXCEPT ![p] = Append(@, b)]

(* The engine hands over one more buffer. *)
Enqueue(p, b) == /\ alive[p]
                 /\ Appended(p, b)
                 /\ UNCHANGED <<alive, listens, inflight, owed>>

(* The oldest pending buffer becomes the playing one. *)
Start(p) == /\ alive[p]
            /\ pending[p] # <<>>
            /\ inflight[p] = NoBuffer
            /\ ~owed[p]
            /\ inflight' = [inflight EXCEPT ![p] = Head(pending[p])]
            /\ pending' = [pending EXCEPT ![p] = Tail(@)]
            /\ UNCHANGED <<alive, listens, owed>>

(* The playing buffer is used up: whoever listens is owed a call. *)
Finish(p) == /\ alive[p]
             /\ inflight[p] # NoBuffer
             /\ inflight' = [inflight EXCEPT ![p] = NoBuffer]
             /\ owed' = [owed EXCEPT ![p] = listens[p]]
             /\ UNCHANGED <<alive, listens, pending>>

(* The callback returns, possibly having enqueued the next buffer itself. *)
Notify(p) == /\ alive[p]
             /\ owed[p]
             /\ owed' = [owed EXCEPT ![p] = FALSE]
             /\ UNCHANGED pending \/ \E b \in Buffers : Appended(p, b)
             /\ UNCHANGED <<alive, listens, inflight>>

Next == \E p \in Players :
          \/ Create(p) \/ Destroy(p)
          \/ \E on \in BOOLEAN : Listen(p, on)
          \/ \E b \in Buffers : Enqueue(p, b)
          \/ Start(p) \/ Finish(p) \/ Notify(p)

Spec == Init /\ [][Next]_vars
=============================================================================
