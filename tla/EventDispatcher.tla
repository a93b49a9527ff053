-------------------------- MODULE EventDispatcher --------------------------
(***************************************************************************)
(* EventDispatcher<E,R>: handlers registered for kinds of events, events   *)
(* handed to them at once (dispatchSync) or through a queue by a thread of *)
(* the dispatcher's own.  One dispatcher serves the sessions, the Router   *)
(* and TrafficMgr, another is PacketCapture's.                             *)
(***************************************************************************)
EXTENDS Sequences, SequencesExt

CONSTANT NoEvent

VARIABLES mQueue,    \* events that wait for the thread
          asleep,    \* the thread waits on the condition variable
          event,     \* the event the thread holds, or NoEvent
          mHandlers  \* the handlers of each kind of event

(* What a dispatcher starts from.                                          *)
DispatcherInit(handlers) ==
  mQueue = <<>> /\ asleep = FALSE /\ event = NoEvent /\ mHandlers = handlers

(* Mutant: nobody is notified.                                             *)
Mut_dispatch(e) ==
  /\ mQueue' = Append(mQueue, e)
  /\ UNCHANGED <<asleep, event, mHandlers>>

(* push and notify_one, under the queue's lock.                            *)
dispatch(e) ==
  /\ mQueue' = Append(mQueue, e) /\ asleep' = FALSE
  /\ UNCHANGED <<event, mHandlers>>

(* obtainEvent: wait while the queue is empty, ...                         *)
Wait ==
  /\ event = NoEvent /\ ~asleep /\ mQueue = <<>>
  /\ asleep' = TRUE
  /\ UNCHANGED <<mQueue, event, mHandlers>>

(* ... else take its front.                                                *)
obtainEvent ==
  /\ event = NoEvent /\ ~asleep /\ mQueue # <<>>
  /\ event' = Head(mQueue) /\ mQueue' = Tail(mQueue)
  /\ UNCHANGED <<asleep, mHandlers>>

(* The handlers were called, the event is deleted.                         *)
DeleteEvent ==
  /\ event # NoEvent /\ event' = NoEvent
  /\ UNCHANGED <<mQueue, asleep, mHandlers>>

registerEvent(id, handler) ==
  /\ mHandlers' = IF Contains(mHandlers[id], handler) THEN mHandlers
                  ELSE [mHandlers EXCEPT ![id] = Append(@, handler)]
  /\ UNCHANGED <<mQueue, asleep, event>>

unregisterEvent(id, handler) ==
  /\ mHandlers' = [mHandlers EXCEPT ![id] = Remove(@, handler)]
  /\ UNCHANGED <<mQueue, asleep, event>>
=============================================================================
