------------------------- MODULE BufferQueueProofs -------------------------
(***************************************************************************)
(* Proofs about BufferQueue, for any number of threads, slots and buffers: *)
(* the callbacks are made in the order of the frames and the one that is   *)
(* due is never lost, and no thread sleeps while it could have a slot.     *)
(***************************************************************************)
EXTENDS BufferQueue, FiniteSetTheorems, TLAPS

----------------------------------------------------------------------------
(* The shape of the records, which every step keeps.                       *)

Fields == {"pc", "call", "frame"}

Threaded(th) == DOMAIN th = Threads /\ \A t \in Threads : Fields \subseteq DOMAIN th[t]

CoreFields ==
  {"mFrameCounter", "mIsAbandoned", "mDequeueBufferCannotBlock", "mAsyncMode",
   "mMaxBufferCount", "mMaxAcquiredBufferCount", "mMaxDequeuedBufferCount"}

Shape == Threaded(thread) /\ CoreFields \subseteq DOMAIN mCore

----------------------------------------------------------------------------
(* The tickets.                                                            *)

InCallback(t) == thread[t].pc = "queued"

(* The frames that were queued and not told of yet each have their thread, *)
(* and the listener was told of all frames before them.                    *)
Tickets ==
  /\ mCore.mFrameCounter \in Nat
  /\ told.ticket \in 0 .. mCore.mFrameCounter /\ told.frame = told.ticket
  /\ \A t \in Threads : InCallback(t) =>
        thread[t].frame \in told.ticket + 1 .. mCore.mFrameCounter
  /\ \A t, u \in Threads :
        InCallback(t) /\ InCallback(u) /\ thread[t].frame = thread[u].frame => t = u
  /\ \A f \in told.ticket + 1 .. mCore.mFrameCounter :
        \E t \in Threads : InCallback(t) /\ thread[t].frame = f

(* While a frame has not been told of, exactly one thread has the ticket   *)
(* that is due: the threads of queueBuffer never all wait for each other   *)
(* on mCallbackCondition.                                                  *)
TicketHeld ==
  told.ticket < mCore.mFrameCounter =>
    \E t \in Threads :
       /\ InCallback(t) /\ thread[t].frame - 1 = told.ticket
       /\ \A u \in Threads : InCallback(u) /\ thread[u].frame - 1 = told.ticket => u = t

----------------------------------------------------------------------------
(* The sleepers.                                                           *)

(* The limits are changed by the producer alone, which then notifies; the  *)
(* application does not control both sides, and allocations succeed.       *)
FixedLimits ==
  /\ AcquiredCounts = {} /\ BufferCounts = {}
  /\ ByApps \subseteq {FALSE} /\ Failures \subseteq {FALSE}
  /\ DequeuedCounts \subseteq Nat /\ IsFiniteSet(Slots)

NoneFree ==
  \/ Len(mQueue) > getMaxBufferCountLocked(mCore)
  \/ mFreeBuffers = <<>> /\ mFreeSlots = {}

Limits ==
  /\ mCore.mDequeueBufferCannotBlock = FALSE /\ mCore.mAsyncMode \in BOOLEAN
  /\ mCore.mMaxBufferCount \in Nat /\ mCore.mMaxAcquiredBufferCount \in Nat
  /\ mCore.mMaxDequeuedBufferCount \in Nat

Sleepers ==
  \A t \in Threads :
     /\ thread[t].pc = "waiting" => ~mCore.mIsAbandoned /\ NoneFree
     /\ thread[t].pc \in {"waiting", "woken"} => thread[t].call \in {"dequeue", "attach"}

(* A thread that sleeps in waitForFreeSlotThenRelock could not have a slot *)
(* if it looked again, and the queue is not abandoned: with FixedLimits,   *)
(* whoever makes a slot free or shortens the queue notifies it.            *)
SleepersHaveNoSlot ==
  \A t \in Threads : thread[t].pc = "waiting" =>
     ~mCore.mIsAbandoned /\ Candidates(thread[t].call) = {}

----------------------------------------------------------------------------
(* A step of one thread, and a notification.                               *)

LEMMA GoesFacts ==
  ASSUME Threaded(thread), NEW t \in Threads, NEW r, Fields \subseteq DOMAIN r
  PROVE  /\ Threaded(Goes(t, r)) /\ Goes(t, r)[t] = r
         /\ \A u \in Threads \ {t} : Goes(t, r)[u] = thread[u]
BY DEF Threaded, Goes

LEMMA IdleFacts ==
  /\ Fields \subseteq DOMAIN Idle /\ Idle.pc = "idle"
  /\ Fields \subseteq DOMAIN Releasing /\ Releasing.pc = "releasing"
BY DEF Fields, Idle, Releasing

LEMMA NotifyFacts ==
  ASSUME NEW th, Threaded(th)
  PROVE  /\ Threaded(NotifyAll(th))
         /\ \A u \in Threads :
              /\ NotifyAll(th)[u].pc = IF th[u].pc = "waiting" THEN "woken" ELSE th[u].pc
              /\ NotifyAll(th)[u].call = th[u].call
              /\ NotifyAll(th)[u].frame = th[u].frame
BY DEF Threaded, NotifyAll, Fields

(* The tickets and the callbacks that are due stay as they are. *)
Quiet ==
  /\ told' = told /\ mCore'.mFrameCounter = mCore.mFrameCounter
  /\ \A u \in Threads :
       /\ InCallback(u)' <=> InCallback(u)
       /\ InCallback(u) => thread'[u].frame = thread[u].frame

LEMMA QuietKeeps ==
  ASSUME Tickets, Quiet
  PROVE  Tickets'
BY DEF Tickets, Quiet, InCallback

(* Thread t goes on, outside of the callback. *)
Moves(t) ==
  /\ Threaded(thread') /\ thread'[t].pc # "queued"
  /\ \A u \in Threads \ {t} : thread'[u] = thread[u]

(* The threads go on as they would from th, but none sleeps. *)
Notified(th) ==
  /\ Threaded(thread')
  /\ \A u \in Threads :
       /\ thread'[u].pc = IF th[u].pc = "waiting" THEN "woken" ELSE th[u].pc
       /\ thread'[u].call = th[u].call /\ thread'[u].frame = th[u].frame

(* The limits, and what else Shape names of mCore, stay as they are. *)
CoreKept ==
  /\ CoreFields \subseteq DOMAIN mCore'
  /\ \A f \in CoreFields : mCore'[f] = mCore[f]

LEMMA MovesQuiet ==
  ASSUME NEW t \in Threads, ~InCallback(t), Moves(t), UNCHANGED told,
         mCore'.mFrameCounter = mCore.mFrameCounter
  PROVE  Quiet
BY DEF Moves, Quiet, InCallback

LEMMA NotifiedQuiet ==
  ASSUME Notified(thread), UNCHANGED told, mCore'.mFrameCounter = mCore.mFrameCounter
  PROVE  Quiet
BY DEF Notified, Quiet, InCallback

LEMMA ReleasingQuiet ==
  ASSUME Shape, NEW t \in Threads, ~InCallback(t), Notified(Goes(t, Releasing)), UNCHANGED told,
         mCore'.mFrameCounter = mCore.mFrameCounter
  PROVE  Quiet
BY GoesFacts, IdleFacts DEF Notified, Quiet, InCallback, Shape

LEMMA NotifyStep ==
  ASSUME NEW th, Threaded(th), thread' = NotifyAll(th)
  PROVE  Notified(th)
BY NotifyFacts DEF Notified

LEMMA GoesStep ==
  ASSUME Shape, NEW t \in Threads, NEW r, Fields \subseteq DOMAIN r, r.pc # "queued",
         thread' = Goes(t, r)
  PROVE  Moves(t)
BY GoesFacts DEF Moves, Shape

(* waitForFreeSlotThenRelock, with the rest of its caller. *)
LEMMA WaitStep ==
  ASSUME Shape, NEW t \in Threads, NEW call, waitForFreeSlotThenRelock(t, call)
  PROVE  Moves(t) /\ CoreKept
<1>1. CASE UNCHANGED mCore /\ thread' = Goes(t, Idle)
  BY <1>1, GoesStep, IdleFacts DEF CoreKept, Shape
<1>2. ASSUME NEW s, DequeueSlot(t, s)
      PROVE  Moves(t) /\ CoreKept
  <2>1. PICK r : Fields \subseteq DOMAIN r /\ r.pc # "queued" /\ thread' = Goes(t, r)
    BY Zenon, <1>2 DEF DequeueSlot, Idle, Fields
  <2>2. CoreKept
    BY Zenon, <1>2 DEF DequeueSlot, CoreKept, Shape, CoreFields
  <2> QED  BY <2>1, <2>2, GoesStep
<1>3. CASE /\ UNCHANGED mCore
           /\ thread' = Goes(t, [Idle EXCEPT !.pc = "waiting", !.call = call, !.flag = mCore.timed])
  <2> DEFINE r == [Idle EXCEPT !.pc = "waiting", !.call = call, !.flag = mCore.timed]
  <2>1. Fields \subseteq DOMAIN r /\ r.pc # "queued"  BY DEF Idle, Fields
  <2> QED  BY Zenon, <1>3, <2>1, GoesStep DEF CoreKept, Shape
<1> QED  BY Zenon, <1>1, <1>2, <1>3 DEF waitForFreeSlotThenRelock, AttachSlot, core

----------------------------------------------------------------------------
(* Steps that do not queue a frame and make no callback.                   *)

Kept == Threaded(thread') /\ CoreFields \subseteq DOMAIN mCore' /\ Quiet

LEMMA KeptByMove ==
  ASSUME NEW t \in Threads, ~InCallback(t), Moves(t), CoreKept, UNCHANGED told
  PROVE  Kept
<1>1. mCore'.mFrameCounter = mCore.mFrameCounter  BY DEF CoreKept, CoreFields
<1> QED  BY <1>1, MovesQuiet DEF Kept, Moves, CoreKept

(* The steps of dequeueBuffer and attachBuffer, and their callers'. *)
LEMMA DequeuesKept ==
  ASSUME Shape, NEW t \in Threads,
         \/ dequeueBuffer(t) \/ DequeueAwaits(t) \/ DequeueSearches(t) \/ Woken(t)
         \/ TimedOut(t) \/ DequeueAllocated(t) \/ SurfaceDequeued(t) \/ attachBuffer(t)
  PROVE  Kept
<1> DEFINE At(pc) == [Idle EXCEPT !.pc = pc]
<1>0. \A pc : Fields \subseteq DOMAIN At(pc) /\ At(pc).pc = pc  BY DEF Idle, Fields
<1> HIDE DEF At
<1>1. ~InCallback(t) /\ UNCHANGED told
  BY Zenon DEF InCallback, dequeueBuffer, DequeueAwaits, DequeueSearches, Woken, TimedOut,
         DequeueAllocated, SurfaceDequeued, attachBuffer, clients, consumers
<1>2. ASSUME UNCHANGED mCore
      PROVE  CoreKept
  BY <1>2 DEF CoreKept, Shape
<1>3. ASSUME NEW pc, pc # "queued", thread' = Goes(t, At(pc))
      PROVE  Moves(t)
  BY <1>0, <1>3, GoesStep
<1>4. ASSUME thread' = Goes(t, Idle)
      PROVE  Moves(t)
  BY <1>4, GoesStep, IdleFacts
<1>5. CASE dequeueBuffer(t)  BY <1>1, <1>2, <1>3, <1>5, KeptByMove DEF dequeueBuffer, core, At
<1>6. CASE DequeueAwaits(t)  BY Zenon, <1>1, <1>2, <1>3, <1>6, KeptByMove DEF DequeueAwaits, core, At
<1>7. CASE DequeueSearches(t)  BY <1>1, <1>7, WaitStep, KeptByMove DEF DequeueSearches
<1>8. CASE Woken(t)  BY <1>1, <1>8, WaitStep, KeptByMove DEF Woken
<1>9. CASE TimedOut(t)  BY <1>1, <1>2, <1>4, <1>9, KeptByMove DEF TimedOut, core
<1>10. CASE DequeueAllocated(t)
  <2>1. CoreKept  BY <1>10 DEF DequeueAllocated, CoreKept, CoreFields, Shape
  <2>2. CASE thread' = Goes(t, [thread[t] EXCEPT !.pc = "dequeued"])
    <3> DEFINE r == [thread[t] EXCEPT !.pc = "dequeued"]
    <3>1. Fields \subseteq DOMAIN r /\ r.pc # "queued"  BY DEF Shape, Threaded, Fields
    <3> HIDE DEF r
    <3>2. thread' = Goes(t, r)  BY <2>2 DEF r
    <3>3. Moves(t)  BY <3>1, <3>2, GoesStep
    <3> QED  BY <1>1, <2>1, <3>3, KeptByMove
  <2>3. CASE thread' = Goes(t, Idle)  BY <1>1, <1>4, <2>1, <2>3, KeptByMove
  <2> QED  BY Zenon, <1>10, <2>2, <2>3 DEF DequeueAllocated
<1>11. CASE SurfaceDequeued(t)  BY <1>1, <1>2, <1>4, <1>11, KeptByMove DEF SurfaceDequeued
<1>12. CASE attachBuffer(t)
  <2>1. CASE thread' = Goes(t, [Idle EXCEPT !.pc = "attach"]) /\ UNCHANGED core
    BY <1>1, <1>2, <1>3, <2>1, KeptByMove DEF core, At
  <2>2. CASE waitForFreeSlotThenRelock(t, "attach")  BY <1>1, <2>2, WaitStep, KeptByMove
  <2> QED  BY <1>12, <2>1, <2>2 DEF attachBuffer
<1> QED  BY <1>5, <1>6, <1>7, <1>8, <1>9, <1>10, <1>11, <1>12


LEMMA KeptByNotify ==
  ASSUME Shape, NEW t \in Threads, ~InCallback(t), CoreFields \subseteq DOMAIN mCore',
         mCore'.mFrameCounter = mCore.mFrameCounter, UNCHANGED told,
         thread' = NotifyAll(thread) \/ thread' = NotifyAll(Goes(t, Releasing))
  PROVE  Kept
<1>1. CASE thread' = NotifyAll(thread)
  BY <1>1, NotifyStep, NotifiedQuiet DEF Kept, Notified, Shape
<1>2. CASE thread' = NotifyAll(Goes(t, Releasing))
  <2>1. Threaded(Goes(t, Releasing))  BY GoesFacts, IdleFacts DEF Shape
  <2>2. Notified(Goes(t, Releasing))  BY <1>2, <2>1, NotifyStep
  <2> QED  BY <2>2, ReleasingQuiet DEF Kept, Notified
<1> QED  BY <1>1, <1>2

(* The other calls of the producer's interface. *)
LEMMA ReturnsKept ==
  ASSUME Shape, NEW t \in Threads, NEW o,
         cancelBuffer(t, o) \/ detachBuffer(t, o) \/ ReturnFails(t, o)
  PROVE  Kept
<1>1. ~InCallback(t) /\ UNCHANGED <<told, mCore>>
  BY DEF InCallback, cancelBuffer, detachBuffer, ReturnFails, MayReturn, core, consumers
<1>2. CASE cancelBuffer(t, o)  BY <1>1, <1>2, KeptByNotify DEF cancelBuffer, Shape
<1>3. CASE detachBuffer(t, o)  BY <1>1, <1>3, KeptByNotify DEF detachBuffer, Shape
<1>4. CASE ReturnFails(t, o)  BY <1>1, <1>4 DEF ReturnFails, Kept, Quiet, Shape, InCallback
<1> QED  BY <1>2, <1>3, <1>4

LEMMA AllocatesKept ==
  ASSUME Shape, NEW t \in Threads,
         \/ detachNextBuffer(t) \/ onBuffersReleased(t) \/ allocateBuffers(t)
         \/ Preallocated(t) \/ PreallocationLost(t) \/ AllocatorResumes(t)
  PROVE  Kept
<1>1. ~InCallback(t) /\ UNCHANGED told
  BY Zenon DEF InCallback, detachNextBuffer, Manages, onBuffersReleased, allocateBuffers,
         Preallocated, PreallocationLost, AllocatorResumes, clients, consumers
<1>2. PICK r : Fields \subseteq DOMAIN r /\ r.pc # "queued" /\ thread' = Goes(t, r)
  <2> DEFINE At(pc) == [Idle EXCEPT !.pc = pc]
  <2>1. \A pc : Fields \subseteq DOMAIN At(pc) /\ At(pc).pc = pc  BY DEF Idle, Fields
  <2> HIDE DEF At
  <2>2. CASE thread' = Goes(t, Idle) \/ thread' = Goes(t, Releasing)  BY <2>2, IdleFacts
  <2>3. ASSUME NEW pc, pc # "queued", thread' = Goes(t, At(pc))
        PROVE  \E r : Fields \subseteq DOMAIN r /\ r.pc # "queued" /\ thread' = Goes(t, r)
    BY <2>1, <2>3
  <2>4. CASE Preallocated(t)
    <3>1. thread' = Goes(t, At("yielding")) \/ thread' = Goes(t, At("allocate"))
      BY <2>4 DEF Preallocated, At
    <3> QED  BY <2>3, <3>1
  <2>5. CASE allocateBuffers(t)  BY <2>2, <2>3, <2>5 DEF allocateBuffers, At
  <2>6. CASE PreallocationLost(t)  BY Zenon, <2>2, <2>3, <2>6 DEF PreallocationLost, At
  <2>7. CASE AllocatorResumes(t)  BY <2>3, <2>7 DEF AllocatorResumes, At
  <2>8. CASE detachNextBuffer(t) \/ onBuffersReleased(t)
    BY <2>2, <2>8 DEF detachNextBuffer, onBuffersReleased
  <2> QED  BY <2>4, <2>5, <2>6, <2>7, <2>8
<1>3. Moves(t)  BY <1>2, GoesStep
<1>4. CoreKept
  <2>1. mCore' = mCore \/ \E b \in BOOLEAN : mCore' = [mCore EXCEPT !.mIsAllocating = b]
    BY Zenon DEF detachNextBuffer, onBuffersReleased, allocateBuffers, Preallocated,
           PreallocationLost, AllocatorResumes, core
  <2> QED  BY <2>1 DEF CoreKept, CoreFields, Shape
<1> QED  BY <1>1, <1>3, <1>4, KeptByMove

(* The steps that set the limits, and those of the consumer. *)
LEMMA SettersKept ==
  ASSUME Shape, NEW t \in Threads,
         \/ disconnect(t) \/ (\E byApp \in ByApps : connect(t, byApp))
         \/ (\E b \in BOOLEAN : setAsyncMode(t, b) \/ setDequeueTimeout(t, b))
         \/ (\E n \in DequeuedCounts : setMaxDequeuedBufferCount(t, n))
  PROVE  Kept
<1>1. ~InCallback(t) /\ UNCHANGED told
  BY Zenon DEF InCallback, disconnect, connect, setAsyncMode, setDequeueTimeout,
         setMaxDequeuedBufferCount, Manages, clients, consumers
<1>2. CoreFields \subseteq DOMAIN mCore' /\ mCore'.mFrameCounter = mCore.mFrameCounter
  BY Zenon DEF disconnect, connect, setAsyncMode, setDequeueTimeout, setMaxDequeuedBufferCount,
         CoreFields, Shape
<1>3. thread' \in {thread, NotifyAll(thread), NotifyAll(Goes(t, Releasing))}
  BY Zenon DEF disconnect, connect, setAsyncMode, setDequeueTimeout, setMaxDequeuedBufferCount
<1>4. CASE thread' = thread  BY <1>1, <1>2, <1>4 DEF Kept, Quiet, Shape, InCallback
<1> QED  BY <1>1, <1>2, <1>3, <1>4, KeptByNotify

LEMMA ConsumerKept ==
  ASSUME Shape, ConsumerNext
  PROVE  Kept
<1>1. UNCHANGED told
  BY Zenon DEF ConsumerNext, acquireBuffer, releaseBuffer, DetachAcquired, setMaxAcquiredBufferCount,
         setMaxBufferCount, discardFreeBuffers, abandon, clients, consumers
<1>2. CoreFields \subseteq DOMAIN mCore' /\ mCore'.mFrameCounter = mCore.mFrameCounter
  BY Zenon DEF ConsumerNext, acquireBuffer, releaseBuffer, DetachAcquired, setMaxAcquiredBufferCount,
         setMaxBufferCount, discardFreeBuffers, abandon, core, CoreFields, Shape
<1>3. thread' = thread \/ thread' = NotifyAll(thread)
  BY Zenon DEF ConsumerNext, acquireBuffer, releaseBuffer, DetachAcquired, setMaxAcquiredBufferCount,
         setMaxBufferCount, discardFreeBuffers, abandon
<1>4. CASE thread' = thread  BY <1>1, <1>2, <1>4 DEF Kept, Quiet, Shape, InCallback
<1>5. CASE thread' = NotifyAll(thread)
  BY <1>1, <1>2, <1>5, NotifyStep, NotifiedQuiet DEF Kept, Notified, Shape
<1> QED  BY <1>3, <1>4, <1>5


----------------------------------------------------------------------------
(* queueBuffer takes a ticket, and the callback passes it on.              *)

LEMMA QueueTakesTicket ==
  ASSUME Shape, Tickets, NEW t \in Threads, NEW o, queueBuffer(t, o)
  PROVE  Threaded(thread') /\ CoreFields \subseteq DOMAIN mCore' /\ Tickets' /\ UNCHANGED told
<1> DEFINE f == mCore.mFrameCounter + 1
           r == [Idle EXCEPT !.pc = "queued", !.frame = f]
           th == Goes(t, r)
<1>1. Fields \subseteq DOMAIN r /\ r.pc = "queued" /\ r.frame = f  BY DEF Idle, Fields
<1> HIDE DEF r
<1>2. Threaded(th) /\ th[t] = r /\ \A u \in Threads \ {t} : th[u] = thread[u]
  BY <1>1, GoesFacts DEF Shape
<1> HIDE DEF th
<1>3. Notified(th)  BY <1>2, NotifyStep DEF queueBuffer, th, r, f
<1>4. ~InCallback(t)  BY DEF queueBuffer, MayReturn, InCallback
<1>5. UNCHANGED told  BY DEF queueBuffer, consumers
<1>6. CoreFields \subseteq DOMAIN mCore' /\ mCore'.mFrameCounter = f
  BY DEF queueBuffer, CoreFields, Shape
<1>7. InCallback(t)' /\ thread'[t].frame = f  BY <1>1, <1>2, <1>3 DEF Notified, InCallback
<1>8. \A u \in Threads \ {t} : /\ InCallback(u)' <=> InCallback(u)
                               /\ thread'[u].frame = thread[u].frame
  BY <1>2, <1>3 DEF Notified, InCallback
<1> HIDE DEF f
<1>9. f = mCore.mFrameCounter + 1 /\ mCore.mFrameCounter \in Nat  BY DEF f, Tickets
<1>10. Tickets'
  <2>1. /\ mCore'.mFrameCounter \in Nat
        /\ told'.ticket \in 0 .. mCore'.mFrameCounter /\ told'.frame = told'.ticket
    BY <1>5, <1>6, <1>9 DEF Tickets
  <2>2. ASSUME NEW u \in Threads, InCallback(u)'
        PROVE  thread'[u].frame \in told'.ticket + 1 .. mCore'.mFrameCounter
    BY <1>5, <1>6, <1>7, <1>8, <1>9, <2>2 DEF Tickets
  <2>3. ASSUME NEW u \in Threads, NEW v \in Threads, InCallback(u)', InCallback(v)',
               thread'[u].frame = thread'[v].frame
        PROVE  u = v
    BY <1>7, <1>8, <1>9, <2>3 DEF Tickets
  <2>4. ASSUME NEW g \in told'.ticket + 1 .. mCore'.mFrameCounter
        PROVE  \E u \in Threads : InCallback(u)' /\ thread'[u].frame = g
    <3>1. CASE g = f  BY <1>7, <3>1
    <3>2. CASE g # f
      <4>1. PICK u \in Threads : InCallback(u) /\ thread[u].frame = g
        BY <1>5, <1>6, <1>9, <3>2 DEF Tickets
      <4> QED  BY <1>4, <1>8, <4>1
    <3> QED  BY <3>1, <3>2
  <2> QED  BY <2>1, <2>2, <2>3, <2>4 DEF Tickets
<1>11. Threaded(thread')  BY <1>3 DEF Notified
<1> QED  BY <1>5, <1>6, <1>10, <1>11

LEMMA CallbackPassesTicket ==
  ASSUME Shape, Tickets, NEW t \in Threads, QueueCallsBack(t)
  PROVE  /\ Threaded(thread') /\ CoreFields \subseteq DOMAIN mCore' /\ Tickets'
         /\ told'.frame = told.frame + 1
<1>1. /\ InCallback(t) /\ thread[t].frame - 1 = told.ticket /\ UNCHANGED mCore
      /\ told'.ticket = told.ticket + 1 /\ told'.frame = thread[t].frame
  BY DEF QueueCallsBack, InCallback, core
<1>2. thread[t].frame = told.ticket + 1 /\ told.ticket \in Nat
  BY <1>1 DEF Tickets
<1>3. Threaded(thread') /\ ~InCallback(t)' /\ \A u \in Threads \ {t} : thread'[u] = thread[u]
  BY GoesFacts, IdleFacts DEF QueueCallsBack, InCallback, Shape
<1>4. Tickets'
  <2>1. /\ mCore'.mFrameCounter \in Nat
        /\ told'.ticket \in 0 .. mCore'.mFrameCounter /\ told'.frame = told'.ticket
    BY <1>1, <1>2 DEF Tickets
  <2>2. ASSUME NEW u \in Threads, InCallback(u)'
        PROVE  thread'[u].frame \in told'.ticket + 1 .. mCore'.mFrameCounter
    <3>1. u # t /\ InCallback(u) /\ thread'[u] = thread[u]  BY <1>3, <2>2 DEF InCallback
    <3>2. thread[u].frame # thread[t].frame  BY <1>1, <3>1 DEF Tickets
    <3> QED  BY <1>1, <1>2, <3>1, <3>2 DEF Tickets
  <2>3. ASSUME NEW u \in Threads, NEW v \in Threads, InCallback(u)', InCallback(v)',
               thread'[u].frame = thread'[v].frame
        PROVE  u = v
    BY <1>3, <2>3 DEF Tickets, InCallback
  <2>4. ASSUME NEW g \in told'.ticket + 1 .. mCore'.mFrameCounter
        PROVE  \E u \in Threads : InCallback(u)' /\ thread'[u].frame = g
    <3>1. PICK u \in Threads : InCallback(u) /\ thread[u].frame = g
      BY <1>1, <1>2 DEF Tickets
    <3>2. u # t  BY <1>1, <1>2, <3>1
    <3> QED  BY <1>3, <3>1, <3>2 DEF InCallback
  <2> QED  BY <2>1, <2>2, <2>3, <2>4 DEF Tickets
<1> QED  BY <1>1, <1>2, <1>3, <1>4 DEF Tickets, Shape

LEMMA TicketsInit ==
  ASSUME Init
  PROVE  Shape /\ Tickets
<1>1. Shape  BY DEF Init, Shape, Threaded, CoreFields, Fields, Idle
<1>2. \A t \in Threads : ~InCallback(t)  BY DEF Init, InCallback, Idle
<1>3. mCore.mFrameCounter = 0 /\ told.ticket = 0 /\ told.frame = 0  BY DEF Init
<1> QED  BY <1>1, <1>2, <1>3 DEF Tickets

LEMMA TicketsStep ==
  ASSUME Shape, Tickets, [Next]_vars
  PROVE  /\ Shape' /\ Tickets'
         /\ told'.frame # told.frame => told'.frame = told.frame + 1
<1>1. ASSUME Kept
      PROVE  /\ Shape' /\ Tickets'
             /\ told'.frame # told.frame => told'.frame = told.frame + 1
  BY <1>1, QuietKeeps DEF Kept, Quiet, Shape
<1>2. CASE UNCHANGED vars
  BY <1>1, <1>2 DEF vars, core, Kept, Quiet, Shape, InCallback
<1>3. CASE ConsumerNext  BY <1>1, <1>3, ConsumerKept
<1>4. ASSUME NEW t \in Threads, ProducerNext(t)
      PROVE  /\ Shape' /\ Tickets'
             /\ told'.frame # told.frame => told'.frame = told.frame + 1
  <2>1. ASSUME NEW o \in owned, queueBuffer(t, o)
        PROVE  Shape' /\ Tickets' /\ UNCHANGED told
    BY <2>1, QueueTakesTicket DEF Shape
  <2>2. CASE QueueCallsBack(t)  BY <2>2, CallbackPassesTicket DEF Shape
  <2>3. CASE \E o \in owned : cancelBuffer(t, o) \/ detachBuffer(t, o) \/ ReturnFails(t, o)
    BY <1>1, <2>3, ReturnsKept
  <2>4. CASE \/ dequeueBuffer(t) \/ DequeueAwaits(t) \/ DequeueSearches(t) \/ Woken(t)
             \/ TimedOut(t) \/ DequeueAllocated(t) \/ SurfaceDequeued(t) \/ attachBuffer(t)
    BY <1>1, <2>4, DequeuesKept
  <2>5. CASE \/ detachNextBuffer(t) \/ onBuffersReleased(t) \/ allocateBuffers(t)
             \/ Preallocated(t) \/ PreallocationLost(t) \/ AllocatorResumes(t)
    BY <1>1, <2>5, AllocatesKept
  <2>6. CASE \/ disconnect(t) \/ (\E byApp \in ByApps : connect(t, byApp))
             \/ (\E b \in BOOLEAN : setAsyncMode(t, b) \/ setDequeueTimeout(t, b))
             \/ (\E n \in DequeuedCounts : setMaxDequeuedBufferCount(t, n))
    BY <1>1, <2>6, SettersKept
  <2> QED  BY Zenon, <1>4, <2>1, <2>2, <2>3, <2>4, <2>5, <2>6 DEF ProducerNext
<1> QED  BY Zenon, <1>2, <1>3, <1>4 DEF Next

(* The listener is told of every frame, once and in order, however the     *)
(* threads that queue frames are scheduled after they have left the lock.  *)
THEOREM ListenerToldInOrder == Spec => CallbacksInOrder
<1>1. Init => Shape /\ Tickets  BY TicketsInit
<1>2. Shape /\ Tickets /\ [Next]_vars => Shape' /\ Tickets'  BY TicketsStep
<1>3. Shape /\ Tickets /\ [Next]_vars =>
        [told'.frame # told.frame => told'.frame = told.frame + 1]_told
  BY TicketsStep
<1> QED  BY <1>1, <1>2, <1>3, PTL DEF Spec, CallbacksInOrder

(* The callback that is due is never lost: while the listener has not been *)
(* told of a queued frame, exactly one thread holds the next ticket.       *)
THEOREM TicketNeverLost == Spec => []TicketHeld
<1>1. Init => Shape /\ Tickets  BY TicketsInit
<1>2. Shape /\ Tickets /\ [Next]_vars => Shape' /\ Tickets'  BY TicketsStep
<1>3. Tickets => TicketHeld
  <2> SUFFICES ASSUME Tickets, told.ticket < mCore.mFrameCounter
               PROVE  \E t \in Threads :
                        /\ InCallback(t) /\ thread[t].frame - 1 = told.ticket
                        /\ \A u \in Threads :
                             InCallback(u) /\ thread[u].frame - 1 = told.ticket => u = t
    BY DEF TicketHeld
  <2>1. told.ticket + 1 \in told.ticket + 1 .. mCore.mFrameCounter  BY DEF Tickets
  <2>2. PICK t \in Threads : InCallback(t) /\ thread[t].frame = told.ticket + 1
    BY <2>1 DEF Tickets
  <2>3. ASSUME NEW u \in Threads, InCallback(u), thread[u].frame - 1 = told.ticket
        PROVE  u = t
    <3>1. thread[u].frame = told.ticket + 1  BY <2>3 DEF Tickets
    <3> QED  BY <2>2, <2>3, <3>1 DEF Tickets
  <2>4. thread[t].frame - 1 = told.ticket  BY <2>2 DEF Tickets
  <2> QED  BY <2>2, <2>3, <2>4
<1> QED  BY <1>1, <1>2, <1>3, PTL DEF Spec


----------------------------------------------------------------------------
(* Which steps may leave a thread asleep.                                  *)

LEMMA NoCandidates ==
  ASSUME NEW call \in {"dequeue", "attach"}
  PROVE  Candidates(call) = {} <=> NoneFree
<1> DEFINE long == Len(mQueue) > getMaxBufferCountLocked(mCore)
<1>1. CASE long  BY <1>1 DEF Candidates, NoneFree
<1>2. CASE ~long
  <2>1. FirstFreeBuffer = {} <=> mFreeBuffers = <<>>  BY DEF FirstFreeBuffer
  <2>2. CASE call = "dequeue"
    <3>1. Candidates(call) = IF mFreeBuffers # <<>> THEN FirstFreeBuffer ELSE mFreeSlots
      BY <1>2, <2>2 DEF Candidates
    <3> QED  BY <1>2, <2>1, <3>1 DEF NoneFree
  <2>3. CASE call = "attach"
    <3>1. Candidates(call) = IF mFreeSlots = {} THEN FirstFreeBuffer ELSE mFreeSlots
      BY <1>2, <2>3 DEF Candidates
    <3> QED  BY <1>2, <2>1, <3>1 DEF NoneFree
  <2> QED  BY <2>2, <2>3
<1> QED  BY <1>1, <1>2

LEMMA SleepersNotified ==
  ASSUME Sleepers, NEW th, Notified(th),
         \A u \in Threads : th[u].pc \in {"waiting", "woken"} =>
                              th[u].pc = thread[u].pc /\ th[u].call = thread[u].call
  PROVE  Sleepers'
BY DEF Sleepers, Notified

(* One thread goes on, and what the others sleep for is still missing. *)
LEMMA SleepersMove ==
  ASSUME Sleepers, NEW t \in Threads, Moves(t), thread'[t].pc \notin {"waiting", "woken"},
         (\E u \in Threads : thread[u].pc = "waiting") /\ NoneFree /\ ~mCore.mIsAbandoned =>
            NoneFree' /\ ~mCore'.mIsAbandoned
  PROVE  Sleepers'
BY DEF Sleepers, Moves

LEMMA SameCount ==
  ASSUME CoreKept
  PROVE  /\ getMaxBufferCountLocked(mCore') = getMaxBufferCountLocked(mCore)
         /\ mCore'.mIsAbandoned = mCore.mIsAbandoned /\ (Limits => Limits')
BY DEF CoreKept, CoreFields, getMaxBufferCountLocked, Extra, Limits

LEMMA NoneFreeKept ==
  ASSUME CoreKept, UNCHANGED <<mQueue, mFreeBuffers, mFreeSlots>>
  PROVE  NoneFree <=> NoneFree'
BY SameCount DEF NoneFree

LEMMA WaitSleepers ==
  ASSUME Shape, Sleepers, NEW t \in Threads, NEW call \in {"dequeue", "attach"},
         waitForFreeSlotThenRelock(t, call)
  PROVE  Sleepers'
<1>0. Moves(t) /\ CoreKept  BY WaitStep
<1>1. CASE UNCHANGED core /\ thread' = Goes(t, Idle)
  <2>1. thread'[t].pc = "idle"  BY <1>1, GoesFacts, IdleFacts DEF Shape
  <2>2. NoneFree <=> NoneFree'  BY <1>0, <1>1, NoneFreeKept DEF core, lists
  <2>3. mCore' = mCore  BY <1>1 DEF core
  <2> QED  BY <1>0, <2>1, <2>2, <2>3, SleepersMove
<1>2. ASSUME NEW s \in Candidates(call), DequeueSlot(t, s) \/ AttachSlot(t, s)
      PROVE  Sleepers'
  <2>1. ~NoneFree  BY <1>2, NoCandidates
  <2>2. thread'[t].pc \notin {"waiting", "woken"}
    <3> DEFINE At(pc, f) == [Idle EXCEPT !.pc = pc, !.slot = s, !.flag = f]
    <3>1. \A pc, f : Fields \subseteq DOMAIN At(pc, f) /\ At(pc, f).pc = pc  BY DEF Idle, Fields
    <3> HIDE DEF At
    <3>2. \/ thread' = Goes(t, Idle)
          \/ \E f : thread' = Goes(t, At("dequeued", f)) \/ thread' = Goes(t, At("allocating", f))
      BY Zenon, <1>2 DEF DequeueSlot, AttachSlot, At
    <3> QED  BY <3>1, <3>2, GoesFacts, IdleFacts DEF Shape
  <2> QED  BY <1>0, <2>1, <2>2, SleepersMove
<1>3. CASE /\ ~Refused(call) /\ Candidates(call) = {} /\ UNCHANGED core
           /\ thread' = Goes(t, [Idle EXCEPT !.pc = "waiting", !.call = call, !.flag = mCore.timed])
  <2> DEFINE r == [Idle EXCEPT !.pc = "waiting", !.call = call, !.flag = mCore.timed]
  <2>1. Fields \subseteq DOMAIN r /\ r.call = call  BY DEF Idle, Fields
  <2> HIDE DEF r
  <2>2. thread'[t].call = call  BY Zenon, <1>3, <2>1, GoesFacts DEF Shape, r
  <2>3. NoneFree'  BY <1>0, <1>3, NoCandidates, NoneFreeKept DEF core, lists
  <2>4. ~mCore'.mIsAbandoned  BY <1>3 DEF Refused, core
  <2> QED  BY <1>0, <2>2, <2>3, <2>4 DEF Sleepers, Moves
<1> QED  BY <1>1, <1>2, <1>3 DEF waitForFreeSlotThenRelock

LEMMA DequeuesSleepers ==
  ASSUME FixedLimits, Shape, Limits, Sleepers, NEW t \in Threads,
         \/ dequeueBuffer(t) \/ DequeueAwaits(t) \/ DequeueSearches(t) \/ Woken(t)
         \/ TimedOut(t) \/ DequeueAllocated(t) \/ SurfaceDequeued(t) \/ attachBuffer(t)
  PROVE  Limits' /\ Sleepers'
<1> DEFINE At(pc) == [Idle EXCEPT !.pc = pc]
<1>0. \A pc : Fields \subseteq DOMAIN At(pc) /\ At(pc).pc = pc  BY DEF Idle, Fields
<1> HIDE DEF At
<1>1. ASSUME NEW pc \in {"dequeue", "awaiting", "attach"}, thread' = Goes(t, At(pc)), UNCHANGED core
      PROVE  Limits' /\ Sleepers'
  <2>1. Moves(t)  BY <1>0, <1>1, GoesStep
  <2>2. thread'[t].pc = pc  BY <1>0, <1>1, GoesFacts DEF Shape
  <2>3. CoreKept /\ mCore' = mCore  BY <1>1 DEF core, CoreKept, Shape
  <2>4. NoneFree <=> NoneFree'  BY <1>1, <2>3, NoneFreeKept DEF core, lists
  <2> QED  BY <2>1, <2>2, <2>3, <2>4, SleepersMove, SameCount
<1>2. ASSUME thread' = Goes(t, Idle), UNCHANGED <<mCore, lists, mQueue>>
      PROVE  Limits' /\ Sleepers'
  <2>1. Moves(t)  BY <1>2, IdleFacts, GoesStep
  <2>2. thread'[t].pc = "idle"  BY <1>2, IdleFacts, GoesFacts DEF Shape
  <2>3. CoreKept /\ mCore' = mCore  BY <1>2 DEF CoreKept, Shape
  <2>4. NoneFree <=> NoneFree'  BY <1>2, <2>3, NoneFreeKept DEF lists
  <2> QED  BY <2>1, <2>2, <2>3, <2>4, SleepersMove, SameCount
<1>3. ASSUME NEW call \in {"dequeue", "attach"}, waitForFreeSlotThenRelock(t, call)
      PROVE  Limits' /\ Sleepers'
  BY <1>3, WaitStep, WaitSleepers, SameCount
<1>4. CASE dequeueBuffer(t)  BY <1>1, <1>4 DEF dequeueBuffer, At
<1>5. CASE DequeueAwaits(t)  BY <1>1, <1>5 DEF DequeueAwaits, At
<1>6. CASE DequeueSearches(t)  BY <1>3, <1>6 DEF DequeueSearches
<1>7. CASE Woken(t)
  <2>1. thread[t].call \in {"dequeue", "attach"}  BY <1>7 DEF Woken, Sleepers
  <2> QED  BY <1>3, <1>7, <2>1 DEF Woken
<1>8. CASE TimedOut(t)  BY <1>2, <1>8 DEF TimedOut, core
<1>9. CASE DequeueAllocated(t)
  <2>1. CoreKept  BY <1>9 DEF DequeueAllocated, CoreKept, CoreFields, Shape
  <2>2. CASE /\ thread' = Goes(t, [thread[t] EXCEPT !.pc = "dequeued"])
             /\ UNCHANGED <<mFreeSlots, mFreeBuffers, mQueue>>
    <3> DEFINE r == [thread[t] EXCEPT !.pc = "dequeued"]
    <3>1. Fields \subseteq DOMAIN r /\ r.pc = "dequeued"  BY DEF Shape, Threaded, Fields
    <3> HIDE DEF r
    <3>2. thread' = Goes(t, r)  BY <2>2 DEF r
    <3>3. Moves(t) /\ thread'[t].pc = "dequeued"  BY <3>1, <3>2, GoesStep, GoesFacts DEF Shape
    <3>4. NoneFree <=> NoneFree'  BY <2>1, <2>2, NoneFreeKept
    <3> QED  BY <2>1, <3>3, <3>4, SleepersMove, SameCount
  <2>3. CASE thread' = Goes(t, Idle) /\ mCore.mIsAbandoned
    <3>1. Moves(t) /\ thread'[t].pc = "idle"  BY <2>3, IdleFacts, GoesStep, GoesFacts DEF Shape
    <3> QED  BY <2>1, <2>3, <3>1, SleepersMove, SameCount
  <2> QED  BY Zenon, <1>9, <2>2, <2>3 DEF DequeueAllocated, FixedLimits
<1>10. CASE SurfaceDequeued(t)  BY <1>2, <1>10 DEF SurfaceDequeued
<1>11. CASE attachBuffer(t)  BY <1>1, <1>3, <1>11 DEF attachBuffer, At
<1> QED  BY Zenon, <1>4, <1>5, <1>6, <1>7, <1>8, <1>9, <1>10, <1>11


LEMMA SleepersByNotify ==
  ASSUME Shape, Sleepers, NEW t \in Threads,
         thread' = NotifyAll(thread) \/ thread' = NotifyAll(Goes(t, Releasing))
  PROVE  Sleepers'
<1>1. CASE thread' = NotifyAll(thread)
  BY <1>1, NotifyStep, SleepersNotified DEF Shape
<1>2. CASE thread' = NotifyAll(Goes(t, Releasing))
  <2> DEFINE th == Goes(t, Releasing)
  <2>1. /\ Threaded(th) /\ th[t].pc = "releasing"
        /\ \A u \in Threads \ {t} : th[u] = thread[u]
    BY GoesFacts, IdleFacts DEF Shape
  <2> HIDE DEF th
  <2>2. Notified(th)  BY <1>2, <2>1, NotifyStep DEF th
  <2> QED  BY <2>1, <2>2, SleepersNotified
<1> QED  BY <1>1, <1>2

LEMMA ReturnsSleepers ==
  ASSUME Shape, Limits, Sleepers, NEW t \in Threads, NEW o,
         queueBuffer(t, o) \/ cancelBuffer(t, o) \/ detachBuffer(t, o) \/ ReturnFails(t, o)
  PROVE  Limits' /\ Sleepers'
<1>1. CASE queueBuffer(t, o)
  <2> DEFINE r == [Idle EXCEPT !.pc = "queued", !.frame = mCore.mFrameCounter + 1]
             th == Goes(t, r)
  <2>1. Fields \subseteq DOMAIN r /\ r.pc = "queued"  BY DEF Idle, Fields
  <2> HIDE DEF r
  <2>2. Threaded(th) /\ th[t].pc = "queued" /\ \A u \in Threads \ {t} : th[u] = thread[u]
    BY <2>1, GoesFacts DEF Shape
  <2> HIDE DEF th
  <2>3. Notified(th)  BY <1>1, <2>2, NotifyStep DEF queueBuffer, th, r
  <2>4. Sleepers'  BY <2>2, <2>3, SleepersNotified
  <2>5. Limits'  BY <1>1 DEF queueBuffer, Limits, Shape, CoreFields
  <2> QED  BY <2>4, <2>5
<1>2. CASE cancelBuffer(t, o)  BY <1>2, SleepersByNotify DEF cancelBuffer, Limits
<1>3. CASE detachBuffer(t, o)  BY <1>3, SleepersByNotify DEF detachBuffer, Limits
<1>4. CASE ReturnFails(t, o)
  <2>1. CoreKept /\ UNCHANGED <<mCore, thread>>
    BY <1>4 DEF ReturnFails, core, CoreKept, Shape
  <2>2. NoneFree <=> NoneFree'  BY <1>4, <2>1, NoneFreeKept DEF ReturnFails, core, lists
  <2> QED  BY <2>1, <2>2 DEF Limits, Sleepers
<1> QED  BY <1>1, <1>2, <1>3, <1>4

(* The buffers that these move from one list of free ones to the other are *)
(* not what a sleeper waits for: it would have taken them.                 *)
LEMMA AllocatesSleepers ==
  ASSUME Shape, Limits, Sleepers, NEW t \in Threads,
         \/ detachNextBuffer(t) \/ onBuffersReleased(t) \/ allocateBuffers(t)
         \/ Preallocated(t) \/ PreallocationLost(t) \/ AllocatorResumes(t) \/ QueueCallsBack(t)
  PROVE  Limits' /\ Sleepers'
<1> DEFINE At(pc) == [Idle EXCEPT !.pc = pc]
<1>0. \A pc : Fields \subseteq DOMAIN At(pc) /\ At(pc).pc = pc  BY DEF Idle, Fields
<1> HIDE DEF At
<1> DEFINE Goal == \E r : /\ Fields \subseteq DOMAIN r /\ thread' = Goes(t, r)
                          /\ r.pc \notin {"queued", "waiting", "woken"}
<1>a. Goal
  <2>1. CASE thread' = Goes(t, Idle) \/ thread' = Goes(t, Releasing)  BY <2>1, IdleFacts
  <2>2. ASSUME NEW pc \in {"allocate", "preallocating", "yielding"}, thread' = Goes(t, At(pc))
        PROVE  Goal
    BY <1>0, <2>2
  <2> HIDE DEF Goal
  <2>3. CASE detachNextBuffer(t) \/ onBuffersReleased(t) \/ QueueCallsBack(t)
    BY <2>1, <2>3 DEF detachNextBuffer, onBuffersReleased, QueueCallsBack
  <2>4. CASE allocateBuffers(t)  BY <2>1, <2>2, <2>4 DEF allocateBuffers, At
  <2>5. CASE Preallocated(t)
    <3>1. thread' = Goes(t, At("yielding")) \/ thread' = Goes(t, At("allocate"))
      BY Zenon, <2>5 DEF Preallocated, At
    <3> QED  BY <2>2, <3>1
  <2>6. CASE PreallocationLost(t)  BY Zenon, <2>1, <2>2, <2>6 DEF PreallocationLost, At
  <2>7. CASE AllocatorResumes(t)  BY <2>2, <2>7 DEF AllocatorResumes, At
  <2> QED  BY <2>3, <2>4, <2>5, <2>6, <2>7
<1>1. PICK r : /\ Fields \subseteq DOMAIN r /\ thread' = Goes(t, r)
               /\ r.pc \notin {"queued", "waiting", "woken"}
  BY <1>a
<1>2. Moves(t)  BY <1>1, GoesStep
<1>3. thread'[t].pc \notin {"waiting", "woken"}  BY <1>1, GoesFacts DEF Shape
<1>4. CoreKept
  <2>1. mCore' = mCore \/ \E b \in BOOLEAN : mCore' = [mCore EXCEPT !.mIsAllocating = b]
    BY Zenon DEF detachNextBuffer, onBuffersReleased, allocateBuffers, Preallocated,
                 PreallocationLost, AllocatorResumes, QueueCallsBack, core
  <2> QED  BY <2>1 DEF CoreKept, CoreFields, Shape
<1>5. NoneFree => NoneFree'
  <2>1. CASE UNCHANGED <<mQueue, mFreeBuffers, mFreeSlots>>  BY <1>4, <2>1, NoneFreeKept
  <2>2. ASSUME UNCHANGED mQueue, mFreeBuffers # <<>> \/ mFreeSlots # {}
        PROVE  NoneFree => NoneFree'
    BY <1>4, <2>2, SameCount DEF NoneFree
  <2>3. CASE detachNextBuffer(t)  BY <2>2, <2>3 DEF detachNextBuffer
  <2>4. CASE Preallocated(t)  BY Zenon, <2>1, <2>2, <2>4 DEF Preallocated
  <2>5. CASE \/ onBuffersReleased(t) \/ allocateBuffers(t) \/ PreallocationLost(t)
             \/ AllocatorResumes(t) \/ QueueCallsBack(t)
    BY Zenon, <2>1, <2>5 DEF onBuffersReleased, allocateBuffers, PreallocationLost, AllocatorResumes,
                      QueueCallsBack, core, lists
  <2> QED  BY <2>3, <2>4, <2>5
<1> QED  BY <1>2, <1>3, <1>4, <1>5, SleepersMove, SameCount

LEMMA AdjustByZero ==
  ASSUME adjustAvailableSlotsLocked(0)
  PROVE  UNCHANGED lists
BY DEF adjustAvailableSlotsLocked

LEMMA AdjustedByNone ==
  ASSUME Limits, NEW c, AdjustedTo(c),
         getMaxBufferCountLocked(c) = getMaxBufferCountLocked(mCore)
  PROVE  UNCHANGED lists
<1>1. getMaxBufferCountLocked(mCore) \in Int
  BY DEF Limits, getMaxBufferCountLocked, Extra
<1>2. getMaxBufferCountLocked(c) - getMaxBufferCountLocked(mCore) = 0  BY <1>1
<1> QED  BY <1>2, AdjustByZero DEF AdjustedTo

LEMMA SettersSleepers ==
  ASSUME FixedLimits, Shape, Limits, Sleepers, NEW t \in Threads,
         \/ disconnect(t) \/ (\E byApp \in ByApps : connect(t, byApp))
         \/ (\E b \in BOOLEAN : setAsyncMode(t, b) \/ setDequeueTimeout(t, b))
         \/ (\E n \in DequeuedCounts : setMaxDequeuedBufferCount(t, n))
  PROVE  Limits' /\ Sleepers'
<1>1. CASE disconnect(t)
  <2>1. Limits'  BY Zenon, <1>1 DEF disconnect, Limits, Shape, CoreFields
  <2> QED  BY Zenon, <1>1, <2>1, SleepersByNotify DEF disconnect
<1>2. ASSUME NEW b \in BOOLEAN, setAsyncMode(t, b)
      PROVE  Limits' /\ Sleepers'
  <2>1. Limits'  BY <1>2 DEF setAsyncMode, Limits, Shape, CoreFields
  <2> QED  BY <1>2, <2>1, SleepersByNotify DEF setAsyncMode
<1>3. ASSUME NEW n \in DequeuedCounts, setMaxDequeuedBufferCount(t, n)
      PROVE  Limits' /\ Sleepers'
  <2>1. Limits'
    BY <1>3 DEF setMaxDequeuedBufferCount, Limits, Shape, CoreFields, FixedLimits
  <2> QED  BY <1>3, <2>1, SleepersByNotify DEF setMaxDequeuedBufferCount
<1>4. ASSUME CoreKept, UNCHANGED <<lists, mQueue, thread>>
      PROVE  Limits' /\ Sleepers'
  BY <1>4, NoneFreeKept, SameCount DEF Sleepers, lists
<1>5. ASSUME NEW byApp \in ByApps, connect(t, byApp)
      PROVE  Limits' /\ Sleepers'
  <2> DEFINE c == [mCore EXCEPT !.mDequeueBufferCannotBlock = byApp /\ ~mCore.timed]
  <2>1. byApp = FALSE  BY Zenon DEF FixedLimits
  <2>2. getMaxBufferCountLocked(c) = getMaxBufferCountLocked(mCore)
    BY <2>1 DEF getMaxBufferCountLocked, Extra, Limits, Shape, CoreFields
  <2>3. UNCHANGED lists  BY Zenon, <1>5, <2>2, AdjustedByNone DEF connect
  <2>4. CoreKept  BY Zenon, <1>5, <2>1 DEF connect, CoreKept, CoreFields, Limits, Shape
  <2> QED  BY Zenon, <1>4, <1>5, <2>3, <2>4 DEF connect
<1>6. ASSUME NEW b \in BOOLEAN, setDequeueTimeout(t, b)
      PROVE  Limits' /\ Sleepers'
  <2> DEFINE c == [mCore EXCEPT !.mDequeueBufferCannotBlock = @ /\ ~b, !.timed = b]
  <2>2. getMaxBufferCountLocked(c) = getMaxBufferCountLocked(mCore)
    BY DEF getMaxBufferCountLocked, Extra, Limits, Shape, CoreFields
  <2>3. UNCHANGED lists  BY Zenon, <1>6, <2>2, AdjustedByNone DEF setDequeueTimeout
  <2>4. CoreKept  BY Zenon, <1>6 DEF setDequeueTimeout, CoreKept, CoreFields, Limits, Shape
  <2> QED  BY Zenon, <1>4, <1>6, <2>3, <2>4 DEF setDequeueTimeout
<1> QED  BY <1>1, <1>2, <1>3, <1>5, <1>6


LEMMA ConsumerSleepers ==
  ASSUME FixedLimits, Shape, Limits, Sleepers, ConsumerNext
  PROVE  Limits' /\ Sleepers'
<1>1. ASSUME thread' = NotifyAll(thread)
      PROVE  Sleepers'
  BY <1>1, NotifyStep, SleepersNotified DEF Shape
<1>2. ASSUME CoreKept, UNCHANGED thread, NoneFree => NoneFree'
      PROVE  Limits' /\ Sleepers'
  BY <1>2, SameCount DEF Sleepers
<1>3. ASSUME UNCHANGED mCore
      PROVE  CoreKept /\ Limits'
  BY <1>3 DEF CoreKept, Shape, Limits
<1>4. ASSUME NEW n, acquireBuffer(n)
      PROVE  Limits' /\ Sleepers'
  BY Zenon, <1>1, <1>3, <1>4 DEF acquireBuffer
<1>5. ASSUME NEW h, releaseBuffer(h)
      PROVE  Limits' /\ Sleepers'
  <2>1. CASE UNCHANGED <<core, thread>>
    <3>1. UNCHANGED mCore  BY <2>1 DEF core
    <3>2. NoneFree <=> NoneFree'  BY <1>3, <2>1, <3>1, NoneFreeKept DEF core, lists
    <3> QED  BY <1>2, <1>3, <2>1, <3>1, <3>2
  <2>2. CASE thread' = NotifyAll(thread) /\ UNCHANGED mCore  BY <1>1, <1>3, <2>2
  <2> QED  BY Zenon, <1>5, <2>1, <2>2 DEF releaseBuffer
<1>6. ASSUME NEW h, DetachAcquired(h)
      PROVE  Limits' /\ Sleepers'
  BY Zenon, <1>1, <1>3, <1>6 DEF DetachAcquired
<1>7. CASE discardFreeBuffers
  <2>1. UNCHANGED <<mCore, mQueue, thread>>  BY <1>7 DEF discardFreeBuffers
  <2>2. mFreeBuffers = <<>> /\ mFreeSlots = {} => mFreeSlots' = {}
    BY <1>7 DEF discardFreeBuffers, Range
  <2>3. mFreeBuffers' = <<>>  BY <1>7 DEF discardFreeBuffers
  <2>4. NoneFree => NoneFree'  BY <2>1, <2>2, <2>3 DEF NoneFree
  <2> QED  BY <1>2, <1>3, <2>1, <2>4
<1>8. CASE abandon
  <2>1. Limits'  BY <1>8 DEF abandon, Limits, Shape, CoreFields
  <2> QED  BY <1>1, <1>8, <2>1 DEF abandon
<1> QED  BY Zenon, <1>4, <1>5, <1>6, <1>7, <1>8 DEF ConsumerNext, FixedLimits

LEMMA SleepersInit ==
  ASSUME FixedLimits, Init
  PROVE  Limits /\ Sleepers
<1>1. Cardinality(Slots) \in Nat  BY FS_CardinalityType DEF FixedLimits
<1>2. Limits  BY <1>1 DEF Init, Limits
<1>3. \A t \in Threads : thread[t].pc = "idle"  BY DEF Init, Idle
<1> QED  BY <1>2, <1>3 DEF Sleepers

LEMMA SleepersStep ==
  ASSUME FixedLimits, Shape, Limits, Sleepers, [Next]_vars
  PROVE  Limits' /\ Sleepers'
<1>1. CASE UNCHANGED vars
  <2>1. UNCHANGED <<mCore, thread, mQueue, mFreeBuffers, mFreeSlots>>
    BY <1>1 DEF vars, core, lists
  <2>2. CoreKept  BY <2>1 DEF CoreKept, Shape
  <2>3. NoneFree <=> NoneFree'  BY <2>1, <2>2, NoneFreeKept
  <2> QED  BY <2>1, <2>3 DEF Limits, Sleepers
<1>2. CASE ConsumerNext  BY <1>2, ConsumerSleepers
<1>3. ASSUME NEW t \in Threads, ProducerNext(t)
      PROVE  Limits' /\ Sleepers'
  <2>1. CASE \E o \in owned : \/ queueBuffer(t, o) \/ cancelBuffer(t, o) \/ detachBuffer(t, o)
                              \/ ReturnFails(t, o)
    BY <2>1, ReturnsSleepers
  <2>2. CASE \/ dequeueBuffer(t) \/ DequeueAwaits(t) \/ DequeueSearches(t) \/ Woken(t)
             \/ TimedOut(t) \/ DequeueAllocated(t) \/ SurfaceDequeued(t) \/ attachBuffer(t)
    BY <2>2, DequeuesSleepers
  <2>3. CASE \/ detachNextBuffer(t) \/ onBuffersReleased(t) \/ allocateBuffers(t)
             \/ Preallocated(t) \/ PreallocationLost(t) \/ AllocatorResumes(t)
             \/ QueueCallsBack(t)
    BY <2>3, AllocatesSleepers
  <2>4. CASE \/ disconnect(t) \/ (\E byApp \in ByApps : connect(t, byApp))
             \/ (\E b \in BOOLEAN : setAsyncMode(t, b) \/ setDequeueTimeout(t, b))
             \/ (\E n \in DequeuedCounts : setMaxDequeuedBufferCount(t, n))
    BY <2>4, SettersSleepers
  <2> QED  BY Zenon, <1>3, <2>1, <2>2, <2>3, <2>4 DEF ProducerNext
<1> QED  BY Zenon, <1>1, <1>2, <1>3 DEF Next

(* No thread sleeps on mDequeueCondition while it could have a slot or the *)
(* queue is abandoned, for any number of threads that dequeue, attach and  *)
(* manage, as long as the consumer leaves its limits as they were and      *)
(* allocations succeed.                                                    *)
THEOREM NoSleeperForgotten == FixedLimits => (Spec => []SleepersHaveNoSlot)
<1> SUFFICES ASSUME FixedLimits
             PROVE  Spec => []SleepersHaveNoSlot
  OBVIOUS
<1> DEFINE SInv == Shape /\ Tickets /\ Limits /\ Sleepers
<1>1. Init => SInv  BY TicketsInit, SleepersInit
<1>2. SInv /\ [Next]_vars => SInv'  BY TicketsStep, SleepersStep
<1>3. SInv => SleepersHaveNoSlot  BY NoCandidates DEF SleepersHaveNoSlot, Sleepers
<1> QED  BY <1>1, <1>2, <1>3, PTL DEF Spec

=============================================================================
