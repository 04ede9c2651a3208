----------------------------- MODULE BufferQueue -----------------------------
(***************************************************************************)
(* A BufferQueue: the slots through which the threads of a producer hand   *)
(* buffers to a consumer, with the cache of slot-to-buffer mappings that   *)
(* each side keeps (Surface::mSlots and ConsumerBase::mSlots).             *)
(*                                                                         *)
(* A step is what a call does in one critical section of the core's mMutex *)
(* together with what its caller does in Surface or ConsumerBase.  The     *)
(* calls that leave the section in between (to allocate, to wait or to     *)
(* call a listener) have a step for each part.                             *)
(*                                                                         *)
(* The queue is not in shared buffer mode, so the three counts of a        *)
(* BufferState are at most one, and one at most is not zero: mBufferState  *)
(* is a single state.  Which free or unused slot is taken does not matter: *)
(* any may be.  Surface's own mutex, which lets one caller in at a time,   *)
(* is left out: several producers may call the queue at once.              *)
(***************************************************************************)
EXTENDS Integers, Sequences, FiniteSets, Functions

CONSTANTS
  Threads,         \* the threads that call the producer's interface
  Dequeuers,       \* those that call dequeueBuffer and attachBuffer,
  Allocators,      \* those that call allocateBuffers,
  Managers,        \* and those that connect, disconnect, detach and set the limits
  Slots,           \* 0 .. NUM_BUFFER_SLOTS - 1
  Buffers,         \* bound: the buffers there may be at a time
  NoBuffer,        \* nullptr
  NoSlot,          \* INVALID_BUFFER_SLOT
  MaxFrames,       \* bound: the frames that are queued
  DequeuedCounts,  \* the arguments of setMaxDequeuedBufferCount,
  AcquiredCounts,  \* setMaxAcquiredBufferCount
  BufferCounts,    \* and setMaxBufferCount
  LateLimits,      \* whether the consumer sets its limit while a producer is connected
  ByApps,          \* whether the application controls both sides: a set of BOOLEANs
  Resizes,         \* whether a dequeue may ask for another size: a set of BOOLEANs
  Failures,        \* whether a dequeue's allocation may fail: a set of BOOLEANs
  Batches          \* whether Surface::dequeueBuffers is called: a set of BOOLEANs

VARIABLES
  mCore,           \* the flags, limits and counters of BufferQueueCore
  mSlots,          \* its slots,
  mFreeSlots,      \* the free ones without a buffer
  mFreeBuffers,    \* and with one, the oldest first,
  mUnusedSlots,    \* those beyond the present limits
  mActiveBuffers,  \* and those that the producer, the queue or the consumer has
  mQueue,          \* the queued frames
  awaited,         \* mDequeueWaitingForAllocation
  thread,          \* where each thread of the producer is in its call
  surface,         \* the buffer that Surface has for each slot
  owned,           \* the buffers that the application has dequeued, by slot
  consumer,        \* the buffer that ConsumerBase has for each slot, and its frame
  held,            \* the buffers that the consumer has acquired, by slot
  told             \* the callbacks made, and the frame of the last one

lists == <<mFreeSlots, mFreeBuffers, mUnusedSlots, mActiveBuffers>>
core == <<mCore, mSlots, lists, mQueue>>
vars == <<core, awaited, thread, surface, owned, consumer, held, told>>

BufferSlot ==
  [mGraphicBuffer : Buffers \cup {NoBuffer}, mFrameNumber : 0 .. MaxFrames,
   mBufferState : {"free", "dequeued", "queued", "acquired"},
   mRequestBufferCalled : BOOLEAN, mAcquireCalled : BOOLEAN, mNeedsReallocation : BOOLEAN]

BufferItem ==
  [mSlot : Slots, mGraphicBuffer : Buffers, mFrameNumber : 1 .. MaxFrames,
   mAcquireCalled : BOOLEAN, mIsDroppable : BOOLEAN, mIsStale : BOOLEAN]

(* mBufferState is as BufferState::reset leaves it. *)
EmptySlot(realloc) ==
  [mGraphicBuffer |-> NoBuffer, mFrameNumber |-> 0, mBufferState |-> "free",
   mRequestBufferCalled |-> FALSE, mAcquireCalled |-> FALSE, mNeedsReallocation |-> realloc]

NotCached == [buffer |-> NoBuffer, frame |-> 0]

(* Where a thread is.  slot is the slot it has taken, flag is              *)
(* BUFFER_NEEDS_REALLOCATION of its dequeue, or whether its wait has a     *)
(* timeout, and frame is the frame it is to call the listener with.        *)
ThreadState ==
  [pc : {"idle", "dequeue", "awaiting", "waiting", "woken", "allocating", "dequeued", "attach",
         "queued", "releasing", "allocate", "preallocating", "yielding"},
   call : {"none", "dequeue", "attach"}, flag : BOOLEAN, slot : Slots \cup {NoSlot},
   frame : 0 .. MaxFrames]

Idle == [pc |-> "idle", call |-> "none", flag |-> FALSE, slot |-> NoSlot, frame |-> 0]

-----------------------------------------------------------------------------
(* getMinUndequeuedBufferCountLocked and getMaxBufferCountLocked, given    *)
(* the limits.                                                             *)
Extra(c) == IF c.mAsyncMode \/ c.mDequeueBufferCannotBlock THEN 1 ELSE 0

getMinUndequeuedBufferCountLocked(c) == c.mMaxAcquiredBufferCount + Extra(c)

getMaxBufferCountLocked(c) ==
  LET count == c.mMaxAcquiredBufferCount + c.mMaxDequeuedBufferCount + Extra(c)
  IN  IF count < c.mMaxBufferCount THEN count ELSE c.mMaxBufferCount

InState(state) == {s \in mActiveBuffers : mSlots[s].mBufferState = state}

clearBufferSlotLocked(S) == [s \in Slots |-> IF s \in S THEN EmptySlot(TRUE) ELSE mSlots[s]]

(* Mutant: the active slots are forgotten. *)
FreesAllButActive ==
  LET S == mFreeSlots \cup Range(mFreeBuffers)
  IN  /\ mSlots' = clearBufferSlotLocked(S \cup mActiveBuffers)
      /\ mFreeSlots' = S /\ mFreeBuffers' = <<>> /\ mActiveBuffers' = {}
      /\ UNCHANGED mUnusedSlots

freeAllBuffersLocked ==
  LET S == mFreeSlots \cup Range(mFreeBuffers) \cup mActiveBuffers
  IN  /\ mSlots' = clearBufferSlotLocked(S)
      /\ mFreeSlots' = S /\ mFreeBuffers' = <<>> /\ mActiveBuffers' = {}
      /\ UNCHANGED mUnusedSlots

(* adjustAvailableSlotsLocked returns TRUE: slots are added from the       *)
(* unused ones, or the free slots and then the last free buffers are given *)
(* up.                                                                     *)
GrowBy(n) ==
  \E S \in SUBSET mUnusedSlots :
     /\ Cardinality(S) = n
     /\ mUnusedSlots' = mUnusedSlots \ S
     /\ mFreeSlots' = mFreeSlots \cup S
     /\ UNCHANGED <<mSlots, mFreeBuffers, mActiveBuffers>>

ShrinkBy(n) ==
  \E S \in SUBSET mFreeSlots, k \in 0 .. Len(mFreeBuffers) :
     LET kept == SubSeq(mFreeBuffers, 1, k)
         gone == S \cup (Range(mFreeBuffers) \ Range(kept))
     IN  /\ Cardinality(gone) = n
         /\ kept = mFreeBuffers \/ S = mFreeSlots
         /\ mSlots' = clearBufferSlotLocked(gone)
         /\ mUnusedSlots' = mUnusedSlots \cup gone
         /\ mFreeSlots' = mFreeSlots \ S
         /\ mFreeBuffers' = kept
         /\ UNCHANGED mActiveBuffers

adjustAvailableSlotsLocked(delta) ==
  CASE delta < 0 -> ShrinkBy(-delta)
    [] delta = 0 -> UNCHANGED <<mSlots, lists>>
    [] delta > 0 -> GrowBy(delta)

(* mDequeueCondition.notify_all(), in a step that leaves the threads as th. *)
NotifyAll(th) ==
  [u \in Threads |-> IF th[u].pc = "waiting" THEN [th[u] EXCEPT !.pc = "woken"] ELSE th[u]]

Goes(t, state) == [thread EXCEPT ![t] = state]

(* The caller calls onBuffersReleased once it has left the section. *)
Releasing == [Idle EXCEPT !.pc = "releasing"]

(* A buffer that nobody refers to any more is as good as a new one. *)
NewBuffers ==
  Buffers \ (   {mSlots[s].mGraphicBuffer : s \in Slots} \cup {surface[s] : s \in Slots}
             \cup {consumer[s].buffer : s \in Slots} \cup {i.mGraphicBuffer : i \in Range(mQueue)}
             \cup {o.buffer : o \in owned} \cup {h.buffer : h \in held})

-----------------------------------------------------------------------------
Init ==
  /\ \E S \in SUBSET Slots :
        /\ Cardinality(S) = 2
        /\ mFreeSlots = S /\ mUnusedSlots = Slots \ S
  /\ mFreeBuffers = <<>> /\ mActiveBuffers = {} /\ mQueue = <<>>
  /\ mSlots = [s \in Slots |-> EmptySlot(FALSE)]
  /\ mCore = [mIsAbandoned |-> FALSE, connected |-> FALSE, mDequeueBufferCannotBlock |-> FALSE,
              mQueueBufferCanDrop |-> FALSE, mAsyncMode |-> FALSE, mIsAllocating |-> FALSE,
              mBufferHasBeenQueued |-> FALSE, mMaxBufferCount |-> Cardinality(Slots),
              mMaxAcquiredBufferCount |-> 1, mMaxDequeuedBufferCount |-> 1, mFrameCounter |-> 0,
              timed |-> FALSE]
  /\ awaited = FALSE
  /\ thread = [t \in Threads |-> Idle]
  /\ surface = [s \in Slots |-> NoBuffer] /\ owned = {}
  /\ consumer = [s \in Slots |-> NotCached] /\ held = {}
  /\ told = [ticket |-> 0, frame |-> 0]

-----------------------------------------------------------------------------
(* The slots that a caller of waitForFreeSlotThenRelock may be given: a    *)
(* dequeue prefers a free buffer, an attach a free slot.                   *)
FirstFreeBuffer == IF mFreeBuffers = <<>> THEN {} ELSE {Head(mFreeBuffers)}

Candidates(call) ==
  IF Len(mQueue) > getMaxBufferCountLocked(mCore) THEN {}
  ELSE CASE call = "dequeue" /\ mFreeBuffers # <<>> -> FirstFreeBuffer
         [] call = "attach" /\ mFreeSlots = {} -> FirstFreeBuffer
         [] OTHER -> mFreeSlots

Takes(s) ==
  /\ mFreeSlots' = mFreeSlots \ {s}
  /\ mFreeBuffers' = IF s \in mFreeSlots THEN mFreeBuffers ELSE Tail(mFreeBuffers)
  /\ mActiveBuffers' = mActiveBuffers \cup {s}
  /\ UNCHANGED mUnusedSlots

(* Mutant: a slot without a buffer is taken to have one. *)
DequeuesEmpty(t, s) ==
  /\ mSlots' = [mSlots EXCEPT ![s].mBufferState = "dequeued", ![s].mNeedsReallocation = FALSE]
  /\ thread' = Goes(t, [Idle EXCEPT !.pc = "dequeued", !.slot = s,
                                    !.flag = mSlots[s].mNeedsReallocation])
  /\ UNCHANGED mCore

(* Mutant: a slot keeps mAcquireCalled when it gets a new buffer. *)
DequeuesAcquired(t, s) ==
  /\ mSlots' = [mSlots EXCEPT ![s] = [@ EXCEPT !.mGraphicBuffer = NoBuffer,
                  !.mBufferState = "dequeued", !.mRequestBufferCalled = FALSE,
                  !.mNeedsReallocation = FALSE]]
  /\ mCore' = [mCore EXCEPT !.mIsAllocating = TRUE]
  /\ thread' = Goes(t, [Idle EXCEPT !.pc = "allocating", !.slot = s, !.flag = TRUE])

(* What the rest of dequeueBuffer's section does with slot s.  The slot of *)
(* a buffer that is missing or of another size gets a new one outside it.  *)
DequeueSlot(t, s) ==
  LET slot == mSlots[s]
  IN  \/ /\ slot.mGraphicBuffer # NoBuffer
         /\ mSlots' = [mSlots EXCEPT ![s].mBufferState = "dequeued",
                                     ![s].mNeedsReallocation = FALSE]
         /\ thread' = Goes(t, [Idle EXCEPT !.pc = "dequeued", !.slot = s,
                                           !.flag = slot.mNeedsReallocation])
         /\ UNCHANGED mCore
      \/ /\ slot.mGraphicBuffer = NoBuffer \/ TRUE \in Resizes
         /\ mSlots' = [mSlots EXCEPT ![s] =
                        [EmptySlot(FALSE) EXCEPT !.mBufferState = "dequeued",
                                                 !.mFrameNumber = slot.mFrameNumber]]
         /\ mCore' = [mCore EXCEPT !.mIsAllocating = TRUE]
         /\ thread' = Goes(t, [Idle EXCEPT !.pc = "allocating", !.slot = s, !.flag = TRUE])

(* The rest of attachBuffer, with that of Surface::attachBuffer. *)
AttachSlot(t, s) ==
  \E b \in NewBuffers :
     /\ mSlots' = [mSlots EXCEPT ![s] = [@ EXCEPT !.mGraphicBuffer = b,
                     !.mBufferState = "dequeued", !.mRequestBufferCalled = TRUE,
                     !.mAcquireCalled = FALSE, !.mNeedsReallocation = FALSE]]
     /\ surface' = [surface EXCEPT ![s] = b]
     /\ owned' = owned \cup {[slot |-> s, buffer |-> b]}
     /\ thread' = Goes(t, Idle)
     /\ UNCHANGED mCore

(* waitForFreeSlotThenRelock fails, finds a slot, or waits. *)
Refused(call) ==
  \/ mCore.mIsAbandoned
  \/ /\ mCore.mBufferHasBeenQueued
     /\ Cardinality(InState("dequeued")) >= mCore.mMaxDequeuedBufferCount
  \/ /\ Candidates(call) = {}
     /\ mCore.mDequeueBufferCannotBlock \/ mCore.mAsyncMode
     /\ Cardinality(InState("acquired")) <= mCore.mMaxAcquiredBufferCount

waitForFreeSlotThenRelock(t, call) ==
  \/ /\ Refused(call)
     /\ thread' = Goes(t, Idle)
     /\ UNCHANGED <<core, surface, owned>>
  \/ /\ ~Refused(call)
     /\ \E s \in Candidates(call) :
           /\ Takes(s)
           /\ \/ call = "dequeue" /\ DequeueSlot(t, s) /\ UNCHANGED <<surface, owned>>
              \/ call = "attach" /\ AttachSlot(t, s)
     /\ UNCHANGED mQueue
  \/ /\ ~Refused(call) /\ Candidates(call) = {}
     /\ thread' = Goes(t, [Idle EXCEPT !.pc = "waiting", !.call = call, !.flag = mCore.timed])
     /\ UNCHANGED <<core, surface, owned>>

consumers == <<consumer, held, told>>
clients == <<surface, owned, consumers>>

(* dequeueBuffer: the first section, and the second, which waits for an    *)
(* allocation under way if no buffer is free.                              *)
dequeueBuffer(t) ==
  /\ t \in Dequeuers /\ thread[t].pc = "idle"
  /\ ~mCore.mIsAbandoned /\ mCore.connected
  /\ thread' = Goes(t, [Idle EXCEPT !.pc = "dequeue"])
  /\ UNCHANGED <<core, awaited, clients>>

DequeueAwaits(t) ==
  /\ thread[t].pc = "dequeue" /\ mFreeBuffers = <<>> /\ mCore.mIsAllocating
  /\ awaited' = TRUE
  /\ thread' = Goes(t, [Idle EXCEPT !.pc = "awaiting"])
  /\ UNCHANGED <<core, clients>>

DequeueSearches(t) ==
  /\ \/ /\ thread[t].pc = "dequeue" /\ ~(mFreeBuffers = <<>> /\ mCore.mIsAllocating)
        /\ UNCHANGED awaited
     \/ /\ thread[t].pc = "awaiting" /\ ~mCore.mIsAllocating
        /\ awaited' = FALSE
  /\ waitForFreeSlotThenRelock(t, "dequeue")
  /\ UNCHANGED consumers

Woken(t) ==
  /\ thread[t].pc = "woken"
  /\ waitForFreeSlotThenRelock(t, thread[t].call)
  /\ UNCHANGED <<awaited, consumers>>

TimedOut(t) ==
  /\ thread[t].pc = "waiting" /\ thread[t].flag
  /\ thread' = Goes(t, Idle)
  /\ UNCHANGED <<core, awaited, clients>>

(* The third section of dequeueBuffer, after the allocation. *)
DequeueAllocated(t) ==
  /\ thread[t].pc = "allocating"
  /\ mCore' = [mCore EXCEPT !.mIsAllocating = FALSE]
  /\ LET s == thread[t].slot
     IN  \/ /\ ~mCore.mIsAbandoned
            /\ \E b \in NewBuffers : mSlots' = [mSlots EXCEPT ![s].mGraphicBuffer = b]
            /\ thread' = Goes(t, [thread[t] EXCEPT !.pc = "dequeued"])
            /\ UNCHANGED mFreeSlots
         \/ /\ mCore.mIsAbandoned \/ TRUE \in Failures
            /\ mFreeSlots' = mFreeSlots \cup {s}
            /\ mSlots' = clearBufferSlotLocked({s})
            /\ thread' = Goes(t, Idle)
  /\ UNCHANGED <<mFreeBuffers, mUnusedSlots, mActiveBuffers, mQueue, awaited, clients>>

(* The rest of Surface::dequeueBuffer or, in a batch, of dequeueBuffers,   *)
(* with requestBuffer.  cancelBuffer, which follows a failed request,      *)
(* fails for the same reasons.                                             *)
Requestable(s) ==
  ~mCore.mIsAbandoned /\ mCore.connected /\ mSlots[s].mBufferState = "dequeued"

SurfaceDequeued(t) ==
  LET s == thread[t].slot
  IN  /\ thread[t].pc = "dequeued"
      /\ thread' = Goes(t, Idle)
      /\ \E batch \in Batches :
           \/ /\ (~batch /\ thread[t].flag) \/ surface[s] = NoBuffer
              /\ \/ /\ Requestable(s)
                    /\ mSlots' = [mSlots EXCEPT ![s].mRequestBufferCalled = TRUE]
                    /\ surface' = [surface EXCEPT ![s] = mSlots[s].mGraphicBuffer]
                    /\ owned' = owned \cup {[slot |-> s, buffer |-> mSlots[s].mGraphicBuffer]}
                 \/ /\ ~Requestable(s)
                    /\ UNCHANGED <<mSlots, surface, owned>>
           \/ /\ (batch \/ ~thread[t].flag) /\ surface[s] # NoBuffer
              /\ owned' = owned \cup {[slot |-> s, buffer |-> surface[s]]}
              /\ UNCHANGED <<mSlots, surface>>
      /\ UNCHANGED <<mCore, lists, mQueue, awaited, consumers>>

(* attachBuffer, which waits for an allocation under way. *)
attachBuffer(t) ==
  /\ \/ /\ t \in Dequeuers /\ thread[t].pc = "idle"
        /\ ~mCore.mIsAbandoned /\ mCore.connected
     \/ thread[t].pc = "attach" /\ ~mCore.mIsAllocating
  /\ \/ /\ mCore.mIsAllocating
        /\ thread' = Goes(t, [Idle EXCEPT !.pc = "attach"])
        /\ UNCHANGED <<core, surface, owned>>
     \/ ~mCore.mIsAllocating /\ waitForFreeSlotThenRelock(t, "attach")
  /\ UNCHANGED <<awaited, consumers>>

-----------------------------------------------------------------------------
Manages(t) == t \in Managers /\ thread[t].pc = "idle" /\ ~mCore.mIsAbandoned

(* The application may give back buffer o: Surface knows its slot, and the *)
(* queue takes it.                                                         *)
MayReturn(t, o) == thread[t].pc = "idle" /\ surface[o.slot] = o.buffer

Returnable(s) == Requestable(s) /\ mSlots[s].mRequestBufferCalled

(* queueBuffer replaces the last frame of the queue if that is droppable.  *)
(* It takes the next ticket; a ticket is taken with each frame number, so  *)
(* the ticket of frame f is f - 1.                                         *)
queueBuffer(t, o) ==
  LET s == o.slot
      f == mCore.mFrameCounter + 1
      item == [mSlot |-> s, mGraphicBuffer |-> mSlots[s].mGraphicBuffer, mFrameNumber |-> f,
               mAcquireCalled |-> mSlots[s].mAcquireCalled,
               mIsDroppable |-> mCore.mAsyncMode \/ mCore.mQueueBufferCanDrop,
               mIsStale |-> FALSE]
      last == mQueue[Len(mQueue)]
      queued == [mSlots EXCEPT ![s].mBufferState = "queued", ![s].mFrameNumber = f]
      replaces == mQueue # <<>> /\ last.mIsDroppable
      frees == replaces /\ ~last.mIsStale
  IN  /\ MayReturn(t, o) /\ Returnable(s)
      /\ mCore.mFrameCounter < MaxFrames
      /\ mCore' = [mCore EXCEPT !.mFrameCounter = f, !.mBufferHasBeenQueued = TRUE]
      /\ mSlots' = IF frees THEN [queued EXCEPT ![last.mSlot].mBufferState = "free"] ELSE queued
      /\ mActiveBuffers' = IF frees THEN mActiveBuffers \ {last.mSlot} ELSE mActiveBuffers
      /\ mFreeBuffers' = IF frees THEN Append(mFreeBuffers, last.mSlot) ELSE mFreeBuffers
      /\ mQueue' = IF replaces THEN [mQueue EXCEPT ![Len(mQueue)] = item]
                               ELSE Append(mQueue, item)
      /\ thread' = NotifyAll(Goes(t, [Idle EXCEPT !.pc = "queued", !.frame = f]))
      /\ owned' = owned \ {o}
      /\ UNCHANGED <<mFreeSlots, mUnusedSlots, awaited, surface, consumers>>

(* Mutant: the listener is called without waiting for the ticket. *)
CallsBackAtOnce(t) ==
  /\ thread[t].pc = "queued"
  /\ told' = [ticket |-> told.ticket + 1, frame |-> thread[t].frame]
  /\ thread' = Goes(t, Idle)
  /\ UNCHANGED <<core, awaited, surface, owned, consumer, held>>

(* The rest of queueBuffer: onFrameAvailable or onFrameReplaced, in the    *)
(* order of the tickets.                                                   *)
QueueCallsBack(t) ==
  /\ thread[t].pc = "queued" /\ thread[t].frame - 1 = told.ticket
  /\ told' = [ticket |-> told.ticket + 1, frame |-> thread[t].frame]
  /\ thread' = Goes(t, Idle)
  /\ UNCHANGED <<core, awaited, surface, owned, consumer, held>>

cancelBuffer(t, o) ==
  /\ MayReturn(t, o) /\ Requestable(o.slot)
  /\ mSlots' = [mSlots EXCEPT ![o.slot].mBufferState = "free"]
  /\ mActiveBuffers' = mActiveBuffers \ {o.slot}
  /\ mFreeBuffers' = Append(mFreeBuffers, o.slot)
  /\ thread' = NotifyAll(thread)
  /\ owned' = owned \ {o}
  /\ UNCHANGED <<mCore, mFreeSlots, mUnusedSlots, mQueue, awaited, surface, consumers>>

detachBuffer(t, o) ==
  /\ t \in Managers /\ MayReturn(t, o) /\ Returnable(o.slot)
  /\ mSlots' = clearBufferSlotLocked({o.slot})
  /\ mActiveBuffers' = mActiveBuffers \ {o.slot}
  /\ mFreeSlots' = mFreeSlots \cup {o.slot}
  /\ thread' = NotifyAll(Goes(t, Releasing))
  /\ owned' = owned \ {o}
  /\ UNCHANGED <<mCore, mFreeBuffers, mUnusedSlots, mQueue, awaited, surface, consumers>>

(* The queue does not take buffer o, and the application is rid of it. *)
ReturnFails(t, o) ==
  /\ thread[t].pc = "idle"
  /\ ~Returnable(o.slot)
  /\ owned' = owned \ {o}
  /\ UNCHANGED <<core, awaited, thread, surface, consumers>>

(* detachNextBuffer, with the cache entries that Surface drops. *)
detachNextBuffer(t) ==
  /\ Manages(t) /\ ~mCore.mIsAllocating /\ mCore.connected
  /\ mFreeBuffers # <<>>
  /\ LET s == Head(mFreeBuffers)
     IN  /\ mFreeSlots' = mFreeSlots \cup {s}
         /\ mSlots' = clearBufferSlotLocked({s})
         /\ surface' = [u \in Slots |-> IF surface[u] = mSlots[s].mGraphicBuffer
                                        THEN NoBuffer ELSE surface[u]]
  /\ mFreeBuffers' = Tail(mFreeBuffers)
  /\ thread' = Goes(t, Releasing)
  /\ UNCHANGED <<mCore, mUnusedSlots, mActiveBuffers, mQueue, awaited, owned, consumers>>

(* ConsumerBase::onBuffersReleased, with getReleasedBuffers. *)
getReleasedBuffers ==
  {s \in Slots : ~mSlots[s].mAcquireCalled
                 /\ \A i \in Range(mQueue) : i.mSlot = s => ~i.mAcquireCalled}

freeBuffersLocked(S) == [s \in Slots |-> IF s \in S THEN NotCached ELSE consumer[s]]

onBuffersReleased(t) ==
  /\ thread[t].pc = "releasing"
  /\ consumer' = IF mCore.mIsAbandoned THEN consumer ELSE freeBuffersLocked(getReleasedBuffers)
  /\ thread' = Goes(t, Idle)
  /\ UNCHANGED <<core, awaited, surface, owned, held, told>>

-----------------------------------------------------------------------------
(* allocateBuffers allocates a buffer at a time while a slot is free, and  *)
(* lets a dequeue that awaits the buffer have it.                          *)
allocateBuffers(t) ==
  /\ \/ t \in Allocators /\ thread[t].pc = "idle" /\ mFreeSlots # {}
     \/ thread[t].pc = "allocate"
  /\ ~mCore.mIsAllocating
  /\ \/ /\ mFreeSlots # {}
        /\ mCore' = [mCore EXCEPT !.mIsAllocating = TRUE]
        /\ thread' = Goes(t, [Idle EXCEPT !.pc = "preallocating"])
     \/ /\ mFreeSlots = {}
        /\ thread' = Goes(t, Idle)
        /\ UNCHANGED mCore
  /\ UNCHANGED <<mSlots, lists, mQueue, awaited, clients>>

(* Mutant: the slot does not have to be requested again. *)
PreallocatedSilently(t) ==
  /\ thread[t].pc = "preallocating"
  /\ mCore' = [mCore EXCEPT !.mIsAllocating = FALSE]
  /\ \/ \E s \in mFreeSlots, b \in NewBuffers :
           /\ mSlots' = [mSlots EXCEPT ![s] = [EmptySlot(FALSE) EXCEPT !.mGraphicBuffer = b]]
           /\ mFreeBuffers' = <<s>> \o mFreeBuffers
           /\ mFreeSlots' = mFreeSlots \ {s}
     \/ mFreeSlots = {} /\ UNCHANGED <<mSlots, mFreeSlots, mFreeBuffers>>
  /\ thread' = Goes(t, [Idle EXCEPT !.pc = IF awaited THEN "yielding" ELSE "allocate"])
  /\ UNCHANGED <<mUnusedSlots, mActiveBuffers, mQueue, awaited, clients>>

(* The allocation is done: a slot is still free, or none is. *)
Preallocated(t) ==
  /\ thread[t].pc = "preallocating"
  /\ mCore' = [mCore EXCEPT !.mIsAllocating = FALSE]
  /\ \/ \E s \in mFreeSlots, b \in NewBuffers :
           /\ mSlots' = [mSlots EXCEPT ![s] = [EmptySlot(TRUE) EXCEPT !.mGraphicBuffer = b]]
           /\ mFreeBuffers' = <<s>> \o mFreeBuffers
           /\ mFreeSlots' = mFreeSlots \ {s}
     \/ mFreeSlots = {} /\ UNCHANGED <<mSlots, mFreeSlots, mFreeBuffers>>
  /\ thread' = Goes(t, [Idle EXCEPT !.pc = IF awaited THEN "yielding" ELSE "allocate"])
  /\ UNCHANGED <<mUnusedSlots, mActiveBuffers, mQueue, awaited, clients>>

(* The allocation failed, or was of a size that is no longer asked for. *)
PreallocationLost(t) ==
  /\ thread[t].pc = "preallocating"
  /\ mCore' = [mCore EXCEPT !.mIsAllocating = FALSE]
  /\ \/ thread' = Goes(t, Idle)
     \/ TRUE \in Resizes /\ thread' = Goes(t, [Idle EXCEPT !.pc = "allocate"])
  /\ UNCHANGED <<mSlots, lists, mQueue, awaited, clients>>

AllocatorResumes(t) ==
  /\ thread[t].pc = "yielding" /\ ~awaited
  /\ thread' = Goes(t, [Idle EXCEPT !.pc = "allocate"])
  /\ UNCHANGED <<core, awaited, clients>>

-----------------------------------------------------------------------------
(* The calls of a manager of the producer.  In each of them the limits     *)
(* become those of c.                                                      *)
AdjustedTo(c) ==
  adjustAvailableSlotsLocked(getMaxBufferCountLocked(c) - getMaxBufferCountLocked(mCore))

(* byApp: producer and consumer are controlled by the application. *)
connect(t, byApp) ==
  LET c == [mCore EXCEPT !.mDequeueBufferCannotBlock = byApp /\ ~mCore.timed]
  IN  /\ Manages(t) /\ ~mCore.connected
      /\ AdjustedTo(c)
      /\ mCore' = [c EXCEPT !.connected = TRUE, !.mBufferHasBeenQueued = FALSE,
                            !.mQueueBufferCanDrop = byApp /\ ~mCore.timed]
      /\ UNCHANGED <<mQueue, awaited, thread, clients>>

(* disconnect, with the caches that Surface::disconnect empties: it no     *)
(* longer knows the buffers that the application has.                      *)
disconnect(t) ==
  /\ Manages(t) /\ ~mCore.mIsAllocating /\ mCore.connected
  /\ freeAllBuffersLocked
  /\ mQueue' = [i \in DOMAIN mQueue |->
                  [mQueue[i] EXCEPT !.mIsStale = TRUE, !.mAcquireCalled = FALSE]]
  /\ mCore' = [mCore EXCEPT !.connected = FALSE]
  /\ thread' = NotifyAll(Goes(t, Releasing))
  /\ surface' = [s \in Slots |-> NoBuffer] /\ owned' = {}
  /\ UNCHANGED <<awaited, consumers>>

setMaxDequeuedBufferCount(t, n) ==
  LET delta == n - mCore.mMaxDequeuedBufferCount
      count == getMinUndequeuedBufferCountLocked(mCore) + n
  IN  /\ Manages(t) /\ ~mCore.mIsAllocating
      /\ delta # 0
      /\ Cardinality(InState("dequeued")) <= n
      /\ count <= mCore.mMaxBufferCount
      /\ adjustAvailableSlotsLocked(delta)
      /\ mCore' = [mCore EXCEPT !.mMaxDequeuedBufferCount = n]
      /\ thread' = NotifyAll(IF delta < 0 THEN Goes(t, Releasing) ELSE thread)
      /\ UNCHANGED <<mQueue, awaited, clients>>

setAsyncMode(t, async) ==
  LET c == [mCore EXCEPT !.mAsyncMode = async]
  IN  /\ Manages(t) /\ ~mCore.mIsAllocating
      /\ async # mCore.mAsyncMode
      /\ mCore.mMaxDequeuedBufferCount + getMinUndequeuedBufferCountLocked(c)
           <= mCore.mMaxBufferCount
      /\ AdjustedTo(c)
      /\ mCore' = c
      /\ thread' = NotifyAll(IF getMaxBufferCountLocked(c) < getMaxBufferCountLocked(mCore)
                             THEN Goes(t, Releasing) ELSE thread)
      /\ UNCHANGED <<mQueue, awaited, clients>>

(* timed: the timeout is positive, and not negative. *)
setDequeueTimeout(t, timed) ==
  LET c == [mCore EXCEPT !.mDequeueBufferCannotBlock = @ /\ ~timed, !.timed = timed]
  IN  /\ t \in Managers /\ thread[t].pc = "idle"
      /\ timed # mCore.timed
      /\ AdjustedTo(c)
      /\ mCore' = [c EXCEPT !.mQueueBufferCanDrop = @ /\ ~timed]
      /\ UNCHANGED <<mQueue, awaited, thread, clients>>

-----------------------------------------------------------------------------
(* acquireBuffer drops frames from the front of the queue for which the    *)
(* next one is timely, and acquires the one after them.  What the consumer *)
(* gets is the buffer or, if it has seen it, only the slot.                *)
acquireBuffer(n) ==
  LET item == mQueue[n + 1]
      live == SelectSeq(SubSeq(mQueue, 1, n), LAMBDA i : ~i.mIsStale)
      dropped == [i \in DOMAIN live |-> live[i].mSlot]
      s == item.mSlot
      buffer == IF item.mAcquireCalled THEN consumer[s].buffer ELSE item.mGraphicBuffer
      free == [u \in Slots |-> IF u \in Range(dropped)
                               THEN [mSlots[u] EXCEPT !.mBufferState = "free"] ELSE mSlots[u]]
  IN  /\ ~mCore.mIsAbandoned
      /\ Cardinality(InState("acquired")) < mCore.mMaxAcquiredBufferCount + 1
      /\ n < Len(mQueue)
      /\ mSlots' = IF item.mIsStale THEN free
                   ELSE [free EXCEPT ![s].mBufferState = "acquired", ![s].mAcquireCalled = TRUE]
      /\ mActiveBuffers' = mActiveBuffers \ Range(dropped)
      /\ mFreeBuffers' = mFreeBuffers \o dropped
      /\ mQueue' = SubSeq(mQueue, n + 2, Len(mQueue))
      /\ consumer' = [consumer EXCEPT ![s] = [buffer |-> buffer, frame |-> item.mFrameNumber]]
      /\ held' = held \cup {[slot |-> s, buffer |-> buffer]}
      /\ thread' = NotifyAll(thread)
      /\ UNCHANGED <<mCore, mFreeSlots, mUnusedSlots, awaited, surface, owned, told>>

(* Mutant: whether the consumer still tracks the buffer is not tested. *)
ReleasesUntracked(h) ==
  /\ ~mCore.mIsAbandoned
  /\ held' = held \ {h}
  /\ mSlots[h.slot].mBufferState = "acquired"
  /\ mSlots' = [mSlots EXCEPT ![h.slot].mBufferState = "free"]
  /\ mActiveBuffers' = mActiveBuffers \ {h.slot}
  /\ mFreeBuffers' = Append(mFreeBuffers, h.slot)
  /\ thread' = NotifyAll(thread)
  /\ UNCHANGED <<mCore, mFreeSlots, mUnusedSlots, mQueue, awaited, surface, owned, consumer, told>>

(* ConsumerBase::releaseBufferLocked, with releaseBuffer: the consumer is  *)
(* done with buffer h.                                                     *)
releaseBuffer(h) ==
  LET s == h.slot
  IN  /\ ~mCore.mIsAbandoned
      /\ held' = held \ {h}
      /\ \/ /\ \/ consumer[s].buffer # h.buffer
               \/ consumer[s].frame # mSlots[s].mFrameNumber
               \/ mSlots[s].mBufferState # "acquired"
            /\ consumer' = IF /\ consumer[s].buffer = h.buffer
                              /\ consumer[s].frame # mSlots[s].mFrameNumber
                           THEN freeBuffersLocked({s}) ELSE consumer
            /\ UNCHANGED <<core, thread>>
         \/ /\ consumer[s].buffer = h.buffer
            /\ consumer[s].frame = mSlots[s].mFrameNumber
            /\ mSlots[s].mBufferState = "acquired"
            /\ mSlots' = [mSlots EXCEPT ![s].mBufferState = "free"]
            /\ mActiveBuffers' = mActiveBuffers \ {s}
            /\ mFreeBuffers' = Append(mFreeBuffers, s)
            /\ thread' = NotifyAll(thread)
            /\ UNCHANGED <<mCore, mFreeSlots, mUnusedSlots, mQueue, consumer>>
      /\ UNCHANGED <<awaited, surface, owned, told>>

(* Mutant: the threads that wait for a slot are not notified. *)
DetachesSilently(h) ==
  /\ ~mCore.mIsAbandoned
  /\ mSlots[h.slot].mBufferState = "acquired"
  /\ mSlots' = clearBufferSlotLocked({h.slot})
  /\ mActiveBuffers' = mActiveBuffers \ {h.slot}
  /\ mFreeSlots' = mFreeSlots \cup {h.slot}
  /\ consumer' = freeBuffersLocked({h.slot})
  /\ held' = held \ {h}
  /\ UNCHANGED <<mCore, mFreeBuffers, mUnusedSlots, mQueue, awaited, thread, surface, owned, told>>

(* ConsumerBase::detachBuffer, with that of the queue. *)
DetachAcquired(h) ==
  /\ ~mCore.mIsAbandoned
  /\ mSlots[h.slot].mBufferState = "acquired"
  /\ mSlots' = clearBufferSlotLocked({h.slot})
  /\ mActiveBuffers' = mActiveBuffers \ {h.slot}
  /\ mFreeSlots' = mFreeSlots \cup {h.slot}
  /\ thread' = NotifyAll(thread)
  /\ consumer' = freeBuffersLocked({h.slot})
  /\ held' = held \ {h}
  /\ UNCHANGED <<mCore, mFreeBuffers, mUnusedSlots, mQueue, awaited, surface, owned, told>>

(* mBufferReleasedCbEnabled is FALSE: the listener is not called. *)
setMaxAcquiredBufferCount(n) ==
  LET c == [mCore EXCEPT !.mMaxAcquiredBufferCount = n]
      delta == n - mCore.mMaxAcquiredBufferCount
  IN  /\ LateLimits \/ ~mCore.connected
      /\ ~mCore.mIsAllocating /\ ~mCore.mIsAbandoned
      /\ delta # 0
      /\ Cardinality(InState("acquired")) <= n
      /\ mCore.mMaxDequeuedBufferCount + getMinUndequeuedBufferCountLocked(c)
           <= mCore.mMaxBufferCount
      /\ adjustAvailableSlotsLocked(delta)
      /\ mCore' = c
      /\ UNCHANGED <<mQueue, awaited, thread, clients>>

setMaxBufferCount(n) ==
  LET c == [mCore EXCEPT !.mMaxBufferCount = n]
  IN  /\ ~mCore.connected
      /\ n # mCore.mMaxBufferCount /\ n >= mCore.mMaxAcquiredBufferCount
      /\ AdjustedTo(c)
      /\ mCore' = c
      /\ UNCHANGED <<mQueue, awaited, thread, clients>>

(* ConsumerBase::discardFreeBuffers. *)
discardFreeBuffers ==
  /\ ~mCore.mIsAbandoned
  /\ mFreeSlots' = mFreeSlots \cup Range(mFreeBuffers)
  /\ mSlots' = clearBufferSlotLocked(Range(mFreeBuffers))
  /\ mFreeBuffers' = <<>>
  /\ consumer' = freeBuffersLocked(getReleasedBuffers \cup Range(mFreeBuffers))
  /\ UNCHANGED <<mCore, mUnusedSlots, mActiveBuffers, mQueue, awaited, thread, surface, owned,
                 held, told>>

(* ConsumerBase::abandon, with consumerDisconnect. *)
abandon ==
  /\ ~mCore.mIsAbandoned
  /\ mCore' = [mCore EXCEPT !.mIsAbandoned = TRUE]
  /\ mQueue' = <<>>
  /\ freeAllBuffersLocked
  /\ thread' = NotifyAll(thread)
  /\ consumer' = [s \in Slots |-> NotCached] /\ held' = {}
  /\ UNCHANGED <<awaited, surface, owned, told>>

-----------------------------------------------------------------------------
ProducerNext(t) ==
  \/ dequeueBuffer(t) \/ DequeueAwaits(t) \/ DequeueSearches(t) \/ Woken(t) \/ TimedOut(t)
  \/ DequeueAllocated(t) \/ SurfaceDequeued(t) \/ attachBuffer(t)
  \/ \E o \in owned : queueBuffer(t, o) \/ cancelBuffer(t, o) \/ detachBuffer(t, o)
                      \/ ReturnFails(t, o)
  \/ QueueCallsBack(t) \/ detachNextBuffer(t) \/ onBuffersReleased(t)
  \/ allocateBuffers(t) \/ Preallocated(t) \/ PreallocationLost(t) \/ AllocatorResumes(t)
  \/ disconnect(t)
  \/ \E byApp \in ByApps : connect(t, byApp)
  \/ \E b \in BOOLEAN : setAsyncMode(t, b) \/ setDequeueTimeout(t, b)
  \/ \E n \in DequeuedCounts : setMaxDequeuedBufferCount(t, n)

ConsumerNext ==
  \/ \E n \in 0 .. MaxFrames : acquireBuffer(n)
  \/ \E h \in held : releaseBuffer(h) \/ DetachAcquired(h)
  \/ \E n \in AcquiredCounts : setMaxAcquiredBufferCount(n)
  \/ \E n \in BufferCounts : setMaxBufferCount(n)
  \/ discardFreeBuffers \/ abandon

Next == ConsumerNext \/ \E t \in Threads : ProducerNext(t)

Spec == Init /\ [][Next]_vars

-----------------------------------------------------------------------------
(* The types of the variables.  The application never has a slot without a *)
(* buffer, nor the consumer: SurfaceDequeued and acquireBuffer find one.   *)
TypeOK ==
  /\ mCore \in [mIsAbandoned : BOOLEAN, connected : BOOLEAN, mDequeueBufferCannotBlock : BOOLEAN,
                mQueueBufferCanDrop : BOOLEAN, mAsyncMode : BOOLEAN, mIsAllocating : BOOLEAN,
                mBufferHasBeenQueued : BOOLEAN, mMaxBufferCount : Nat,
                mMaxAcquiredBufferCount : Nat, mMaxDequeuedBufferCount : Nat,
                mFrameCounter : 0 .. MaxFrames, timed : BOOLEAN]
  /\ mSlots \in [Slots -> BufferSlot]
  /\ mFreeSlots \subseteq Slots /\ mUnusedSlots \subseteq Slots /\ mActiveBuffers \subseteq Slots
  /\ mFreeBuffers \in Seq(Slots) /\ mQueue \in Seq(BufferItem)
  /\ awaited \in BOOLEAN
  /\ thread \in [Threads -> ThreadState]
  /\ surface \in [Slots -> Buffers \cup {NoBuffer}]
  /\ owned \subseteq [slot : Slots, buffer : Buffers]
  /\ consumer \in [Slots -> [buffer : Buffers \cup {NoBuffer}, frame : 0 .. MaxFrames]]
  /\ held \subseteq [slot : Slots, buffer : Buffers]
  /\ told \in [ticket : 0 .. MaxFrames, frame : 0 .. MaxFrames]

(* The threads that allocate a buffer for slot s in dequeueBuffer. *)
AllocatedTo(s) == {t \in Threads : thread[t].pc = "allocating" /\ thread[t].slot = s}

(* What validateConsistencyLocked tests after every call, which a release  *)
(* build leaves out: a slot is in exactly one of mUnusedSlots, mFreeSlots, *)
(* mFreeBuffers and mActiveBuffers, once; it is FREE unless it is active;  *)
(* it has no buffer just while it is unused or free, or while a dequeue    *)
(* allocates one for it; and the slots in use are as many as the limits    *)
(* say.  An abandoned queue may still be given a slot by a late dequeue.   *)
Consistent ==
  ~mCore.mIsAbandoned =>
    /\ \A s \in Slots :
          LET slot == mSlots[s]
          IN  /\ (s \in mUnusedSlots) =
                   (s \notin mFreeSlots \cup Range(mFreeBuffers) \cup mActiveBuffers)
              /\ (s \in mFreeSlots) => s \notin Range(mFreeBuffers) \cup mActiveBuffers
              /\ (s \in mActiveBuffers) => s \notin Range(mFreeBuffers)
              /\ (slot.mBufferState = "free") = (s \notin mActiveBuffers)
              /\ (slot.mGraphicBuffer = NoBuffer) =
                   (s \in mUnusedSlots \cup mFreeSlots \/ AllocatedTo(s) # {})
    /\ Cardinality(Range(mFreeBuffers)) = Len(mFreeBuffers)
    /\ Cardinality(Slots \ mUnusedSlots) = getMaxBufferCountLocked(mCore)

(* A buffer that Surface has given the application is the one that the     *)
(* queue has in that slot, and the slot is DEQUEUED: Surface never hands   *)
(* out a stale cached buffer, whose frames would be lost or shown from     *)
(* another buffer, and nobody else is given the slot.                      *)
OwnedByProducer ==
  ~mCore.mIsAbandoned =>
    \A o \in owned : /\ mSlots[o.slot].mBufferState = "dequeued"
                     /\ mSlots[o.slot].mGraphicBuffer = o.buffer

(* A buffer that the consumer reads is in no slot of the queue that the    *)
(* producer could be given: it is ACQUIRED, or in no slot any more.  A     *)
(* release that comes after its slot has got another buffer must not free  *)
(* that one (stillTracking, STALE_BUFFER_SLOT).                            *)
OwnedByConsumer ==
  \A h \in held, s \in Slots :
     mSlots[s].mGraphicBuffer = h.buffer => mSlots[s].mBufferState = "acquired"

(* acquireBuffer sends the consumer no buffer for a slot that it has       *)
(* acquired before: ConsumerBase then still has that very buffer for it,   *)
(* whatever was disconnected, detached, reallocated or discarded since the *)
(* frame was queued, and whichever caches getReleasedBuffers had it purge. *)
ConsumerKnows ==
  \A i \in Range(mQueue) : i.mAcquireCalled => consumer[i.mSlot].buffer = i.mGraphicBuffer

(* A thread sleeps on mDequeueCondition only while there is nothing for it *)
(* to do: no slot it could have, and no reason to give up.  Whoever        *)
(* releases, cancels or detaches a buffer, shortens the queue or abandons  *)
(* it notifies; the consumer's limits, once the producer is connected, and *)
(* an allocation that fails make slots free without (LateLimits, Failures).*)
NoLostWakeup ==
  \A t \in Threads : thread[t].pc = "waiting" =>
     ~Refused(thread[t].call) /\ Candidates(thread[t].call) = {}

(* The listener is told of every frame, once, and in the order they were   *)
(* queued in, although the threads that queued them call it outside the    *)
(* lock (mCurrentCallbackTicket).                                          *)
CallbacksInOrder == [][told'.frame # told.frame => told'.frame = told.frame + 1]_told
=============================================================================
