---------------------------- MODULE ThreadPools ----------------------------
(***************************************************************************)
(* The thread pools of the scheduler (sys/scheduler/x86/avalon.asm):       *)
(* thread.add_pool, thread.acquire, thread.release and thread.initialize.  *)
(* A pool holds N threads and a bitmap in which a set bit is a free        *)
(* thread; the pools are in a ring that acquire searches from its head.    *)
(* Each procedure is one step: the module is about which thread a caller   *)
(* gets, whatever the order of the calls.                                  *)
(***************************************************************************)
EXTENDS Naturals, Sequences, FiniteSetsExt, SequencesExt

CONSTANTS
  Pools,       \* the memory blocks given to thread.add_pool
  N            \* threads in a pool: 32 bits of bitmap in the code

ASSUME PoolsAssumption == N \in Nat \ {0}

Slots == 0 .. N - 1
Threads == Pools \X Slots

VARIABLES
  ring,         \* the pools of thread_pools_ring, in search order
  bitmap,       \* bitmap[p]: the slots whose bit is set, the free ones
  magic,        \* the threads whose header has ever been set up by acquire
  status,       \* the threads whose execution_status is not UNSCHEDULED
  linked,       \* the threads whose timers are in a ring of the scheduler
  initialized,  \* the threads whose flags have RT_FLAGS_INIT_STATUS
  holders,      \* (history) how many callers think each thread is theirs
  result        \* what the last call returned

vars == <<ring, bitmap, magic, status, linked, initialized, holders, result>>

Init ==
  /\ ring = <<>>
  /\ bitmap = [p \in Pools |-> {}]
  /\ magic = {}
  /\ status = {}
  /\ linked = {}
  /\ initialized = {}
  /\ holders = [t \in Threads |-> 0]
  /\ result = "none"

(* thread.add_pool: the new pool goes right after the ring's head, and is  *)
(* the first to be searched from now on.  A pool that is already in the    *)
(* ring is refused by ring_queue.insert_after.                             *)
AddPool(p) ==
  /\ IF p \in ToSet(ring)
     THEN result' = "other" /\ UNCHANGED <<ring, bitmap>>
     ELSE /\ ring' = <<p>> \o ring
          /\ bitmap' = [bitmap EXCEPT ![p] = Slots]
          /\ result' = "added"
  /\ UNCHANGED <<magic, status, linked, initialized, holders>>

(* thread.acquire: the lowest set bit of the first pool that has one.  The *)
(* links of the thread are looped back, wherever they led.                 *)
Acquire ==
  /\ \E i \in 1 .. Len(ring) :
       LET p == ring[i]  n == Min(bitmap[p])  t == <<p, n>> IN
       /\ bitmap[p] # {}
       /\ \A j \in 1 .. i - 1 : bitmap[ring[j]] = {}
       /\ bitmap' = [bitmap EXCEPT ![p] = @ \ {n}]
       /\ magic' = magic \cup {t}
       /\ status' = status \ {t}
       /\ linked' = linked \ {t}
       /\ initialized' = initialized \ {t}
       /\ holders' = [holders EXCEPT ![t] = @ + 1]
       /\ result' = "acquired"
  /\ UNCHANGED ring

(* A search that gives up after the first pool of the ring.                *)
OutOfThreadsEarly ==
  /\ Len(ring) > 0 => bitmap[ring[1]] = {}
  /\ result' = "out_of_thread"
  /\ UNCHANGED <<ring, bitmap, magic, status, linked, initialized, holders>>

(* thread.acquire when the search comes back to the head of the ring.      *)
OutOfThreads ==
  /\ \A i \in 1 .. Len(ring) : bitmap[ring[i]] = {}
  /\ result' = "out_of_thread"
  /\ UNCHANGED <<ring, bitmap, magic, status, linked, initialized, holders>>

(* The slot thread.release computes for a thread: the distance from the    *)
(* pool to the END of the thread's stack, divided by the stack size, which *)
(* is one more than the slot acquire took.                                 *)
ReleasedSlot(n) == n + 1

(* A release that marks every slot up to the one it computed.              *)
ReleaseMany(t) ==
  LET p == t[1]  n == ReleasedSlot(t[2]) IN
  /\ holders[t] > 0
  /\ t \in magic \ (status \cup linked)
  /\ n \in Slots \ bitmap[p]
  /\ bitmap' = [bitmap EXCEPT ![p] = @ \cup (0 .. n)]
  /\ holders' = [holders EXCEPT ![t] = @ - 1]
  /\ result' = "released"
  /\ initialized' = initialized \ {t}
  /\ UNCHANGED <<ring, magic, status, linked>>

(* thread.release by a caller that holds the thread.  The flags are reset  *)
(* before the pool and the bitmap are looked at.                           *)
Release(t) ==
  LET p == t[1]  n == ReleasedSlot(t[2]) IN
  /\ holders[t] > 0
  /\ IF t \notin magic \/ t \in status \/ t \in linked
     THEN result' = "in_use" /\ UNCHANGED <<bitmap, initialized, holders>>
     ELSE /\ initialized' = initialized \ {t}
          /\ IF n \notin Slots \/ n \in bitmap[p]
             THEN result' = "sanity" /\ UNCHANGED <<bitmap, holders>>
             ELSE /\ bitmap' = [bitmap EXCEPT ![p] = @ \cup {n}]
                  /\ holders' = [holders EXCEPT ![t] = @ - 1]
                  /\ result' = "released"
  /\ UNCHANGED <<ring, magic, status, linked>>

(* thread.initialize by a caller that holds the thread.                    *)
Initialize(t) ==
  /\ holders[t] > 0
  /\ IF t \in magic /\ t \notin status /\ t \notin linked
     THEN initialized' = initialized \cup {t} /\ result' = "initialized"
     ELSE UNCHANGED initialized /\ result' = "in_use"
  /\ UNCHANGED <<ring, bitmap, magic, status, linked, holders>>

(* What the scheduler does to the header of a thread that its holder       *)
(* schedules: it links it, and the priority it stores decides the status   *)
(* byte.                                                                   *)
Schedule(t) ==
  /\ holders[t] > 0
  /\ t \notin status \cup linked
  /\ linked' = linked \cup {t}
  /\ status' \in {status, status \cup {t}}
  /\ result' = "scheduled"
  /\ UNCHANGED <<ring, bitmap, magic, initialized, holders>>

(* The thread's deadline: the scheduler unlinks it.                        *)
Expire(t) ==
  /\ t \in linked
  /\ linked' = linked \ {t}
  /\ result' = "expired"
  /\ UNCHANGED <<ring, bitmap, magic, status, initialized, holders>>

Next ==
  \/ \E p \in Pools : AddPool(p)
  \/ Acquire
  \/ OutOfThreads
  \/ \E t \in Threads : Release(t) \/ Initialize(t) \/ Schedule(t) \/ Expire(t)

Spec == Init /\ [][Next]_vars

-----------------------------------------------------------------------------

(* Bitmaps and headers are those of the threads of the pools.              *)
TypeOK ==
  /\ ring \in Seq(Pools)
  /\ bitmap \in [Pools -> SUBSET Slots]
  /\ magic \subseteq Threads
  /\ status \subseteq Threads
  /\ linked \subseteq Threads
  /\ initialized \subseteq Threads
  /\ holders \in [Threads -> Nat]
  /\ result \in {"none", "added", "other", "acquired", "out_of_thread", "released", "in_use",
                 "sanity", "initialized", "scheduled", "expired"}

(* No thread is given to two callers at once: acquire's bit and release's  *)
(* "mark thread as available" are about the same thread.                   *)
NoSharedThread == \A t \in Threads : holders[t] <= 1

(* The threads of a pool that are held, one element for each holder.       *)
Holdings(p) == UNION {{n} \X (1 .. holders[<<p, n>>]) : n \in Slots}
Held(p) == Cardinality(Holdings(p))

(* thread.acquire reports that it is out of threads only when as many are  *)
(* held as the pools that were added have, wherever the pool is that has   *)
(* the last free one.                                                      *)
ExhaustedMeansHeld ==
  result = "out_of_thread" => \A p \in ToSet(ring) : Held(p) = N

(* Every pool's threads are either free or held, counted: a release gives  *)
(* back exactly one bit, though not always the right one.                  *)
CountConserved == \A p \in ToSet(ring) : Cardinality(bitmap[p]) + Held(p) = N
=============================================================================
