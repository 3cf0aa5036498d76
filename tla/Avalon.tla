------------------------------- MODULE Avalon -------------------------------
(***************************************************************************)
(* The scheduler, sys/scheduler/x86/avalon.asm: thread.schedule, the two   *)
(* timers of a thread, the PIT interrupt that fires them, and the choice   *)
(* of the thread that runs.  A thread has a start node, which is in the    *)
(* timer ring until the thread may run and in the ready ring after that,   *)
(* and an end node, in the timer ring until the thread's deadline.         *)
(*                                                                         *)
(* thread.schedule is called by the running thread and, from the event     *)
(* notifier of an expired thread, inside the interrupt.  It has no critical*)
(* section, so an interrupt, and other threads after it, may come between  *)
(* any two of its steps: there is one for each ring operation, with the    *)
(* stores that precede it (RingQueue has the inside of the operations).    *)
(* Times count down: due is the number of ticks left.  The first 2^32 ticks*)
(* are modelled, in which the high word of every time that is computed is  *)
(* zero; PitClock has the two words of the count.                          *)
(***************************************************************************)
EXTENDS Integers, Sequences, FiniteSetsExt, SequencesExt

CONSTANTS
  Users,          \* the threads that callers acquired and initialized
  Init_, Idle_,   \* the threads that __scheduler_init makes
  Irq,            \* the context of the event notifiers
  None, Wild,     \* no thread; an address that is not a thread
  Byte,           \* the number of values of a byte
  Word,           \* the ticks for which a one in the high word of a time stands
  TicksPerIrq,    \* ticks_per_irq
  Priorities,     \* the priorities callers ask for
  Starts,         \* the delays, in ticks, until the start
  Deadlines,      \* and until the deadline, 0 for none
  MaxCalls        \* bound: calls of thread.schedule under way at once

Threads == Users \cup {Init_, Idle_}
Callers == Threads \cup {Irq}
Dwords == 0 .. Byte * Byte * Byte * Byte - 1

ASSUME AvalonAssumption ==
  /\ Init_ # Idle_ /\ Users \cap {Init_, Idle_} = {}
  /\ Irq \notin Threads /\ None \notin Threads /\ Wild \notin Threads /\ None # Wild
  /\ Byte \in Nat /\ Byte >= 3 /\ Word \in Nat \ {0}
  /\ TicksPerIrq \in Nat \ {0}
  /\ Priorities \subseteq Dwords
  /\ Starts \subseteq Nat /\ Deadlines \subseteq Nat

VARIABLES
  ready,       \* ready_for_execution, from its first thread
  timers,      \* timer_ring, from its first timer
  priority,    \* execution_priority, the dword that schedule stores there
  rank,        \* the ordering value of a start node that is in the ready ring, 0 for others
  executing,   \* executing_thread
  irq,         \* "none", or "timers" while __pit_interrupt_handler runs
  notified,    \* the thread whose event notifier is running
  call,        \* the call of thread.schedule each context is in
  halted       \* why the system stopped for good, "none" while it runs

vars == <<ready, timers, priority, rank, executing, irq, notified, call, halted>>

NoCall == [at |-> "idle"]
Evaluating == [at |-> "evaluate"]
Frame ==
  [at : {"end"}, thread : Threads, priority : Priorities, start : Starts, end : Deadlines]
    \cup [at : {"start"}, thread : Threads, start : Starts] \cup {Evaluating}
Timer == [thread : Threads, kind : {"start", "end"}, due : Nat]

InitPriority == 5
IdlePriority == Byte * Byte * Byte * Byte - 1

(* execution_priority is declared as one byte and stored as four: the byte *)
(* of execution_status is the third of them.                               *)
StatusOf(p) == (p \div (Byte * Byte)) % Byte

(* After __scheduler_init.                                                 *)
Init ==
  /\ ready = <<Init_, Idle_>>
  /\ timers = <<>>
  /\ priority = [t \in Threads |-> CASE t = Init_ -> InitPriority
                                     [] t = Idle_ -> IdlePriority
                                     [] OTHER -> 0]
  /\ rank = priority
  /\ executing = Init_
  /\ irq = "none"
  /\ notified = None
  /\ call = [c \in Callers |-> NoCall]
  /\ halted = "none"

-----------------------------------------------------------------------------
(* The rings.                                                              *)

InTimers(t, kind) == \E i \in 1 .. Len(timers) : timers[i].thread = t /\ timers[i].kind = kind
StartLinked(t) == t \in ToSet(ready) \/ InTimers(t, "start")
EndLinked(t) == InTimers(t, "end")

(* link_ordered_64 and link_ordered_32: before the first that is not less. *)
WithTimer(s, n) ==
  LET i == Min({Len(s) + 1} \cup {j \in 1 .. Len(s) : n.due <= s[j].due}) IN InsertAt(s, i, n)
WithReady(s, t) ==
  LET i == Min({Len(s) + 1} \cup {j \in 1 .. Len(s) : priority[t] <= rank[s[j]]}) IN InsertAt(s, i, t)

(* ring_queue.remove takes one node out.                                   *)
WithoutTimer(s, t, kind) ==
  LET at == {i \in 1 .. Len(s) : s[i].thread = t /\ s[i].kind = kind} IN
  IF at = {} THEN s ELSE RemoveAt(s, Min(at))
WithoutReady(s, t) ==
  LET at == {i \in 1 .. Len(s) : s[i] = t} IN
  IF at = {} THEN s ELSE RemoveAt(s, Min(at))

-----------------------------------------------------------------------------
(* thread.schedule                                                         *)

(* A thread calls while it runs, outside interrupts; a notifier while its  *)
(* event is handled.  The idle thread only counts time.                    *)
Runs(c) ==
  /\ halted = "none"
  /\ IF c = Irq THEN notified # None ELSE irq = "none" /\ executing = c /\ c # Idle_

Return(c) == call' = [call EXCEPT ![c] = NoCall]

(* The entry of thread.schedule: the thread must be unscheduled, by its    *)
(* status byte and by its links.                                           *)
Schedule(c, t, p, start, end) ==
  /\ Runs(c)
  /\ call[c] = NoCall
  /\ Cardinality({d \in Callers : call[d] # NoCall}) < MaxCalls
  /\ ~(StatusOf(priority[t]) # 0 \/ StartLinked(t) \/ EndLinked(t))
  /\ call' = [call EXCEPT ![c] = [at |-> "end", thread |-> t, priority |-> p, start |-> start, end |-> end]]
  /\ UNCHANGED <<ready, timers, priority, rank, executing, irq, notified, halted>>

(* A time is stored in its node before the ring is asked to take the node, *)
(* which it refuses if the node is linked: a timer that another caller has *)
(* linked meanwhile changes where it is.  For a start without delay, it is *)
(* the priority that is stored, in the high word of the time.              *)
Stored(t, kind, delay, p) ==
  [i \in 1 .. Len(timers) |->
    IF timers[i].thread = t /\ timers[i].kind = kind
    THEN [timers[i] EXCEPT !.due = IF delay # 0 THEN delay ELSE (@ % Word) + (p * Word)]
    ELSE timers[i]]

(* The priority is stored over the status; the deadline, unless it is zero,*)
(* goes into the timer ring.                                               *)
LinkEnd(c) ==
  LET f == call[c]  t == f.thread IN
  /\ Runs(c)
  /\ f.at = "end"
  /\ priority' = [priority EXCEPT ![t] = f.priority]
  /\ IF f.end # 0 /\ EndLinked(t)
     THEN Return(c) /\ timers' = Stored(t, "end", f.end, f.priority)
     ELSE /\ call' = [call EXCEPT ![c] = [at |-> "start", thread |-> t, start |-> f.start]]
          /\ timers' = IF f.end = 0 THEN timers
                       ELSE WithTimer(timers, [thread |-> t, kind |-> "end", due |-> f.end])
  /\ UNCHANGED <<ready, rank, executing, irq, notified, halted>>

(* A start that is put into the ready ring without looking at its links.   *)
LinkStartTwice(c) ==
  LET f == call[c]  t == f.thread IN
  /\ Runs(c)
  /\ f.at = "start"
  /\ IF f.start # 0
     THEN /\ Return(c)
          /\ timers' = WithTimer(timers, [thread |-> t, kind |-> "start", due |-> f.start])
          /\ UNCHANGED <<ready, rank>>
     ELSE /\ call' = [call EXCEPT ![c] = Evaluating]
          /\ ready' = WithReady(ready, t)
          /\ rank' = [rank EXCEPT ![t] = priority[t]]
          /\ UNCHANGED timers
  /\ UNCHANGED <<priority, executing, irq, notified, halted>>

(* The start goes into the timer ring or, when its delay is zero, into the *)
(* ready ring.  On failure the deadline is taken out of its ring, whoever  *)
(* put it there, and the high word of the start time has been overwritten, *)
(* by which a thread is ranked that is ready.                              *)
LinkStart(c) ==
  LET f == call[c]  t == f.thread IN
  /\ Runs(c)
  /\ f.at = "start"
  /\ IF StartLinked(t)
     THEN /\ Return(c)
          /\ timers' = WithoutTimer(Stored(t, "start", f.start, priority[t]), t, "end")
          /\ rank' = IF t \in ToSet(ready) /\ f.start = 0 THEN [rank EXCEPT ![t] = priority[t]]
                      ELSE [rank EXCEPT ![t] = 0]
          /\ UNCHANGED ready
     ELSE IF f.start # 0
     THEN /\ Return(c)
          /\ timers' = WithTimer(timers, [thread |-> t, kind |-> "start", due |-> f.start])
          /\ UNCHANGED <<ready, rank>>
     ELSE /\ call' = [call EXCEPT ![c] = Evaluating]
          /\ ready' = WithReady(ready, t)
          /\ rank' = [rank EXCEPT ![t] = priority[t]]
          /\ UNCHANGED timers
  /\ UNCHANGED <<priority, executing, irq, notified, halted>>

(* __re_evaluate_execution_priority.  The switch to another thread pops    *)
(* the return address into the register that holds that thread's address.  *)
Evaluate(c) ==
  /\ Runs(c)
  /\ call[c].at = "evaluate"
  /\ IF irq # "none" \/ ready[1] = executing
     THEN Return(c) /\ UNCHANGED executing
     ELSE executing' = Wild /\ UNCHANGED call
  /\ UNCHANGED <<ready, timers, priority, rank, irq, notified, halted>>

-----------------------------------------------------------------------------
(* Interrupts                                                              *)

(* The processor takes an interrupt between any two steps, except in       *)
(* another interrupt.                                                      *)
MayInterrupt == halted = "none" /\ irq = "none"

(* An interrupt that does not count its ticks.                             *)
PitEnterLosesTicks ==
  /\ MayInterrupt
  /\ IF executing = Wild
     THEN halted' = "executing_magic" /\ UNCHANGED irq
     ELSE irq' = "timers" /\ UNCHANGED halted
  /\ UNCHANGED <<timers, ready, priority, rank, executing, notified, call>>

(* thread.enter_irq for IRQ 0, up to the first look at the timer ring.     *)
PitEnter ==
  /\ MayInterrupt
  /\ IF executing = Wild
     THEN halted' = "executing_magic" /\ UNCHANGED <<irq, timers>>
     ELSE /\ irq' = "timers"
          /\ timers' = [i \in 1 .. Len(timers) |-> [timers[i] EXCEPT !.due = Max({0, @ - TicksPerIrq})]]
          /\ UNCHANGED halted
  /\ UNCHANGED <<ready, priority, rank, executing, notified, call>>

FirstDue(kind) ==
  /\ halted = "none"
  /\ irq = "timers" /\ notified = None
  /\ timers # <<>>
  /\ timers[1].kind = kind /\ timers[1].due = 0

(* A start timer that forgets to link the thread.                          *)
FireStartDropped ==
  /\ FirstDue("start")
  /\ timers' = Tail(timers)
  /\ UNCHANGED <<ready, priority, rank, executing, irq, notified, call, halted>>

(* __thread_ready.                                                         *)
FireStart ==
  LET t == timers[1].thread IN
  /\ FirstDue("start")
  /\ timers' = Tail(timers)
  /\ ready' = WithReady(ready, t)
  /\ rank' = [rank EXCEPT ![t] = priority[t]]
  /\ UNCHANGED <<priority, executing, irq, notified, call, halted>>

(* A deadline that stops the thread in the ready ring only.                *)
FireEndReadyOnly ==
  LET t == timers[1].thread IN
  /\ FirstDue("end")
  /\ IF StartLinked(t)
     THEN notified' = t /\ UNCHANGED halted
     ELSE halted' = "expired_unlinked" /\ UNCHANGED notified
  /\ ready' = WithoutReady(ready, t)
  /\ timers' = Tail(timers)
  /\ rank' = [rank EXCEPT ![t] = 0]
  /\ UNCHANGED <<priority, executing, irq, call>>

(* __thread_expired, up to the call of the event notifier.                 *)
FireEnd ==
  LET t == timers[1].thread IN
  /\ FirstDue("end")
  /\ IF StartLinked(t)
     THEN notified' = t /\ UNCHANGED halted
     ELSE halted' = "expired_unlinked" /\ UNCHANGED notified
  /\ ready' = WithoutReady(ready, t)
  /\ timers' = WithoutTimer(Tail(timers), t, "start")
  /\ rank' = [rank EXCEPT ![t] = 0]
  /\ UNCHANGED <<priority, executing, irq, call>>

(* The event notifier returns to the timer loop.                           *)
NotifierReturns ==
  /\ halted = "none"
  /\ notified # None
  /\ call[Irq] = NoCall
  /\ notified' = None
  /\ UNCHANGED <<ready, timers, priority, rank, executing, irq, call, halted>>

(* A handler that returns to the thread it interrupted.                    *)
PitExitSame ==
  /\ halted = "none"
  /\ irq = "timers" /\ notified = None
  /\ timers # <<>> => timers[1].due > 0
  /\ irq' = "none"
  /\ UNCHANGED <<ready, timers, priority, rank, executing, notified, call, halted>>

(* No timer is due any more: thread.enter_irq loads the first ready thread.*)
PitExit ==
  /\ halted = "none"
  /\ irq = "timers" /\ notified = None
  /\ timers # <<>> => timers[1].due > 0
  /\ irq' = "none"
  /\ executing' = ready[1]
  /\ UNCHANGED <<ready, timers, priority, rank, notified, call, halted>>

(* thread.enter_irq for any other IRQ, whose clients do not schedule.      *)
OtherIrq ==
  /\ MayInterrupt
  /\ IF executing = Wild
     THEN halted' = "executing_magic" /\ UNCHANGED executing
     ELSE executing' = ready[1] /\ UNCHANGED halted
  /\ UNCHANGED <<ready, timers, priority, rank, irq, notified, call>>

Continue(c) == LinkEnd(c) \/ LinkStart(c) \/ Evaluate(c)
Handler == FireStart \/ FireEnd \/ NotifierReturns \/ PitExit

Next ==
  \/ \E c \in Callers, t \in Threads, p \in Priorities, start \in Starts, end \in Deadlines :
       Schedule(c, t, p, start, end)
  \/ \E c \in Callers : Continue(c)
  \/ PitEnter
  \/ Handler
  \/ OtherIrq

Spec == Init /\ [][Next]_vars

(* The PIT raises its line again and again and the interrupt controller    *)
(* keeps a request until interrupts are enabled, so another interrupt only *)
(* delays it: strong fairness.  The handler goes on once it runs, with the *)
(* calls of its event notifiers, which return after some of them.  Nothing *)
(* is asked of the threads, which may never get the processor again.       *)
FairSpec ==
  /\ Spec
  /\ SF_vars(PitEnter)
  /\ SF_vars(NotifierReturns)
  /\ WF_vars(Handler)
  /\ WF_vars(Continue(Irq))

-----------------------------------------------------------------------------

(* Rings are sequences of threads and of timers, and a switch may go wild. *)
TypeOK ==
  /\ ready \in Seq(Threads)
  /\ timers \in Seq(Timer)
  /\ priority \in [Threads -> Dwords]
  /\ rank \in [Threads -> Dwords]
  /\ executing \in Threads \cup {Wild}
  /\ irq \in {"none", "timers"}
  /\ notified \in Threads \cup {None}
  /\ call \in [Callers -> Frame \cup {NoCall}]
  /\ halted \in {"none", "executing_magic", "expired_unlinked"}

(* No node is linked twice, and a start node is in one ring at a time: the *)
(* same node serves the timer ring and then ready_for_execution.           *)
LinkedOnce ==
  /\ \A i, j \in 1 .. Len(ready) : ready[i] = ready[j] => i = j
  /\ \A i, j \in 1 .. Len(timers) :
       timers[i].thread = timers[j].thread /\ timers[i].kind = timers[j].kind => i = j
  /\ \A t \in ToSet(ready) : ~InTimers(t, "start")

(* Only two races stop the system for good.  A deadline that finds its     *)
(* thread neither waiting nor ready (SANITYLOCK 5) has come between the    *)
(* two links of a call of thread.schedule for that thread; and an address  *)
(* that is no thread's (SANITYLOCK 90) was left by the switch of a call    *)
(* that had readied a thread.                                              *)
OnlyRacesLock ==
  [][halted = "none" /\ halted' # "none" =>
       \E c \in Threads :
         \/ /\ halted' = "expired_unlinked"
            /\ call[c].at = "start" /\ call[c].thread = timers[1].thread
         \/ halted' = "executing_magic" /\ executing = Wild /\ call[c].at = "evaluate"]_vars

(* Outside interrupts the first thread of the ready ring is the one that   *)
(* runs, unless the one that runs has readied another and is about to give *)
(* the processor to it: however threads, timers, notifiers and calls that  *)
(* were interrupted have changed the ring.                                 *)
RunsHighest ==
  irq = "none" /\ executing \in Threads /\ call[executing].at # "evaluate" => executing = ready[1]

(* "make sure the thread is not currently scheduled": a thread that        *)
(* thread.schedule refuses because of its status is in one of the rings.   *)
InUseIsLinked ==
  \A t \in Threads :
    StatusOf(priority[t]) # 0 /\ (\A c \in Callers : call[c].at = "start" => call[c].thread # t)
      => StartLinked(t) \/ EndLinked(t)

(* The threads for which a call is under way that has not linked a start.  *)
Asked == {call[c].thread : c \in {d \in Callers : call[d].at \in {"end", "start"}}}

Lives == INSTANCE ThreadLives WITH
  Kernel <- {Init_, Idle_},
  life <- [t \in Threads |-> IF t \in ToSet(ready) THEN "ready"
                             ELSE IF InTimers(t, "start") THEN "waiting" ELSE "idle"],
  deadline <- [t \in Threads |-> StartLinked(t) /\ EndLinked(t)],
  running <- executing,
  asked <- Asked

(* Seen from outside, a thread lives the life that ThreadLives describes:  *)
(* thread.schedule and the timers of the PIT handler make no other move,   *)
(* and only a deadline of its own stops a thread, whoever else calls for   *)
(* it at the same time.                                                    *)
ImplementsLives == Lives!Spec

(* A deadline that was set is reached, and a start that was put off comes, *)
(* however the threads and the notifiers go on scheduling, while the system*)
(* runs.                                                                   *)
TimersFire ==
  \A t \in Users : \A kind \in {"start", "end"} :
    InTimers(t, kind) ~> ~InTimers(t, kind) \/ halted # "none"
=============================================================================
