---------------------------- MODULE ThreadLives ----------------------------
(***************************************************************************)
(* What the scheduler promises about a thread, whatever rings and timers   *)
(* it uses: a thread is scheduled only when somebody asked for it, and is  *)
(* idle; it waits until its start, is ready until its deadline, and is     *)
(* stopped by nothing else; only a ready thread is given the processor.  It*)
(* does not promise that the deadline stays when somebody else asks for the*)
(* thread at the same time, nor that the processor finds the thread to     *)
(* which a caller gives it.                                                *)
(***************************************************************************)
CONSTANTS Threads, Kernel

VARIABLES life, deadline, running,
  asked   \* the threads for which somebody asks, and is not answered yet

vars == <<life, deadline, running, asked>>

Init ==
  /\ life = [t \in Threads |-> IF t \in Kernel THEN "ready" ELSE "idle"]
  /\ deadline = [t \in Threads |-> FALSE]
  /\ running \in Kernel
  /\ asked = {}

Ask(t) ==
  /\ life[t] = "idle"
  /\ asked' = asked \cup {t}
  /\ UNCHANGED <<life, deadline, running>>

(* One of those who ask is answered; others may still ask for the thread.  *)
Answered(t) == t \in asked /\ asked' \in {asked, asked \ {t}}

Schedule(t) ==
  /\ life[t] = "idle"
  /\ Answered(t)
  /\ \E l \in {"waiting", "ready"} : life' = [life EXCEPT ![t] = l]
  /\ \E b \in BOOLEAN : deadline' = [deadline EXCEPT ![t] = b]
  /\ UNCHANGED running

Refuse(t) ==
  /\ Answered(t)
  /\ UNCHANGED <<life, deadline, running>>

(* Of several who ask, one brings the deadline and another the start, or   *)
(* takes the deadline of the other back.                                   *)
ChangeDeadline(t) ==
  /\ life[t] # "idle"
  /\ Answered(t)
  /\ deadline' = [deadline EXCEPT ![t] = ~@]
  /\ UNCHANGED <<life, running>>

Start(t) ==
  /\ life[t] = "waiting"
  /\ life' = [life EXCEPT ![t] = "ready"]
  /\ UNCHANGED <<deadline, running, asked>>

Expire(t) ==
  /\ life[t] # "idle" /\ deadline[t]
  /\ life' = [life EXCEPT ![t] = "idle"]
  /\ deadline' = [deadline EXCEPT ![t] = FALSE]
  /\ UNCHANGED <<running, asked>>

Dispatch(t) ==
  /\ life[t] = "ready"
  /\ running' = t
  /\ UNCHANGED <<life, deadline, asked>>

(* The running thread gives way to one that is ready, and gets lost.       *)
Stray(t) ==
  /\ life[t] = "ready" /\ t # running
  /\ running' \notin Threads
  /\ UNCHANGED <<life, deadline, asked>>

(* After that nothing goes on.                                             *)
Next ==
  /\ running \in Threads
  /\ \E t \in Threads :
       \/ Ask(t) \/ Schedule(t) \/ Refuse(t) \/ ChangeDeadline(t)
       \/ Start(t) \/ Expire(t) \/ Dispatch(t) \/ Stray(t)

Spec == Init /\ [][Next]_vars
=============================================================================
