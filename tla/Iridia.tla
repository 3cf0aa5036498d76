------------------------------- MODULE Iridia -------------------------------
(***************************************************************************)
(* The interrupt channels (sys/interrupts/x86/iridia.asm): a ring of       *)
(* clients for each IRQ, the masks of the two interrupt controllers, and   *)
(* the first-level handler that calls the clients.                         *)
(*                                                                         *)
(* irq.connect runs in a critical section, and is one step.  irq.disconnect*)
(* does not, and is one step for each access to what others change; that   *)
(* its ring_queue.remove may itself be interrupted is the subject of       *)
(* RingQueue.  Threads run only between interrupts.                        *)
(***************************************************************************)
EXTENDS Naturals, FiniteSets

CONSTANTS
  Irqs, Slave, Cascade,   \* IRQ numbers, those of the slave PIC, and IRQ 2
  Clients,                \* _irq_client_t
  Threads,
  Users,                  \* the IRQs that callers name
  Racing,                 \* may calls overlap an irq.disconnect?
  NoCall, Wild            \* no call; a return to a wrong address

Nodes == Irqs \cup Clients

(* Where a thread is in irq.disconnect, and the handler in irq.soft_irq.   *)
Frames ==
  [at : {"check", "in"}, irq : Irqs] \cup [at : {"out"}, irq : Irqs, mask : SUBSET Irqs]
Walks == [irq : Irqs, at : Nodes, called : SUBSET Clients, due : SUBSET Clients]

ASSUME IridiaAssumption ==
  /\ Slave \subseteq Irqs /\ Cascade \in Irqs \ Slave /\ Users \subseteq Irqs
  /\ Irqs \cap Clients = {}
  /\ Racing \in BOOLEAN
  /\ NoCall \notin Nodes \cup Frames \cup Walks /\ Wild \notin {NoCall} \cup Frames

VARIABLES
  next,       \* the next pointers; an IRQ stands for the head of its ring
  masked,     \* (hardware) the IRQs that the PICs hold back
  requested,  \* (hardware) the IRQs that are waiting at the PICs
  call,       \* for each thread: where it is in irq.disconnect
  walk,       \* irq.soft_irq: the IRQ, the node reached, the clients called
  channel     \* (history) for each client, the IRQ it is connected to

vars == <<next, masked, requested, call, walk, channel>>

Connected(irq) == {c \in Clients : channel[c] = irq}
PicOf(irq) == IF irq \in Slave THEN Slave ELSE Irqs \ Slave

(* The initialisation masks all but the cascade.                           *)
Init ==
  /\ next = [n \in Nodes |-> n]
  /\ masked = Irqs \ {Cascade}
  /\ requested = {}
  /\ call = [t \in Threads |-> NoCall]
  /\ walk = NoCall
  /\ channel = [c \in Clients |-> NoCall]

-----------------------------------------------------------------------------
(* The procedures                                                          *)

(* irq.connect: ring_queue.insert_after, then the IRQ is unmasked.         *)
Insert(irq, c) == next' = [next EXCEPT ![c] = next[irq], ![irq] = c]

(* A connection that looks for the first client too late.                  *)
ConnectedFirst(irq, c) ==
  /\ next[c] = c
  /\ Insert(irq, c)
  /\ masked' = IF next'[irq] = irq THEN masked \ {irq} ELSE masked
  /\ channel' = [channel EXCEPT ![c] = irq]
ConnectedAs(irq, c) ==
  /\ next[c] = c
  /\ Insert(irq, c)
  /\ masked' = masked \ {irq}
  /\ channel' = [channel EXCEPT ![c] = irq]

Lost == \E t \in Threads : call[t] = Wild
Undisturbed == ~Lost /\ (Racing \/ \A t \in Threads : call[t] = NoCall)

MayCall(t) ==
  /\ walk = NoCall
  /\ call[t] = NoCall
  /\ Undisturbed

Connect(t, irq, c) ==
  /\ MayCall(t)
  /\ ConnectedAs(irq, c)
  /\ UNCHANGED <<requested, call, walk>>

(* .unexpected of irq.connect: it pops the IRQ number but not the flags of *)
(* the critical section, and returns through them: the system is lost.     *)
ConnectTwice(t, irq, c) ==
  /\ MayCall(t)
  /\ next[c] # c
  /\ call' = [call EXCEPT ![t] = Wild]
  /\ UNCHANGED <<next, masked, requested, walk, channel>>

(* irq.disconnect: ring_queue.remove, of whatever ring the client is in.   *)
(* For a client that is in none, ring_queue.remove takes .already_unlinked *)
(* and irq.disconnect .unexpected, before the mask is read: nothing at all *)
(* changes, and there is no step.                                          *)
Disconnect(t, irq, c) ==
  /\ MayCall(t)
  /\ next[c] # c
  /\ LET before == CHOOSE n \in Nodes : next[n] = c IN
     next' = [next EXCEPT ![before] = next[c], ![c] = c]
  /\ call' = [call EXCEPT ![t] = [at |-> "check", irq |-> irq]]
  /\ channel' = [channel EXCEPT ![c] = NoCall]
  /\ UNCHANGED <<masked, requested, walk>>

At(t, label) == call[t] \notin {NoCall, Wild} /\ call[t].at = label

(* A check that is left out.                                               *)
CheckRingSkipped(t) ==
  /\ walk = NoCall /\ ~Lost
  /\ At(t, "check")
  /\ call' = [call EXCEPT ![t] = [at |-> "in", irq |-> call[t].irq]]
  /\ UNCHANGED <<next, masked, requested, walk, channel>>

(* The IRQ stays enabled if it has clients left.                           *)
CheckRing(t) ==
  /\ walk = NoCall /\ ~Lost
  /\ At(t, "check")
  /\ call' = [call EXCEPT ![t] = IF next[call[t].irq] = call[t].irq
                                 THEN [at |-> "in", irq |-> call[t].irq] ELSE NoCall]
  /\ UNCHANGED <<next, masked, requested, walk, channel>>

(* `in al, dx` and `out dx, al`: the whole mask of the IRQ's PIC.          *)
ReadMask(t) ==
  /\ walk = NoCall /\ ~Lost
  /\ At(t, "in")
  /\ call' = [call EXCEPT ![t] = [at |-> "out", irq |-> call[t].irq,
                                  mask |-> (masked \cap PicOf(call[t].irq)) \cup {call[t].irq}]]
  /\ UNCHANGED <<next, masked, requested, walk, channel>>
WriteMask(t) ==
  /\ walk = NoCall /\ ~Lost
  /\ At(t, "out")
  /\ masked' = (masked \ PicOf(call[t].irq)) \cup call[t].mask
  /\ call' = [call EXCEPT ![t] = NoCall]
  /\ UNCHANGED <<next, requested, walk, channel>>

-----------------------------------------------------------------------------
(* Interrupts                                                              *)

(* A device raises its line.                                               *)
Raise(irq) ==
  /\ irq # Cascade
  /\ irq \notin requested
  /\ requested' = requested \cup {irq}
  /\ UNCHANGED <<next, masked, call, walk, channel>>

(* irq.soft_irq: the PICs are acknowledged before the clients are called.  *)
Interrupt(irq) ==
  /\ walk = NoCall /\ ~Lost
  /\ irq \in requested \ masked
  /\ irq \in Slave => Cascade \notin masked
  /\ requested' = requested \ {irq}
  /\ walk' = [irq |-> irq, at |-> irq, called |-> {}, due |-> Connected(irq)]
  /\ UNCHANGED <<next, masked, call, channel>>

(* A walk that goes on from the client after the next.                     *)
CallClientSkips ==
  /\ walk # NoCall
  /\ next[walk.at] # walk.irq
  /\ walk' = [walk EXCEPT !.at = IF next[next[walk.at]] = walk.irq THEN next[walk.at] ELSE next[next[walk.at]],
                          !.called = @ \cup {next[walk.at]}]
  /\ UNCHANGED <<next, masked, requested, call, channel>>
CallClient ==
  /\ walk # NoCall
  /\ next[walk.at] # walk.irq
  /\ walk' = [walk EXCEPT !.at = next[walk.at], !.called = @ \cup {next[walk.at]}]
  /\ UNCHANGED <<next, masked, requested, call, channel>>

(* The client that is being called connects another.                       *)
HandlerConnects(irq, c) ==
  /\ Undisturbed
  /\ walk # NoCall
  /\ walk.called # {}
  /\ ConnectedAs(irq, c)
  /\ UNCHANGED <<requested, call, walk>>

Cycled ==
  /\ walk # NoCall
  /\ next[walk.at] = walk.irq
  /\ walk' = NoCall
  /\ UNCHANGED <<next, masked, requested, call, channel>>

Next ==
  \/ \E t \in Threads, irq \in Users, c \in Clients :
       Connect(t, irq, c) \/ ConnectTwice(t, irq, c) \/ Disconnect(t, irq, c)
  \/ \E t \in Threads : CheckRing(t) \/ ReadMask(t) \/ WriteMask(t)
  \/ \E irq \in Irqs : Raise(irq) \/ Interrupt(irq)
  \/ CallClient
  \/ \E irq \in Users, c \in Clients : HandlerConnects(irq, c)
  \/ Cycled

Spec == Init /\ [][Next]_vars
(* Clients return, a PIC that again and again has a request that is not    *)
(* masked delivers it, and threads get to go on between the interrupts.    *)
FairSpec ==
  /\ Spec
  /\ \A t \in Threads : SF_vars(CheckRing(t) \/ ReadMask(t) \/ WriteMask(t))
  /\ \A irq \in Irqs : SF_vars(Interrupt(irq))
  /\ WF_vars(CallClient) /\ WF_vars(Cycled)

-----------------------------------------------------------------------------
(* Properties                                                              *)

(* Rings, masks and requests are of IRQs and clients.                     *)
TypeOK ==
  /\ next \in [Nodes -> Nodes]
  /\ masked \subseteq Irqs /\ requested \subseteq Irqs
  /\ call \in [Threads -> {NoCall, Wild} \cup Frames]
  /\ walk \in {NoCall} \cup Walks
  /\ channel \in [Clients -> Users \cup {NoCall}]

(* An IRQ that has clients is masked neither itself nor by the cascade, once*)
(* the calls of irq.disconnect are over: "the client will be called for    *)
(* every IRQ received for which it is connected".                          *)
NoDeafClient ==
  (\A t \in Threads : call[t] = NoCall) =>
    \A irq \in Irqs : Connected(irq) # {} =>
      irq \notin masked /\ (irq \in Slave => Cascade \notin masked)

(* An interrupt calls each client that is connected when it comes, also    *)
(* when the ring changes under it.                                         *)
EveryClientCalled ==
  [][(walk # NoCall /\ walk' = NoCall) => walk.due \subseteq walk.called]_<<walk>>

(* A request reaches a connected client, if it is not disconnected first   *)
(* and the system is not lost.                                             *)
Heard ==
  \A irq \in Users, c \in Clients :
    (irq \in requested /\ channel[c] = irq)
      ~> (Lost \/ channel[c] # irq \/ (walk # NoCall /\ walk.irq = irq /\ c \in walk.called))
=============================================================================
