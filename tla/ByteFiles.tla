----------------------------- MODULE ByteFiles -----------------------------
(***************************************************************************)
(* What a program relies on that opens, reads, writes and seeks in files:  *)
(* a file is a sequence of bytes, and a descriptor is a position in one,   *)
(* which no other descriptor moves.  A write puts its bytes at the         *)
(* position, with zeros between the end of the file and them, and moves    *)
(* the position only if all of them are there.                             *)
(***************************************************************************)
EXTENDS Integers, Sequences

CONSTANTS
  Fds, Nodes, Byte,
  Zero,     \* the byte that fills a gap
  MaxLen,   \* bytes of a call
  None      \* a descriptor that is not open

VARIABLES
  bytes,  \* what each file holds
  open    \* the file and the position of each descriptor

vars == <<bytes, open>>

Init ==
  /\ bytes \in [Nodes -> Seq(Byte)]
  /\ open = [fd \in Fds |-> None]

(* The file s with those bytes of d at `pos` whose numbers are in S.       *)
Put(s, pos, d, S) ==
  LET end == IF \E k \in S : pos + k > Len(s) THEN pos + (CHOOSE k \in S : \A j \in S : j <= k) ELSE Len(s)
  IN [i \in 1 .. end |-> IF i - pos \in S THEN d[i - pos] ELSE IF i <= Len(s) THEN s[i] ELSE Zero]

Open(fd, node) ==
  /\ open[fd] = None
  /\ open' = [open EXCEPT ![fd] = [node |-> node, pos |-> 0]]
  /\ bytes' \in {bytes, [bytes EXCEPT ![node] = <<>>]}

(* A file may be emptied by an open that fails.                            *)
OpenFails(node) == bytes' = [bytes EXCEPT ![node] = <<>>] /\ UNCHANGED open

Moves(fd, pos) ==
  /\ open[fd] # None
  /\ open' = [open EXCEPT ![fd].pos = pos]

Read(fd) ==
  /\ open[fd] # None
  /\ \E n \in 1 .. MaxLen :
       /\ open[fd].pos + n <= Len(bytes[open[fd].node])
       /\ Moves(fd, open[fd].pos + n)
  /\ UNCHANGED bytes

Write(fd) ==
  /\ open[fd] # None
  /\ \E n \in 1 .. MaxLen :
       /\ Moves(fd, open[fd].pos + n)
       /\ \E d \in [1 .. n -> Byte] : bytes' = [bytes EXCEPT ![open[fd].node] = Put(@, open[fd].pos, d, 1 .. n)]

WriteFails(fd) ==
  /\ open[fd] # None
  /\ UNCHANGED open
  /\ \E n \in 1 .. MaxLen, d \in [1 .. MaxLen -> Byte] :
       \E S \in SUBSET (1 .. n) : bytes' = [bytes EXCEPT ![open[fd].node] = Put(@, open[fd].pos, d, S)]

Seek(fd) ==
  /\ open[fd] # None /\ open'[fd] # None
  /\ open'[fd].pos \in Nat
  /\ Moves(fd, open'[fd].pos)
  /\ UNCHANGED bytes

Close(fd) ==
  /\ open[fd] # None
  /\ open' = [open EXCEPT ![fd] = None]
  /\ UNCHANGED bytes

Next ==
  \/ \E node \in Nodes : OpenFails(node) \/ \E fd \in Fds : Open(fd, node)
  \/ \E fd \in Fds : Read(fd) \/ Write(fd) \/ WriteFails(fd) \/ Seek(fd) \/ Close(fd)

Spec == Init /\ [][Next]_vars
=============================================================================
