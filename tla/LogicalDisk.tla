---------------------------- MODULE LogicalDisk ----------------------------
(***************************************************************************)
(* What the users of a cached disk rely on: a sector reads as what was     *)
(* last written to it, a write that fails may have reached any of its      *)
(* sectors, and what a crash leaves is what the medium holds, which each   *)
(* write brings up to date at once or later.                               *)
(***************************************************************************)
CONSTANTS Sectors, Data

VARIABLES
  content,  \* what each sector reads as
  medium,   \* what each sector would read as after a crash
  answer,   \* what the last read returned, by sector
  failed    \* did the last call fail?

vars == <<content, medium, answer, failed>>

Init ==
  /\ content \in [Sectors -> Data]
  /\ medium = content
  /\ answer = <<>>
  /\ failed = FALSE

Read(S) ==
  /\ answer' = [s \in S |-> content[s]]
  /\ failed' = FALSE
  /\ UNCHANGED <<content, medium>>

(* Some of the sectors S of v hold the new data after it.                  *)
SomeOf(v, w, S, data) ==
  /\ w \in [Sectors -> Data]
  /\ \A s \in Sectors : w[s] # v[s] => s \in S /\ w[s] = data[s]

Write(S, data) ==
  /\ SomeOf(content, content', S, data)
  /\ SomeOf(medium, medium', S, data)
  /\ failed' \in BOOLEAN
  /\ ~failed' => \A s \in S : content'[s] = data[s]
  /\ answer' = <<>>

Flush(s) ==
  /\ medium' = [medium EXCEPT ![s] = content[s]]
  /\ UNCHANGED <<content, answer, failed>>

Crash ==
  /\ content' = medium
  /\ answer' = <<>>
  /\ failed' = FALSE
  /\ UNCHANGED medium

(* A call that changes no sector, or fails before it does.                 *)
Nothing ==
  /\ answer' = <<>>
  /\ failed' \in BOOLEAN
  /\ UNCHANGED <<content, medium>>

Next ==
  \/ Nothing
  \/ \E S \in SUBSET Sectors : Read(S)
  \/ \E S \in SUBSET Sectors : \E data \in [S -> Data] : Write(S, data)
  \/ \E s \in Sectors : Flush(s)
  \/ Crash

Spec == Init /\ [][Next]_vars
=============================================================================
