--------------------------- MODULE BranchRegister ---------------------------
(***************************************************************************)
(* What the session-branch component promises: a register for each         *)
(* session, read and written in single steps.  A write is sent to the      *)
(* branch in the register; the component itself replaces a branch only     *)
(* when the branch has not been sound ever since it was entered; anything  *)
(* else enters the register only because the session asked for it.         *)
(***************************************************************************)
CONSTANTS Session, Name, Protected, NoName

VARIABLES
  register,  \* the branch of each session, or NoName
  sound,     \* has that branch been writable ever since it was entered?
  asked,     \* what the resets and switches under way ask for
  sending    \* the branches of the mutations and proposals under way

vars == <<register, sound, asked, sending>>

Init ==
  /\ register = [s \in Session |-> NoName]
  /\ sound = [s \in Session |-> TRUE]
  /\ asked = [s \in Session |-> {}]
  /\ sending = [s \in Session |-> {}]

\* People merge and delete branches.
Lose ==
  /\ \E T \in SUBSET Session : sound' = [s \in Session |-> sound[s] /\ s \notin T]
  /\ UNCHANGED <<register, asked, sending>>

\* The session's first branch, or the next one.  Its write may leave at once.
Provision(s, n) ==
  /\ register[s] = NoName
  /\ n \notin Protected
  /\ register' = [register EXCEPT ![s] = n]
  /\ \E b \in BOOLEAN : sound' = [sound EXCEPT ![s] = b]
  /\ \/ sending' = [sending EXCEPT ![s] = @ \cup {n}]
     \/ UNCHANGED sending
  /\ UNCHANGED asked

Drop(s) ==
  /\ register[s] # NoName
  /\ ~sound[s]
  /\ register' = [register EXCEPT ![s] = NoName]
  /\ sound' = [sound EXCEPT ![s] = TRUE]
  /\ UNCHANGED <<asked, sending>>

Send(s) ==
  /\ register[s] # NoName
  /\ sending' = [sending EXCEPT ![s] = @ \cup {register[s]}]
  /\ UNCHANGED <<register, sound, asked>>

\* A mutation or proposal is answered or abandoned.
Settle(s) ==
  /\ \E ns \in SUBSET sending[s] : sending' = [sending EXCEPT ![s] = ns]
  /\ UNCHANGED <<register, sound, asked>>

Ask(s, x) ==
  /\ asked' = [asked EXCEPT ![s] = @ \cup {x}]
  /\ UNCHANGED <<register, sound, sending>>

Refuse(s) ==
  /\ \E xs \in SUBSET asked[s] : asked' = [asked EXCEPT ![s] = xs]
  /\ UNCHANGED <<register, sound, sending>>

\* A reset (x = NoName) or a switch takes effect.
Choose(s, x) ==
  /\ x \in asked[s]
  /\ x \notin Protected
  /\ register' = [register EXCEPT ![s] = x]
  /\ \E b \in BOOLEAN : sound' = [sound EXCEPT ![s] = b]
  /\ \E xs \in SUBSET asked[s] : asked' = [asked EXCEPT ![s] = xs]
  /\ UNCHANGED sending

\* A session ends when nothing of it is under way ...
End(s) ==
  /\ asked[s] = {}
  /\ sending[s] = {}
  /\ register' = [register EXCEPT ![s] = NoName]
  /\ sound' = [sound EXCEPT ![s] = TRUE]
  /\ UNCHANGED <<asked, sending>>

\* ... and all of them when the process dies.
Crash ==
  /\ register' = [s \in Session |-> NoName]
  /\ sound' = [s \in Session |-> TRUE]
  /\ asked' = [s \in Session |-> {}]
  /\ sending' = [s \in Session |-> {}]

Next ==
  \/ Lose
  \/ Crash
  \/ \E s \in Session :
       \/ \E n \in Name : Provision(s, n)
       \/ \E x \in Name \cup {NoName} : Ask(s, x) \/ Choose(s, x)
       \/ Drop(s) \/ Send(s) \/ Settle(s) \/ Refuse(s) \/ End(s)

Spec == Init /\ [][Next]_vars

=============================================================================
