------------------------ MODULE SessionBranchRegister -----------------------
(* SessionBranch implements BranchRegister.                                *)
EXTENDS SessionBranch

\* What a call in flight asks the register to hold.
Asking(c) == pc[c] \in {"resetLock", "switchLock", "defaultLock", "defaultGet",
                        "switchGet", "switchCreate"}

Protected == {n \in Name : Resolve[n] = Default}
sound   == [s \in Session |-> s \notin spoiled]
asked   == [s \in Session |-> {target[c] : c \in {d \in CallsOf(s) : Asking(d)}}]
sending == [s \in Session |-> {target[c] : c \in {d \in CallsOf(s) : InFlight(d)}}]

Register == INSTANCE BranchRegister WITH register <- entry

\* Seen from outside, the locked and suspended code behaves like the register:
\* validation, replacement, recovery, reset and switch each take effect in one
\* step, between the call and its return.
ImplementsRegister == Register!Spec

=============================================================================
