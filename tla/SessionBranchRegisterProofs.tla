--------------------- MODULE SessionBranchRegisterProofs --------------------
(***************************************************************************)
(* SessionBranch implements BranchRegister for all values of its           *)
(* constants.  Most steps only move a call from one await to the next and  *)
(* are stutters of the register; AskedFrame and SendingFrame say what a    *)
(* step of one call does to the sets the register is mapped to.            *)
(***************************************************************************)
EXTENDS SessionBranchProofs, SessionBranchRegister

\* The step is one of call c: the frames of the other calls stay as they are.
OnlyCall(c) ==
  \A d \in Call \ {c} : pc'[d] = pc[d] /\ target'[d] = target[d]

LEMMA AskedFrame ==
  ASSUME TypeOK, NEW c \in Call, OnlyCall(c)
  PROVE  /\ asked' = [asked EXCEPT ![S(c)] = asked'[S(c)]]
         /\ ~Asking(c)' => asked'[S(c)] \subseteq asked[S(c)]
         /\ ~Asking(c) /\ Asking(c)' =>
              asked'[S(c)] = asked[S(c)] \cup {target'[c]}
         /\ ~Asking(c) /\ ~Asking(c)' => asked' = asked
         /\ Asking(c) /\ Asking(c)' /\ target'[c] = target[c] => asked' = asked
<1> USE SessionOfType DEF S
<1>1. \A d \in Call \ {c} : (Asking(d)' <=> Asking(d)) /\ target'[d] = target[d]
  BY DEF Asking, OnlyCall
<1>2. \A s \in Session :
        /\ \A x : x \in asked[s] <=>
             \E d \in Call : SessionOf[d] = s /\ Asking(d) /\ target[d] = x
        /\ \A x : x \in asked'[s] <=>
             \E d \in Call : SessionOf[d] = s /\ Asking(d)' /\ target'[d] = x
  BY DEF asked, CallsOf
<1>3. /\ asked = [s \in Session |-> asked[s]]
      /\ asked' = [s \in Session |-> asked'[s]]
  BY DEF asked
<1>4. \A s \in Session \ {S(c)} : asked'[s] = asked[s]
  <2> SUFFICES ASSUME NEW s \in Session \ {S(c)}, NEW x
               PROVE  x \in asked'[s] <=> x \in asked[s]
    BY DEF asked
  <2> QED
    BY <1>1, <1>2
<1>5. asked' = [asked EXCEPT ![S(c)] = asked'[S(c)]]
  BY <1>3, <1>4
<1>6. ~Asking(c)' => asked'[S(c)] \subseteq asked[S(c)]
  BY <1>1, <1>2
<1>7. ASSUME ~Asking(c), Asking(c)'
      PROVE  asked'[S(c)] = asked[S(c)] \cup {target'[c]}
  <2>1. \A x : x \in asked'[S(c)] <=> x \in asked[S(c)] \/ x = target'[c]
    BY <1>1, <1>2, <1>7
  <2> QED
    BY <2>1
<1>8. ASSUME \/ ~Asking(c) /\ ~Asking(c)'
             \/ Asking(c) /\ Asking(c)' /\ target'[c] = target[c]
      PROVE  asked' = asked
  <2>1. \A x : x \in asked'[S(c)] <=> x \in asked[S(c)]
    BY <1>1, <1>2, <1>8
  <2>2. asked'[S(c)] = asked[S(c)]
    BY <2>1
  <2> QED
    BY <2>2, <1>3, <1>4
<1> QED
  BY <1>5, <1>6, <1>7, <1>8

LEMMA SendingFrame ==
  ASSUME TypeOK, NEW c \in Call, OnlyCall(c)
  PROVE  /\ sending' = [sending EXCEPT ![S(c)] = sending'[S(c)]]
         /\ ~InFlight(c)' => sending'[S(c)] \subseteq sending[S(c)]
         /\ ~InFlight(c) /\ InFlight(c)' =>
              sending'[S(c)] = sending[S(c)] \cup {target'[c]}
         /\ ~InFlight(c) /\ ~InFlight(c)' => sending' = sending
         /\ InFlight(c) /\ InFlight(c)' /\ target'[c] = target[c] => sending' = sending
<1> USE SessionOfType DEF S
<1>1. \A d \in Call \ {c} : (InFlight(d)' <=> InFlight(d)) /\ target'[d] = target[d]
  BY DEF InFlight, OnlyCall
<1>2. \A s \in Session :
        /\ \A x : x \in sending[s] <=>
             \E d \in Call : SessionOf[d] = s /\ InFlight(d) /\ target[d] = x
        /\ \A x : x \in sending'[s] <=>
             \E d \in Call : SessionOf[d] = s /\ InFlight(d)' /\ target'[d] = x
  BY DEF sending, CallsOf
<1>3. /\ sending = [s \in Session |-> sending[s]]
      /\ sending' = [s \in Session |-> sending'[s]]
  BY DEF sending
<1>4. \A s \in Session \ {S(c)} : sending'[s] = sending[s]
  <2> SUFFICES ASSUME NEW s \in Session \ {S(c)}, NEW x
               PROVE  x \in sending'[s] <=> x \in sending[s]
    BY DEF sending
  <2> QED
    BY <1>1, <1>2
<1>5. sending' = [sending EXCEPT ![S(c)] = sending'[S(c)]]
  BY <1>3, <1>4
<1>6. ~InFlight(c)' => sending'[S(c)] \subseteq sending[S(c)]
  BY <1>1, <1>2
<1>7. ASSUME ~InFlight(c), InFlight(c)'
      PROVE  sending'[S(c)] = sending[S(c)] \cup {target'[c]}
  <2>1. \A x : x \in sending'[S(c)] <=> x \in sending[S(c)] \/ x = target'[c]
    BY <1>1, <1>2, <1>7
  <2> QED
    BY <2>1
<1>8. ASSUME \/ ~InFlight(c) /\ ~InFlight(c)'
             \/ InFlight(c) /\ InFlight(c)' /\ target'[c] = target[c]
      PROVE  sending' = sending
  <2>1. \A x : x \in sending'[S(c)] <=> x \in sending[S(c)]
    BY <1>1, <1>2, <1>8
  <2>2. sending'[S(c)] = sending[S(c)]
    BY <2>1
  <2> QED
    BY <2>2, <1>3, <1>4
<1> QED
  BY <1>5, <1>6, <1>7, <1>8

LEMMA InitImplements ==
  ASSUME Init
  PROVE  Register!Init
<1>1. sound = [s \in Session |-> TRUE]
  BY DEF Init, sound
<1>2. \A c \in Call : ~Asking(c) /\ ~InFlight(c)
  BY DEF Init, Asking, InFlight
<1>3. asked = [s \in Session |-> {}] /\ sending = [s \in Session |-> {}]
  BY <1>2 DEF asked, sending, CallsOf
<1> QED
  BY <1>1, <1>3 DEF Init, Register!Init

\* A step of a call that the register does not see.
Quiet(c) ==
  /\ OnlyCall(c)
  /\ UNCHANGED <<entry, spoiled>>
  /\ Asking(c)' <=> Asking(c)
  /\ InFlight(c)' <=> InFlight(c)
  /\ Asking(c) \/ InFlight(c) => target'[c] = target[c]

LEMMA QuietStutters ==
  ASSUME TypeOK, NEW c \in Call, Quiet(c)
  PROVE  UNCHANGED Register!vars
BY AskedFrame, SendingFrame DEF Quiet, Register!vars, sound

\* People's steps cost some sessions the soundness of their branch.
LEMMA EnvironmentLoses ==
  ASSUME Environment
  PROVE  Register!Lose \/ UNCHANGED Register!vars
<1>1. UNCHANGED <<entry, pc, target>>
  BY DEF Environment, NextDay, Merge, StartDelete, FinishDelete,
     ForeignCreate, SetStatus, locals
<1>2. UNCHANGED <<asked, sending>>
  BY <1>1 DEF asked, sending, Asking, InFlight
<1>3. spoiled \subseteq spoiled'
  BY DEF Environment, NextDay, Merge, StartDelete, FinishDelete,
     ForeignCreate, SetStatus, history
<1>4. sound' = [s \in Session |-> sound[s] /\ s \notin spoiled' \cap Session]
  BY <1>3 DEF sound
<1> QED
  BY <1>1, <1>2, <1>4 DEF Register!Lose

LEMMA QuietSteps ==
  ASSUME IInv, NEW c \in Call,
         \/ BeginWrite(c)
         \/ EnterUnbound(c) \/ EnterBound(c) \/ EnterSwitch(c)
         \/ RecoverUnbound(c) \/ RecoverEnter(c) \/ FetchDefault(c)
         \/ Answer(c) \/ Redraw(c) \/ GiveUp(c) \/ RecoverKeep(c)
         \/ ResetDone(c) \/ SwitchAbsent(c) \/ DestinationFound(c)
  PROVE  Quiet(c)
<1> USE DEF IInv, TypeOK, Quiet, OnlyCall, Asking, InFlight, Goto, history,
            locals
<1>1. CASE BeginWrite(c) \/ EnterSwitch(c) \/ FetchDefault(c) \/ SwitchAbsent(c)
             \/ DestinationFound(c)
  BY <1>1 DEF BeginWrite, EnterSwitch, FetchDefault, SwitchAbsent,
              DestinationFound, Move
<1>2. CASE EnterUnbound(c) \/ EnterBound(c) \/ RecoverEnter(c) \/ Redraw(c)
  BY <1>2 DEF EnterUnbound, EnterBound, RecoverEnter, Redraw, Draw
<1>3. CASE RecoverUnbound(c) \/ GiveUp(c) \/ RecoverKeep(c) \/ ResetDone(c)
  BY <1>3 DEF RecoverUnbound, GiveUp, RecoverKeep, ResetDone, Exit, ExitLocked,
              Leave
<1>4. CASE Answer(c)
  BY <1>4 DEF Answer, AnswerGet, CreateBranch, RefuseBranch, AnswerWrite
<1> QED
  BY <1>1, <1>2, <1>3, <1>4

LEMMA StepImplements ==
  ASSUME IInv, [Next]_vars
  PROVE  Register!Next \/ UNCHANGED Register!vars
<1> USE SessionOfType, NameAssumption, NoneAssumption
      DEF IInv, TypeOK, Goto, history, locals
<1>1. CASE Environment
  BY <1>1, EnvironmentLoses DEF Register!Next
<1>2. ASSUME NEW c \in Call, Quiet(c)
      PROVE  UNCHANGED Register!vars
  BY <1>2, QuietStutters
<1>3. ASSUME NEW c \in Call, NEW n \in Name, BeginSwitch(c, n)
      PROVE  Register!Ask(S(c), n)
  <2>1. OnlyCall(c) /\ ~Asking(c) /\ Asking(c)' /\ ~InFlight(c) /\ ~InFlight(c)'
    BY <1>3 DEF BeginSwitch, OnlyCall, Asking, InFlight
  <2>2. asked'[S(c)] = asked[S(c)] \cup {n}
    BY <1>3, <2>1, AskedFrame DEF BeginSwitch
  <2>3. asked' = [asked EXCEPT ![S(c)] = @ \cup {n}]
    BY <2>1, <2>2, AskedFrame
  <2> QED
    BY <1>3, <2>1, <2>3, SendingFrame DEF BeginSwitch, Register!Ask, sound
<1>4. ASSUME NEW c \in Call, BeginReset(c)
      PROVE  Register!Ask(S(c), NoName)
  <2>1. OnlyCall(c) /\ ~Asking(c) /\ Asking(c)' /\ ~InFlight(c) /\ ~InFlight(c)'
    BY <1>4 DEF BeginReset, Move, OnlyCall, Asking, InFlight
  <2>2. asked'[S(c)] = asked[S(c)] \cup {NoName}
    BY <1>4, <2>1, AskedFrame DEF BeginReset, Move, Frames
  <2>3. asked' = [asked EXCEPT ![S(c)] = @ \cup {NoName}]
    BY <2>1, <2>2, AskedFrame
  <2> QED
    BY <1>4, <2>1, <2>3, SendingFrame DEF BeginReset, Move, Register!Ask, sound
<1>5. ASSUME NEW c \in Call, BeginPropose(c) \/ Reuse(c) \/ Warned(c)
      PROVE  Register!Send(S(c))
  <2>1. OnlyCall(c) /\ ~InFlight(c) /\ InFlight(c)' /\ ~Asking(c) /\ ~Asking(c)'
    BY <1>5 DEF BeginPropose, Reuse, Warned, SendWrite, OnlyCall, Asking,
                InFlight
  <2>2. target'[c] = entry[S(c)] /\ entry[S(c)] # NoName
    BY <1>5 DEF BeginPropose, Reuse, Warned, SendWrite, Held, Frames, Naming
  <2>3. UNCHANGED <<entry, spoiled>>
    BY <1>5 DEF BeginPropose, Reuse, Warned
  <2>4. sending' = [sending EXCEPT ![S(c)] = @ \cup {entry[S(c)]}]
    BY <2>1, <2>2, SendingFrame
  <2> QED
    BY <2>1, <2>2, <2>3, <2>4, AskedFrame DEF Register!Send, sound
<1>6. ASSUME NEW c \in Call, WriteDone(c) \/ Suspect(c) \/ ProposeDone(c)
      PROVE  Register!Settle(S(c))
  <2>1. OnlyCall(c) /\ ~InFlight(c)' /\ ~Asking(c) /\ ~Asking(c)'
    BY <1>6 DEF WriteDone, Suspect, ProposeDone, Exit, Leave, Move, OnlyCall,
                Asking, InFlight
  <2>2. UNCHANGED <<entry, spoiled>>
    BY <1>6 DEF WriteDone, Suspect, ProposeDone, Exit, Move
  <2> QED
    BY <2>1, <2>2, AskedFrame, SendingFrame DEF Register!Settle, sound
<1>7. ASSUME NEW c \in Call, Replace(c) \/ RecoverClear(c)
      PROVE  Register!Drop(S(c))
  <2>1. OnlyCall(c) /\ ~InFlight(c) /\ ~InFlight(c)' /\ ~Asking(c) /\ ~Asking(c)'
    BY <1>7 DEF Replace, Draw, RecoverClear, Leave, OnlyCall, Asking, InFlight
  <2>2. entry[S(c)] # NoName /\ S(c) \in spoiled
    BY <1>7 DEF Replace, RecoverClear, SpoiledSeen, Held, Frames, Naming
  <2>3. /\ entry' = [entry EXCEPT ![S(c)] = NoName]
        /\ spoiled' = spoiled \ {S(c)}
    BY <1>7 DEF Replace, RecoverClear, PopEntry
  <2>4. sound' = [sound EXCEPT ![S(c)] = TRUE] /\ ~sound[S(c)]
    BY <2>2, <2>3 DEF sound, S
  <2> QED
    BY <2>1, <2>2, <2>3, <2>4, AskedFrame, SendingFrame DEF Register!Drop
<1>8. ASSUME NEW c \in Call, Bind(c) \/ Rebind(c)
      PROVE  Register!Provision(S(c), target[c]) /\ target[c] \in Name
  <2>1. OnlyCall(c) /\ ~InFlight(c) /\ ~Asking(c) /\ ~Asking(c)'
          /\ target'[c] = target[c]
    BY <1>8 DEF Bind, Rebind, SendWrite, OnlyCall, Asking, InFlight
  <2>2. entry[S(c)] = NoName /\ target[c] \in Name \ Protected
    BY <1>8 DEF Bind, Rebind, Held, DefaultSafe, Protected, Frames, Naming
  <2>3. entry' = [entry EXCEPT ![S(c)] = target[c]]
    BY <1>8 DEF Bind, Rebind, SetEntry
  <2>4. \E b \in BOOLEAN : sound' = [sound EXCEPT ![S(c)] = b]
    <3>1. \/ spoiled' = spoiled \ {S(c)}
          \/ spoiled' = spoiled \cup {S(c)}
      BY <1>8 DEF Bind, Rebind, SetEntry
    <3>2. CASE spoiled' = spoiled \ {S(c)}
      <4>1. sound' = [sound EXCEPT ![S(c)] = TRUE]
        BY <3>2 DEF sound, S
      <4> QED
        BY <4>1
    <3>3. CASE spoiled' = spoiled \cup {S(c)}
      <4>1. sound' = [sound EXCEPT ![S(c)] = FALSE]
        BY <3>3 DEF sound, S
      <4> QED
        BY <4>1
    <3> QED
      BY <3>1, <3>2, <3>3
  <2>5. \/ sending' = [sending EXCEPT ![S(c)] = @ \cup {target[c]}]
        \/ UNCHANGED sending
    BY <2>1, SendingFrame
  <2> QED
    BY <2>1, <2>2, <2>3, <2>4, <2>5, AskedFrame DEF Register!Provision
<1>9. ASSUME NEW c \in Call, Reset(c)
      PROVE  Register!Choose(S(c), NoName)
  <2>1. OnlyCall(c) /\ ~InFlight(c) /\ ~InFlight(c)' /\ Asking(c) /\ ~Asking(c)'
    BY <1>9 DEF Reset, OnlyCall, Asking, InFlight
  <2>2. NoName \in asked[S(c)] /\ NoName \notin Protected
    BY <1>9, <2>1 DEF Reset, Frames, asked, CallsOf, S, Protected
  <2>3. /\ entry' = [entry EXCEPT ![S(c)] = NoName]
        /\ spoiled' = spoiled \ {S(c)}
    BY <1>9 DEF Reset, PopEntry
  <2>4. sound' = [sound EXCEPT ![S(c)] = TRUE]
    BY <2>3 DEF sound, S
  <2> QED
    BY <2>1, <2>2, <2>3, <2>4, AskedFrame, SendingFrame DEF Register!Choose
<1>10. ASSUME NEW c \in Call, Switch(c)
       PROVE  Register!Choose(S(c), target[c]) /\ target[c] \in Name
  <2>1. OnlyCall(c) /\ ~InFlight(c) /\ ~InFlight(c)' /\ Asking(c) /\ ~Asking(c)'
    BY <1>10 DEF Switch, Leave, OnlyCall, Asking, InFlight
  <2>2. target[c] \in asked[S(c)] /\ target[c] \in Name \ Protected
    BY <1>10, <2>1 DEF Switch, Frames, Naming, IsDefault, DefaultSafe, asked,
                       CallsOf, S, Protected
  <2>3. entry' = [entry EXCEPT ![S(c)] = target[c]]
    BY <1>10 DEF Switch, SetEntry
  <2>4. \E b \in BOOLEAN : sound' = [sound EXCEPT ![S(c)] = b]
    <3>1. \/ spoiled' = spoiled \ {S(c)}
          \/ spoiled' = spoiled \cup {S(c)}
      BY <1>10 DEF Switch, SetEntry
    <3>2. CASE spoiled' = spoiled \ {S(c)}
      <4>1. sound' = [sound EXCEPT ![S(c)] = TRUE]
        BY <3>2 DEF sound, S
      <4> QED
        BY <4>1
    <3>3. CASE spoiled' = spoiled \cup {S(c)}
      <4>1. sound' = [sound EXCEPT ![S(c)] = FALSE]
        BY <3>3 DEF sound, S
      <4> QED
        BY <4>1
    <3> QED
      BY <3>1, <3>2, <3>3
  <2> QED
    BY <2>1, <2>2, <2>3, <2>4, AskedFrame, SendingFrame DEF Register!Choose
<1>11. ASSUME NEW c \in Call, SwitchRefused(c) \/ SwitchCreateFailed(c)
       PROVE  Register!Refuse(S(c))
  <2>1. OnlyCall(c) /\ ~InFlight(c) /\ ~InFlight(c)' /\ ~Asking(c)'
    BY <1>11 DEF SwitchRefused, SwitchCreateFailed, ExitLocked, Leave, OnlyCall,
                 Asking, InFlight
  <2>2. UNCHANGED <<entry, spoiled>>
    BY <1>11 DEF SwitchRefused, SwitchCreateFailed, ExitLocked
  <2> QED
    BY <2>1, <2>2, AskedFrame, SendingFrame DEF Register!Refuse, sound
<1>12. ASSUME NEW c \in Call, DefaultCached(c) \/ DefaultFetched(c)
       PROVE  Register!Refuse(S(c)) \/ UNCHANGED Register!vars
  <2>1. /\ pc[c] \in {"defaultLock", "defaultGet"}
        /\ UNCHANGED <<entry, spoiled>>
        /\ \/ Leave(c)
           \/ Goto(c, "switchGet") /\ UNCHANGED target
    BY <1>12 DEF DefaultCached, DefaultFetched, CheckName
  <2>2. CASE Leave(c)
    <3>1. OnlyCall(c) /\ ~InFlight(c) /\ ~InFlight(c)' /\ ~Asking(c)'
      BY <2>1, <2>2 DEF Leave, OnlyCall, Asking, InFlight
    <3> QED
      BY <2>1, <3>1, AskedFrame, SendingFrame DEF Register!Refuse, sound
  <2>3. CASE Goto(c, "switchGet") /\ UNCHANGED target
    <3>1. Quiet(c)
      BY <2>1, <2>3 DEF Quiet, OnlyCall, Asking, InFlight
    <3> QED
      BY <3>1, QuietStutters
  <2> QED
    BY <2>1, <2>2, <2>3
<1>13. ASSUME NEW c \in Call, Fail(c)
       PROVE  Register!Refuse(S(c)) \/ Register!Settle(S(c))
  <2>1. OnlyCall(c) /\ ~InFlight(c)' /\ ~Asking(c)' /\ UNCHANGED <<entry, spoiled>>
    BY <1>13 DEF Fail, Leave, OnlyCall, Asking, InFlight
  <2>2. CASE InFlight(c)
    <3>1. ~Asking(c)
      BY <2>2 DEF InFlight, Asking
    <3> QED
      BY <2>1, <3>1, AskedFrame, SendingFrame DEF Register!Settle, sound
  <2>3. CASE ~InFlight(c)
    BY <2>1, <2>3, AskedFrame, SendingFrame DEF Register!Refuse, sound
  <2> QED
    BY <2>2, <2>3
<1>14. ASSUME NEW s \in Session, EndSession(s)
       PROVE  Register!End(s)
  <2>1. UNCHANGED <<asked, sending>>
    BY <1>14 DEF EndSession, asked, sending, Asking, InFlight
  <2>2. asked[s] = {} /\ sending[s] = {}
    BY <1>14 DEF EndSession, asked, sending, Asking, InFlight
  <2>3. sound' = [sound EXCEPT ![s] = TRUE]
    BY <1>14 DEF EndSession, sound
  <2> QED
    BY <1>14, <2>1, <2>2, <2>3 DEF EndSession, Register!End
<1>15. CASE Restart
  <2>1. \A c \in Call : ~Asking(c)' /\ ~InFlight(c)'
    BY <1>15 DEF Restart, Asking, InFlight
  <2>2. /\ asked' = [s \in Session |-> {}]
        /\ sending' = [s \in Session |-> {}]
    BY <2>1 DEF asked, sending, CallsOf
  <2>3. sound' = [s \in Session |-> TRUE]
    BY <1>15 DEF Restart, sound
  <2> QED
    BY <1>15, <2>2, <2>3 DEF Restart, Register!Crash, Register!Next
<1>16. CASE UNCHANGED vars
  <2>1. UNCHANGED <<asked, sending, sound>>
    BY <1>16 DEF vars, asked, sending, sound, Asking, InFlight
  <2> QED
    BY <1>16, <2>1 DEF vars, Register!vars
<1>17. \A c \in Call : S(c) \in Session
  BY DEF S
<1> QED
  BY <1>1, <1>2, <1>3, <1>4, <1>5, <1>6, <1>7, <1>8, <1>9, <1>10, <1>11,
     <1>12, <1>13, <1>14, <1>15, <1>16, <1>17, QuietSteps
  DEF Next, Client, Step, Enter, EnterDefault, Resume, Register!Next

\* The component implements the register: every behaviour of SessionBranch is,
\* under the mapping, one of BranchRegister.
THEOREM RegisterImplemented == Spec => ImplementsRegister
<1>1. Init => Register!Init
  BY InitImplements
<1>2. IInv /\ [Next]_vars => [Register!Next]_(Register!vars)
  BY StepImplements
<1> QED
  BY <1>1, <1>2, Invariance, PTL DEF Spec, ImplementsRegister, Register!Spec

=============================================================================
