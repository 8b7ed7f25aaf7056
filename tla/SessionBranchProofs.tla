------------------------- MODULE SessionBranchProofs -----------------------
(***************************************************************************)
(* The safety properties of SessionBranch, for any number of sessions,     *)
(* calls and branches, any pattern and any aliases.                        *)
(*                                                                         *)
(* None of them is inductive by itself.  IInv adds what a call may rely on *)
(* while it is suspended: its frame holds a name and no answer it has not  *)
(* asked for (Frames), the register does not move under the holder of the  *)
(* lock (Held), the default branch is never given away by Infrahub         *)
(* (DefaultSafe), and a stale answer about the session's branch is true    *)
(* for as long as the call acts on it (SpoiledSeen).                       *)
(***************************************************************************)
EXTENDS SessionBranch, TLAPS

\* A call suspended at these places has a branch name in its hands ...
Naming == {"get", "create", "warn", "switchLock", "defaultLock", "defaultGet",
           "switchGet", "switchCreate", "recoverGet", "send", "proposeAll",
           "proposeSend"}

\* ... and answers are in its frame only at these.
Frames ==
  \A c \in Call :
    /\ pc[c] \in Naming => target[c] \in Name
    /\ pc[c] \in {"idle", "resetLock"} => target[c] = NoName
    /\ seen[c] # "none" =>
         pc[c] \in {"get", "create", "warn", "switchGet", "switchCreate",
                    "recoverGet"}
    /\ result[c] # "none" =>
         pc[c] \in {"create", "warn", "switchCreate", "send", "recoverLock",
                    "recoverGet"}

\* The register of a session while one of its calls holds the lock.
Held ==
  \A c \in Call :
    /\ pc[c] \in {"get", "warn", "recoverGet"} => entry[S(c)] = target[c]
    /\ pc[c] = "create" => entry[S(c)] = NoName

DefaultSafe ==
  /\ status[Default] = "open"
  /\ \A c \in Call :
       pc[c] \in {"create", "switchCreate"} /\ result[c] = "created" =>
         Resolve[target[c]] # Default
  /\ DefaultIsolated

Granted ==
  /\ \A s \in Session : entry[s] # NoName => entry[s] \in granted[s]
  /\ SessionIsolation

SpoiledSeen ==
  /\ \A s \in Session :
       entry[s] # NoName /\ status[Resolve[entry[s]]] # "open" => s \in spoiled
  /\ \A c \in Call :
       pc[c] \in {"get", "recoverGet"} /\ Stale(seen[c]) => S(c) \in spoiled

IInv ==
  TypeOK /\ Frames /\ LockDiscipline /\ Held /\ DefaultSafe /\ Granted
    /\ SpoiledSeen

-----------------------------------------------------------------------------

\* Every step preserves the types.
LEMMA Typing ==
  ASSUME TypeOK, Frames, [Next]_vars
  PROVE  TypeOK'
<1> USE SessionOfType, NameAssumption, PatternAssumption, RunAssumption,
  NoneAssumption DEF TypeOK, Frames, Naming, Status, Place, Holding, Result,
  ReadOnly, serverVars, defaultVars, locals, history, S, Goto
<1>1. CASE Environment
  BY <1>1 DEF Environment, NextDay, Merge, SetStatus, StartDelete,
    FinishDelete, ForeignCreate
<1>2. ASSUME NEW c \in Call, NEW n \in Name, BeginSwitch(c, n)
      PROVE  TypeOK'
  BY <1>2 DEF BeginSwitch
<1>3. ASSUME NEW c \in Call, pc[c] \in {"send", "proposeSend", "recoverLock"}, Exit(c)
      PROVE  TypeOK'
  BY <1>3 DEF Exit, Leave
<1>4. ASSUME NEW c \in Call, pc[c] \in Holding \ {"defaultGet"}, ExitLocked(c)
      PROVE  TypeOK'
  BY <1>4 DEF ExitLocked, Release, Leave
<1>5. ASSUME NEW c \in Call, BeginWrite(c)
      PROVE  TypeOK'
  BY <1>5 DEF BeginWrite, Move
<1>6. ASSUME NEW c \in Call, BeginReset(c)
      PROVE  TypeOK'
  BY <1>6 DEF BeginReset, Move
<1>7. ASSUME NEW c \in Call, BeginPropose(c)
      PROVE  TypeOK'
  BY <1>7 DEF BeginPropose
<1>8. ASSUME NEW c \in Call, EnterUnbound(c)
      PROVE  TypeOK'
  BY <1>8 DEF EnterUnbound, Acquire, Draw
<1>9. ASSUME NEW c \in Call, EnterBound(c)
      PROVE  TypeOK'
  BY <1>9 DEF EnterBound, Acquire
<1>10. ASSUME NEW c \in Call, Reset(c)
      PROVE  TypeOK'
  BY <1>10 DEF Reset, Acquire, PopEntry, Owe
<1>11. ASSUME NEW c \in Call, EnterSwitch(c)
      PROVE  TypeOK'
  BY <1>11 DEF EnterSwitch, Acquire
<1>12. ASSUME NEW c \in Call, RecoverEnter(c)
      PROVE  TypeOK'
  BY <1>12 DEF RecoverEnter, Acquire
<1>13. ASSUME NEW c \in Call, DefaultCached(c)
      PROVE  TypeOK'
  <2>1. CASE Release(c) /\ Leave(c)
    BY <1>13, <2>1 DEF DefaultCached, Release, Leave
  <2>2. CASE Goto(c, "switchGet") /\ UNCHANGED <<lock, locals>>
    BY <1>13, <2>2 DEF DefaultCached
  <2> QED
    BY <1>13, <2>1, <2>2 DEF DefaultCached, CheckName
<1>14. ASSUME NEW c \in Call, FetchDefault(c)
      PROVE  TypeOK'
  BY <1>14 DEF FetchDefault
<1>15. ASSUME NEW c \in Call, AnswerGet(c)
      PROVE  TypeOK'
  BY <1>15 DEF AnswerGet
<1>16. ASSUME NEW c \in Call, CreateBranch(c)
      PROVE  TypeOK'
  BY <1>16 DEF CreateBranch, Creating
<1>17. ASSUME NEW c \in Call, RefuseBranch(c)
      PROVE  TypeOK'
  BY <1>17 DEF RefuseBranch, Creating
<1>18. ASSUME NEW c \in Call, AnswerWrite(c)
      PROVE  TypeOK'
  BY <1>18 DEF AnswerWrite, WriteAnswers
<1>19. ASSUME NEW c \in Call, Reuse(c)
      PROVE  TypeOK'
  BY <1>19 DEF Reuse, Fit, Release, SendWrite, Stale, UnwritableStatus
<1>20. ASSUME NEW c \in Call, Replace(c)
      PROVE  TypeOK'
  BY <1>20 DEF Replace, Stale, PopEntry, Owe, Draw, UnwritableStatus
<1>21. ASSUME NEW c \in Call, Bind(c)
      PROVE  TypeOK'
  BY <1>21 DEF Bind, SetEntry, Release, SendWrite
<1>22. ASSUME NEW c \in Call, Rebind(c)
      PROVE  TypeOK'
  BY <1>22 DEF Rebind, SetEntry
<1>23. ASSUME NEW c \in Call, Redraw(c)
      PROVE  TypeOK'
  BY <1>23 DEF Redraw, MayRetry, Draw
<1>24. ASSUME NEW c \in Call, Warned(c)
      PROVE  TypeOK'
  BY <1>24 DEF Warned, Owe, Release, SendWrite
<1>25. ASSUME NEW c \in Call, Suspect(c)
      PROVE  TypeOK'
  BY <1>25 DEF Suspect, Move
<1>26. ASSUME NEW c \in Call, RecoverClear(c)
      PROVE  TypeOK'
  BY <1>26 DEF RecoverClear, Stale, PopEntry, Release, Leave, UnwritableStatus
<1>27. ASSUME NEW c \in Call, DefaultFetched(c)
      PROVE  TypeOK'
  <2>1. CASE Release(c) /\ Leave(c)
    BY <1>27, <2>1 DEF DefaultFetched, Release, Leave
  <2>2. CASE Goto(c, "switchGet") /\ UNCHANGED <<lock, locals>>
    BY <1>27, <2>2 DEF DefaultFetched
  <2> QED
    BY <1>27, <2>1, <2>2 DEF DefaultFetched, CheckName
<1>28. ASSUME NEW c \in Call, SwitchAbsent(c)
      PROVE  TypeOK'
  BY <1>28 DEF SwitchAbsent, Move
<1>29. ASSUME NEW c \in Call, Switch(c)
      PROVE  TypeOK'
  BY <1>29 DEF Switch, Fit, IsDefault, SetEntry, Owe, Release, Leave, Stale,
    UnwritableStatus
<1>30. ASSUME NEW c \in Call, DestinationFound(c)
      PROVE  TypeOK'
  BY <1>30 DEF DestinationFound, Move
<1>31. ASSUME NEW c \in Call, Fail(c)
      PROVE  TypeOK'
  BY <1>31 DEF Fail, Release, Leave
<1>32. ASSUME NEW s \in Session, EndSession(s)
      PROVE  TypeOK'
  BY <1>32 DEF EndSession, CallsOf
<1>33. CASE Restart
  BY <1>33 DEF Restart
<1>34. CASE UNCHANGED vars
  BY <1>34 DEF vars
<1> QED
  BY <1>1, <1>2, <1>3, <1>4, <1>5, <1>6, <1>7, <1>8, <1>9, <1>10, <1>11,
    <1>12, <1>13, <1>14, <1>15, <1>16, <1>17, <1>18, <1>19, <1>20, <1>21,
    <1>22, <1>23, <1>24, <1>25, <1>26, <1>27, <1>28, <1>29, <1>30, <1>31,
    <1>32, <1>33, <1>34 DEF Holding, Next, Client, Step, Enter, EnterDefault,
    Answer, Resume, WriteDone, ProposeDone, RecoverUnbound, GiveUp,
    RecoverKeep, ResetDone, SwitchRefused, SwitchCreateFailed

\* Every step keeps the frames of the calls in order.
LEMMA FramesKept ==
  ASSUME TypeOK, Frames, [Next]_vars
  PROVE  Frames'
<1> USE SessionOfType, NameAssumption, PatternAssumption, RunAssumption,
  NoneAssumption DEF TypeOK, Frames, Naming, Place, Holding, serverVars,
  defaultVars, locals, history, S, Goto
<1>1. CASE Environment
  BY <1>1 DEF Environment, NextDay, Merge, SetStatus, StartDelete,
    FinishDelete, ForeignCreate
<1>2. ASSUME NEW c \in Call, NEW n \in Name, BeginSwitch(c, n)
      PROVE  Frames'
  BY <1>2 DEF BeginSwitch
<1>3. ASSUME NEW c \in Call, Answer(c)
      PROVE  Frames'
  BY <1>3 DEF Answer, AnswerGet, CreateBranch, Creating, RefuseBranch,
    AnswerWrite, WriteAnswers
<1>4. ASSUME NEW c \in Call, pc[c] \in {"send", "proposeSend", "recoverLock"}, Exit(c)
      PROVE  Frames'
  BY <1>4 DEF Exit, Leave
<1>5. ASSUME NEW c \in Call, pc[c] \in Holding \ {"defaultGet"}, ExitLocked(c)
      PROVE  Frames'
  BY <1>5 DEF ExitLocked, Release, Leave
<1>6. ASSUME NEW c \in Call, BeginWrite(c)
      PROVE  Frames'
  BY <1>6 DEF BeginWrite, Move
<1>7. ASSUME NEW c \in Call, BeginReset(c)
      PROVE  Frames'
  BY <1>7 DEF BeginReset, Move
<1>8. ASSUME NEW c \in Call, BeginPropose(c)
      PROVE  Frames'
  BY <1>8 DEF BeginPropose
<1>9. ASSUME NEW c \in Call, EnterUnbound(c)
      PROVE  Frames'
  BY <1>9 DEF EnterUnbound, Acquire, Draw
<1>10. ASSUME NEW c \in Call, EnterBound(c)
      PROVE  Frames'
  BY <1>10 DEF EnterBound, Acquire
<1>11. ASSUME NEW c \in Call, Reset(c)
      PROVE  Frames'
  BY <1>11 DEF Reset, Acquire, PopEntry, Owe
<1>12. ASSUME NEW c \in Call, EnterSwitch(c)
      PROVE  Frames'
  BY <1>12 DEF EnterSwitch, Acquire
<1>13. ASSUME NEW c \in Call, RecoverEnter(c)
      PROVE  Frames'
  BY <1>13 DEF RecoverEnter, Acquire
<1>14. ASSUME NEW c \in Call, DefaultCached(c)
      PROVE  Frames'
  <2>1. CASE Release(c) /\ Leave(c)
    BY <1>14, <2>1 DEF DefaultCached, Release, Leave
  <2>2. CASE Goto(c, "switchGet") /\ UNCHANGED <<lock, locals>>
    BY <1>14, <2>2 DEF DefaultCached
  <2> QED
    BY <1>14, <2>1, <2>2 DEF DefaultCached, CheckName
<1>15. ASSUME NEW c \in Call, FetchDefault(c)
      PROVE  Frames'
  BY <1>15 DEF FetchDefault
<1>16. ASSUME NEW c \in Call, Reuse(c)
      PROVE  Frames'
  BY <1>16 DEF Reuse, Fit, Release, SendWrite, Stale, UnwritableStatus
<1>17. ASSUME NEW c \in Call, Replace(c)
      PROVE  Frames'
  BY <1>17 DEF Replace, Stale, PopEntry, Owe, Draw, UnwritableStatus
<1>18. ASSUME NEW c \in Call, Bind(c)
      PROVE  Frames'
  BY <1>18 DEF Bind, SetEntry, Release, SendWrite
<1>19. ASSUME NEW c \in Call, Rebind(c)
      PROVE  Frames'
  BY <1>19 DEF Rebind, SetEntry
<1>20. ASSUME NEW c \in Call, Redraw(c)
      PROVE  Frames'
  BY <1>20 DEF Redraw, MayRetry, Draw
<1>21. ASSUME NEW c \in Call, Warned(c)
      PROVE  Frames'
  BY <1>21 DEF Warned, Owe, Release, SendWrite
<1>22. ASSUME NEW c \in Call, Suspect(c)
      PROVE  Frames'
  BY <1>22 DEF Suspect, Move
<1>23. ASSUME NEW c \in Call, RecoverClear(c)
      PROVE  Frames'
  BY <1>23 DEF RecoverClear, Stale, PopEntry, Release, Leave, UnwritableStatus
<1>24. ASSUME NEW c \in Call, DefaultFetched(c)
      PROVE  Frames'
  <2>1. CASE Release(c) /\ Leave(c)
    BY <1>24, <2>1 DEF DefaultFetched, Release, Leave
  <2>2. CASE Goto(c, "switchGet") /\ UNCHANGED <<lock, locals>>
    BY <1>24, <2>2 DEF DefaultFetched
  <2> QED
    BY <1>24, <2>1, <2>2 DEF DefaultFetched, CheckName
<1>25. ASSUME NEW c \in Call, SwitchAbsent(c)
      PROVE  Frames'
  BY <1>25 DEF SwitchAbsent, Move
<1>26. ASSUME NEW c \in Call, Switch(c)
      PROVE  Frames'
  BY <1>26 DEF Switch, Fit, IsDefault, SetEntry, Owe, Release, Leave, Stale,
    UnwritableStatus
<1>27. ASSUME NEW c \in Call, DestinationFound(c)
      PROVE  Frames'
  BY <1>27 DEF DestinationFound, Move
<1>28. ASSUME NEW c \in Call, Fail(c)
      PROVE  Frames'
  BY <1>28 DEF Fail, Release, Leave
<1>29. ASSUME NEW s \in Session, EndSession(s)
      PROVE  Frames'
  BY <1>29 DEF EndSession, CallsOf
<1>30. CASE Restart
  BY <1>30 DEF Restart
<1>31. CASE UNCHANGED vars
  BY <1>31 DEF vars
<1> QED
  BY <1>1, <1>2, <1>3, <1>4, <1>5, <1>6, <1>7, <1>8, <1>9, <1>10, <1>11,
    <1>12, <1>13, <1>14, <1>15, <1>16, <1>17, <1>18, <1>19, <1>20, <1>21,
    <1>22, <1>23, <1>24, <1>25, <1>26, <1>27, <1>28, <1>29, <1>30, <1>31 DEF
    Holding, Next, Client, Step, Enter, EnterDefault, Resume, WriteDone,
    ProposeDone, RecoverUnbound, GiveUp, RecoverKeep, ResetDone,
    SwitchRefused, SwitchCreateFailed

\* Every step keeps the discipline of the locks.
LEMMA LocksKept ==
  ASSUME TypeOK, LockDiscipline, [Next]_vars
  PROVE  LockDiscipline'
<1> USE SessionOfType, NameAssumption, PatternAssumption, RunAssumption,
  NoneAssumption DEF TypeOK, LockDiscipline, Place, Holding, serverVars,
  defaultVars, locals, history, S, Goto
<1>1. CASE Environment
  BY <1>1 DEF Environment, NextDay, Merge, SetStatus, StartDelete,
    FinishDelete, ForeignCreate
<1>2. CASE Client
  BY <1>2 DEF Client, BeginWrite, Move, BeginReset, BeginPropose, BeginSwitch
<1>3. ASSUME NEW c \in Call, Answer(c)
      PROVE  LockDiscipline'
  BY <1>3 DEF Answer, AnswerGet, CreateBranch, Creating, RefuseBranch,
    AnswerWrite, WriteAnswers
<1>4. ASSUME NEW c \in Call,
             \/ FetchDefault(c) \/ SwitchAbsent(c) \/ Suspect(c)
             \/ DestinationFound(c)
      PROVE  LockDiscipline'
  BY <1>4 DEF FetchDefault, SwitchAbsent, Move, Suspect, DestinationFound
<1>5. ASSUME NEW c \in Call, pc[c] \in {"send", "proposeSend", "recoverLock"}, Exit(c)
      PROVE  LockDiscipline'
  BY <1>5 DEF Exit, Leave
<1>6. ASSUME NEW c \in Call, pc[c] \in Holding \ {"defaultGet"}, ExitLocked(c)
      PROVE  LockDiscipline'
  BY <1>6 DEF ExitLocked, Release, Leave
<1>7. ASSUME NEW c \in Call, EnterUnbound(c)
      PROVE  LockDiscipline'
  BY <1>7 DEF EnterUnbound, Acquire, Draw
<1>8. ASSUME NEW c \in Call, EnterBound(c)
      PROVE  LockDiscipline'
  BY <1>8 DEF EnterBound, Acquire
<1>9. ASSUME NEW c \in Call, Reset(c)
      PROVE  LockDiscipline'
  BY <1>9 DEF Reset, Acquire, PopEntry, Owe
<1>10. ASSUME NEW c \in Call, EnterSwitch(c)
      PROVE  LockDiscipline'
  BY <1>10 DEF EnterSwitch, Acquire
<1>11. ASSUME NEW c \in Call, RecoverEnter(c)
      PROVE  LockDiscipline'
  BY <1>11 DEF RecoverEnter, Acquire
<1>12. ASSUME NEW c \in Call, DefaultCached(c)
      PROVE  LockDiscipline'
  <2>1. CASE Release(c) /\ Leave(c)
    BY <1>12, <2>1 DEF DefaultCached, Release, Leave
  <2>2. CASE Goto(c, "switchGet") /\ UNCHANGED <<lock, locals>>
    BY <1>12, <2>2 DEF DefaultCached
  <2> QED
    BY <1>12, <2>1, <2>2 DEF DefaultCached, CheckName
<1>13. ASSUME NEW c \in Call, Reuse(c)
      PROVE  LockDiscipline'
  BY <1>13 DEF Reuse, Fit, Release, SendWrite, Stale, UnwritableStatus
<1>14. ASSUME NEW c \in Call, Replace(c)
      PROVE  LockDiscipline'
  BY <1>14 DEF Replace, Stale, PopEntry, Owe, Draw, UnwritableStatus
<1>15. ASSUME NEW c \in Call, Bind(c)
      PROVE  LockDiscipline'
  BY <1>15 DEF Bind, SetEntry, Release, SendWrite
<1>16. ASSUME NEW c \in Call, Rebind(c)
      PROVE  LockDiscipline'
  BY <1>16 DEF Rebind, SetEntry
<1>17. ASSUME NEW c \in Call, Redraw(c)
      PROVE  LockDiscipline'
  BY <1>17 DEF Redraw, MayRetry, Draw
<1>18. ASSUME NEW c \in Call, Warned(c)
      PROVE  LockDiscipline'
  BY <1>18 DEF Warned, Owe, Release, SendWrite
<1>19. ASSUME NEW c \in Call, RecoverClear(c)
      PROVE  LockDiscipline'
  BY <1>19 DEF RecoverClear, Stale, PopEntry, Release, Leave, UnwritableStatus
<1>20. ASSUME NEW c \in Call, DefaultFetched(c)
      PROVE  LockDiscipline'
  <2>1. CASE Release(c) /\ Leave(c)
    BY <1>20, <2>1 DEF DefaultFetched, Release, Leave
  <2>2. CASE Goto(c, "switchGet") /\ UNCHANGED <<lock, locals>>
    BY <1>20, <2>2 DEF DefaultFetched
  <2> QED
    BY <1>20, <2>1, <2>2 DEF DefaultFetched, CheckName
<1>21. ASSUME NEW c \in Call, Switch(c)
      PROVE  LockDiscipline'
  BY <1>21 DEF Switch, Fit, IsDefault, SetEntry, Owe, Release, Leave, Stale,
    UnwritableStatus
<1>22. ASSUME NEW c \in Call, Fail(c)
      PROVE  LockDiscipline'
  <2>1. /\ pc[c] \in Holding <=> lock[SessionOf[c]] = c
        /\ pc[c] = "defaultGet" <=> defaultLock = c
    OBVIOUS
  <2>2. /\ pc' = [pc EXCEPT ![c] = "idle"]
        /\ lock' = IF pc[c] \in Holding
                   THEN [lock EXCEPT ![SessionOf[c]] = NoCall] ELSE lock
        /\ defaultLock' = IF pc[c] = "defaultGet" THEN NoCall ELSE defaultLock
    BY <1>22, <2>1 DEF Fail, Release, Leave
  <2>3. CASE pc[c] \in Holding
    BY <2>2, <2>3
  <2>4. CASE pc[c] \notin Holding
    BY <2>2, <2>4
  <2> QED
    BY <2>3, <2>4
<1>23. ASSUME NEW s \in Session, EndSession(s)
      PROVE  LockDiscipline'
  BY <1>23 DEF EndSession, CallsOf
<1>24. CASE Restart
  BY <1>24 DEF Restart
<1>25. CASE UNCHANGED vars
  BY <1>25 DEF vars
<1> QED
  BY <1>1, <1>2, <1>3, <1>4, <1>5, <1>6, <1>7, <1>8, <1>9, <1>10, <1>11,
    <1>12, <1>13, <1>14, <1>15, <1>16, <1>17, <1>18, <1>19, <1>20, <1>21,
    <1>22, <1>23, <1>24, <1>25 DEF Holding, Next, Step, Enter, EnterDefault,
    Resume, WriteDone, ProposeDone, RecoverUnbound, GiveUp, RecoverKeep,
    ResetDone, SwitchRefused, SwitchCreateFailed

\* The register moves only by the call that holds the lock.
LEMMA HeldKept ==
  ASSUME TypeOK, Frames, LockDiscipline, Held, [Next]_vars
  PROVE  Held'
<1> USE SessionOfType, NameAssumption, PatternAssumption, RunAssumption,
  NoneAssumption DEF TypeOK, Held, LockDiscipline, Place, Holding, CallsOf,
  serverVars, defaultVars, locals, history, S, Goto
<1>1. CASE Environment
  BY <1>1 DEF Environment, NextDay, Merge, SetStatus, StartDelete,
    FinishDelete, ForeignCreate
<1>2. CASE Client
  BY <1>2 DEF Client, BeginWrite, Move, BeginReset, BeginPropose, BeginSwitch
<1>3. ASSUME NEW c \in Call, Answer(c)
      PROVE  Held'
  BY <1>3 DEF Answer, AnswerGet, CreateBranch, Creating, RefuseBranch,
    AnswerWrite, WriteAnswers
<1>4. ASSUME NEW c \in Call,
             \/ FetchDefault(c) \/ SwitchAbsent(c) \/ Suspect(c)
             \/ DestinationFound(c)
      PROVE  Held'
  BY <1>4 DEF FetchDefault, SwitchAbsent, Move, Suspect, DestinationFound
<1>5. ASSUME NEW c \in Call, pc[c] \in {"send", "proposeSend", "recoverLock"}, Exit(c)
      PROVE  Held'
  BY <1>5 DEF Exit, Leave
<1>6. ASSUME NEW c \in Call, pc[c] \in Holding \ {"defaultGet"}, ExitLocked(c)
      PROVE  Held'
  BY <1>6 DEF ExitLocked, Release, Leave
<1>7. ASSUME NEW c \in Call, EnterUnbound(c)
      PROVE  Held'
  BY <1>7 DEF EnterUnbound, Acquire, Draw
<1>8. ASSUME NEW c \in Call, EnterBound(c)
      PROVE  Held'
  BY <1>8 DEF EnterBound, Acquire
<1>9. ASSUME NEW c \in Call, Reset(c)
      PROVE  Held'
  BY <1>9 DEF Reset, Acquire, PopEntry, Owe
<1>10. ASSUME NEW c \in Call, EnterSwitch(c)
      PROVE  Held'
  BY <1>10 DEF EnterSwitch, Acquire
<1>11. ASSUME NEW c \in Call, RecoverEnter(c)
      PROVE  Held'
  BY <1>11 DEF RecoverEnter, Acquire
<1>12. ASSUME NEW c \in Call, DefaultCached(c)
      PROVE  Held'
  <2>1. CASE Release(c) /\ Leave(c)
    BY <1>12, <2>1 DEF DefaultCached, Release, Leave
  <2>2. CASE Goto(c, "switchGet") /\ UNCHANGED <<lock, locals>>
    BY <1>12, <2>2 DEF DefaultCached
  <2> QED
    BY <1>12, <2>1, <2>2 DEF DefaultCached, CheckName
<1>13. ASSUME NEW c \in Call, Reuse(c)
      PROVE  Held'
  BY <1>13 DEF Reuse, Fit, Release, SendWrite, Stale, UnwritableStatus
<1>14. ASSUME NEW c \in Call, Replace(c)
      PROVE  Held'
  BY <1>14 DEF Replace, Stale, PopEntry, Owe, Draw, UnwritableStatus
<1>15. ASSUME NEW c \in Call, Bind(c)
      PROVE  Held'
  BY <1>15 DEF Bind, SetEntry, Release, SendWrite
<1>16. ASSUME NEW c \in Call, Rebind(c)
      PROVE  Held'
  BY <1>16 DEF Rebind, SetEntry
<1>17. ASSUME NEW c \in Call, Redraw(c)
      PROVE  Held'
  BY <1>17 DEF Redraw, MayRetry, Draw
<1>18. ASSUME NEW c \in Call, Warned(c)
      PROVE  Held'
  BY <1>18 DEF Warned, Owe, Release, SendWrite
<1>19. ASSUME NEW c \in Call, RecoverClear(c)
      PROVE  Held'
  BY <1>19 DEF RecoverClear, Stale, PopEntry, Release, Leave, UnwritableStatus
<1>20. ASSUME NEW c \in Call, DefaultFetched(c)
      PROVE  Held'
  <2>1. CASE Release(c) /\ Leave(c)
    BY <1>20, <2>1 DEF DefaultFetched, Release, Leave
  <2>2. CASE Goto(c, "switchGet") /\ UNCHANGED <<lock, locals>>
    BY <1>20, <2>2 DEF DefaultFetched
  <2> QED
    BY <1>20, <2>1, <2>2 DEF DefaultFetched, CheckName
<1>21. ASSUME NEW c \in Call, Switch(c)
      PROVE  Held'
  BY <1>21 DEF Switch, Fit, IsDefault, SetEntry, Owe, Release, Leave, Stale,
    UnwritableStatus
<1>22. ASSUME NEW c \in Call, Fail(c)
      PROVE  Held'
  BY <1>22 DEF Fail, Release, Leave
<1>23. ASSUME NEW s \in Session, EndSession(s)
      PROVE  Held'
  BY <1>23 DEF EndSession
<1>24. CASE Restart
  BY <1>24 DEF Restart
<1>25. CASE UNCHANGED vars
  BY <1>25 DEF vars
<1> QED
  BY <1>1, <1>2, <1>3, <1>4, <1>5, <1>6, <1>7, <1>8, <1>9, <1>10, <1>11,
    <1>12, <1>13, <1>14, <1>15, <1>16, <1>17, <1>18, <1>19, <1>20, <1>21,
    <1>22, <1>23, <1>24, <1>25 DEF Holding, Next, Step, Enter, EnterDefault,
    Resume, WriteDone, ProposeDone, RecoverUnbound, GiveUp, RecoverKeep,
    ResetDone, SwitchRefused, SwitchCreateFailed

\* No step brings the default branch into a register or a request.
LEMMA DefaultKept ==
  ASSUME TypeOK, Frames, LockDiscipline, Held, DefaultSafe, [Next]_vars
  PROVE  DefaultSafe'
<1> USE SessionOfType, NameAssumption, PatternAssumption, RunAssumption,
  NoneAssumption DEF TypeOK, Frames, Naming, Held, LockDiscipline, Place,
  Holding, DefaultSafe, DefaultIsolated, InFlight, Status, UnwritableStatus,
  serverVars, defaultVars, locals, history, S, Goto
<1>1. CASE Environment
  BY <1>1 DEF Environment, NextDay, Merge, SetStatus, StartDelete,
    FinishDelete, ForeignCreate
<1>2. ASSUME NEW c \in Call, NEW n \in Name, BeginSwitch(c, n)
      PROVE  DefaultSafe'
  BY <1>2 DEF BeginSwitch
<1>3. ASSUME NEW c \in Call, Answer(c)
      PROVE  DefaultSafe'
  BY <1>3 DEF Answer, AnswerGet, CreateBranch, Creating, RefuseBranch,
    AnswerWrite, WriteAnswers
<1>4. ASSUME NEW c \in Call,
             \/ FetchDefault(c) \/ SwitchAbsent(c) \/ Suspect(c)
             \/ DestinationFound(c)
      PROVE  DefaultSafe'
  BY <1>4 DEF FetchDefault, SwitchAbsent, Move, Suspect, DestinationFound
<1>5. ASSUME NEW c \in Call, pc[c] \in {"send", "proposeSend", "recoverLock"}, Exit(c)
      PROVE  DefaultSafe'
  BY <1>5 DEF Exit, Leave
<1>6. ASSUME NEW c \in Call, pc[c] \in Holding \ {"defaultGet"}, ExitLocked(c)
      PROVE  DefaultSafe'
  BY <1>6 DEF ExitLocked, Release, Leave
<1>7. ASSUME NEW c \in Call, BeginWrite(c)
      PROVE  DefaultSafe'
  BY <1>7 DEF BeginWrite, Move
<1>8. ASSUME NEW c \in Call, BeginReset(c)
      PROVE  DefaultSafe'
  BY <1>8 DEF BeginReset, Move
<1>9. ASSUME NEW c \in Call, BeginPropose(c)
      PROVE  DefaultSafe'
  BY <1>9 DEF BeginPropose
<1>10. ASSUME NEW c \in Call, EnterUnbound(c)
      PROVE  DefaultSafe'
  <2>1. (status[Default] = "open")'
    BY <1>10 DEF EnterUnbound, Acquire, Draw
  <2>2. (\A d \in Call : pc[d] \in {"create", "switchCreate"} /\ result[d] = "created" =>
          Resolve[target[d]] # Default)'
    BY <1>10 DEF EnterUnbound, Acquire, Draw
  <2>3. DefaultIsolated'
    BY <1>10 DEF EnterUnbound, Acquire, Draw
  <2> QED
    BY <2>1, <2>2, <2>3
<1>11. ASSUME NEW c \in Call, EnterBound(c)
      PROVE  DefaultSafe'
  BY <1>11 DEF EnterBound, Acquire
<1>12. ASSUME NEW c \in Call, Reset(c)
      PROVE  DefaultSafe'
  BY <1>12 DEF Reset, Acquire, PopEntry, Owe
<1>13. ASSUME NEW c \in Call, EnterSwitch(c)
      PROVE  DefaultSafe'
  BY <1>13 DEF EnterSwitch, Acquire
<1>14. ASSUME NEW c \in Call, RecoverEnter(c)
      PROVE  DefaultSafe'
  BY <1>14 DEF RecoverEnter, Acquire
<1>15. ASSUME NEW c \in Call, DefaultCached(c)
      PROVE  DefaultSafe'
  <2>1. CASE Release(c) /\ Leave(c)
    BY <1>15, <2>1 DEF DefaultCached, Release, Leave
  <2>2. CASE Goto(c, "switchGet") /\ UNCHANGED <<lock, locals>>
    BY <1>15, <2>2 DEF DefaultCached
  <2> QED
    BY <1>15, <2>1, <2>2 DEF DefaultCached, CheckName
<1>16. ASSUME NEW c \in Call, Reuse(c)
      PROVE  DefaultSafe'
  BY <1>16 DEF Reuse, Fit, Release, SendWrite, Stale
<1>17. ASSUME NEW c \in Call, Replace(c)
      PROVE  DefaultSafe'
  <2>1. (status[Default] = "open")'
    BY <1>17 DEF Replace, Stale, PopEntry, Owe, Draw
  <2>2. (\A d \in Call : pc[d] \in {"create", "switchCreate"} /\ result[d] = "created" =>
          Resolve[target[d]] # Default)'
    <3>1. result[c] = "none"
      BY <1>17 DEF Replace
    <3>2. UNCHANGED result /\ \A d \in Call \ {c} : pc'[d] = pc[d] /\ target'[d] = target[d]
      BY <1>17 DEF Replace, Draw
    <3> QED
      BY <3>1, <3>2
  <2>3. DefaultIsolated'
    BY <1>17 DEF Replace, Stale, PopEntry, Owe, Draw
  <2> QED
    BY <2>1, <2>2, <2>3
<1>18. ASSUME NEW c \in Call, Bind(c)
      PROVE  DefaultSafe'
  BY <1>18 DEF Bind, SetEntry, Release, SendWrite
<1>19. ASSUME NEW c \in Call, Rebind(c)
      PROVE  DefaultSafe'
  BY <1>19 DEF Rebind, SetEntry
<1>20. ASSUME NEW c \in Call, Redraw(c)
      PROVE  DefaultSafe'
  BY <1>20 DEF Redraw, MayRetry, Draw
<1>21. ASSUME NEW c \in Call, Warned(c)
      PROVE  DefaultSafe'
  BY <1>21 DEF Warned, Owe, Release, SendWrite
<1>22. ASSUME NEW c \in Call, RecoverClear(c)
      PROVE  DefaultSafe'
  BY <1>22 DEF RecoverClear, Stale, PopEntry, Release, Leave
<1>23. ASSUME NEW c \in Call, DefaultFetched(c)
      PROVE  DefaultSafe'
  <2>1. CASE Release(c) /\ Leave(c)
    BY <1>23, <2>1 DEF DefaultFetched, Release, Leave
  <2>2. CASE Goto(c, "switchGet") /\ UNCHANGED <<lock, locals>>
    BY <1>23, <2>2 DEF DefaultFetched
  <2> QED
    BY <1>23, <2>1, <2>2 DEF DefaultFetched, CheckName
<1>24. ASSUME NEW c \in Call, Switch(c)
      PROVE  DefaultSafe'
  BY <1>24 DEF Switch, Fit, IsDefault, SetEntry, Owe, Release, Leave, Stale
<1>25. ASSUME NEW c \in Call, Fail(c)
      PROVE  DefaultSafe'
  BY <1>25 DEF Fail, Release, Leave
<1>26. ASSUME NEW s \in Session, EndSession(s)
      PROVE  DefaultSafe'
  BY <1>26 DEF EndSession, CallsOf
<1>27. CASE Restart
  BY <1>27 DEF Restart
<1>28. CASE UNCHANGED vars
  BY <1>28 DEF vars
<1> QED
  BY <1>1, <1>2, <1>3, <1>4, <1>5, <1>6, <1>7, <1>8, <1>9, <1>10, <1>11,
    <1>12, <1>13, <1>14, <1>15, <1>16, <1>17, <1>18, <1>19, <1>20, <1>21,
    <1>22, <1>23, <1>24, <1>25, <1>26, <1>27, <1>28 DEF Holding, Next, Client,
    Step, Enter, EnterDefault, Resume, WriteDone, ProposeDone, RecoverUnbound,
    GiveUp, RecoverKeep, ResetDone, SwitchRefused, SwitchCreateFailed

\* No step brings in a branch the session was not granted.
LEMMA GrantedKept ==
  ASSUME TypeOK, Frames, LockDiscipline, Held, Granted, [Next]_vars
  PROVE  Granted'
<1> USE SessionOfType, NameAssumption, PatternAssumption, RunAssumption,
  NoneAssumption DEF TypeOK, Frames, Naming, Held, LockDiscipline, Place,
  Holding, Granted, SessionIsolation, InFlight, CallsOf, serverVars,
  defaultVars, locals, history, S, Goto
<1>1. CASE Environment
  BY <1>1 DEF Environment, NextDay, Merge, SetStatus, StartDelete,
    FinishDelete, ForeignCreate
<1>2. CASE Client
  BY <1>2 DEF Client, BeginWrite, Move, BeginReset, BeginPropose, BeginSwitch
<1>3. ASSUME NEW c \in Call, Answer(c)
      PROVE  Granted'
  BY <1>3 DEF Answer, AnswerGet, CreateBranch, Creating, RefuseBranch,
    AnswerWrite, WriteAnswers
<1>4. ASSUME NEW c \in Call,
             \/ FetchDefault(c) \/ SwitchAbsent(c) \/ Suspect(c)
             \/ DestinationFound(c)
      PROVE  Granted'
  BY <1>4 DEF FetchDefault, SwitchAbsent, Move, Suspect, DestinationFound
<1>5. ASSUME NEW c \in Call, pc[c] \in {"send", "proposeSend", "recoverLock"}, Exit(c)
      PROVE  Granted'
  BY <1>5 DEF Exit, Leave
<1>6. ASSUME NEW c \in Call, pc[c] \in Holding \ {"defaultGet"}, ExitLocked(c)
      PROVE  Granted'
  BY <1>6 DEF ExitLocked, Release, Leave
<1>7. ASSUME NEW c \in Call, EnterUnbound(c)
      PROVE  Granted'
  BY <1>7 DEF EnterUnbound, Acquire, Draw
<1>8. ASSUME NEW c \in Call, EnterBound(c)
      PROVE  Granted'
  BY <1>8 DEF EnterBound, Acquire
<1>9. ASSUME NEW c \in Call, Reset(c)
      PROVE  Granted'
  BY <1>9 DEF Reset, Acquire, PopEntry, Owe
<1>10. ASSUME NEW c \in Call, EnterSwitch(c)
      PROVE  Granted'
  BY <1>10 DEF EnterSwitch, Acquire
<1>11. ASSUME NEW c \in Call, RecoverEnter(c)
      PROVE  Granted'
  BY <1>11 DEF RecoverEnter, Acquire
<1>12. ASSUME NEW c \in Call, DefaultCached(c)
      PROVE  Granted'
  <2>1. CASE Release(c) /\ Leave(c)
    BY <1>12, <2>1 DEF DefaultCached, Release, Leave
  <2>2. CASE Goto(c, "switchGet") /\ UNCHANGED <<lock, locals>>
    BY <1>12, <2>2 DEF DefaultCached
  <2> QED
    BY <1>12, <2>1, <2>2 DEF DefaultCached, CheckName
<1>13. ASSUME NEW c \in Call, Reuse(c)
      PROVE  Granted'
  BY <1>13 DEF Reuse, Fit, Release, SendWrite, Stale, UnwritableStatus
<1>14. ASSUME NEW c \in Call, Replace(c)
      PROVE  Granted'
  BY <1>14 DEF Replace, Stale, PopEntry, Owe, Draw, UnwritableStatus
<1>15. ASSUME NEW c \in Call, Bind(c)
      PROVE  Granted'
  BY <1>15 DEF Bind, SetEntry, Release, SendWrite
<1>16. ASSUME NEW c \in Call, Rebind(c)
      PROVE  Granted'
  BY <1>16 DEF Rebind, SetEntry
<1>17. ASSUME NEW c \in Call, Redraw(c)
      PROVE  Granted'
  BY <1>17 DEF Redraw, MayRetry, Draw
<1>18. ASSUME NEW c \in Call, Warned(c)
      PROVE  Granted'
  BY <1>18 DEF Warned, Owe, Release, SendWrite
<1>19. ASSUME NEW c \in Call, RecoverClear(c)
      PROVE  Granted'
  BY <1>19 DEF RecoverClear, Stale, PopEntry, Release, Leave, UnwritableStatus
<1>20. ASSUME NEW c \in Call, DefaultFetched(c)
      PROVE  Granted'
  <2>1. CASE Release(c) /\ Leave(c)
    BY <1>20, <2>1 DEF DefaultFetched, Release, Leave
  <2>2. CASE Goto(c, "switchGet") /\ UNCHANGED <<lock, locals>>
    BY <1>20, <2>2 DEF DefaultFetched
  <2> QED
    BY <1>20, <2>1, <2>2 DEF DefaultFetched, CheckName
<1>21. ASSUME NEW c \in Call, Switch(c)
      PROVE  Granted'
  BY <1>21 DEF Switch, Fit, IsDefault, SetEntry, Owe, Release, Leave, Stale,
    UnwritableStatus
<1>22. ASSUME NEW c \in Call, Fail(c)
      PROVE  Granted'
  BY <1>22 DEF Fail, Release, Leave
<1>23. ASSUME NEW s \in Session, EndSession(s)
      PROVE  Granted'
  BY <1>23 DEF EndSession
<1>24. CASE Restart
  BY <1>24 DEF Restart
<1>25. CASE UNCHANGED vars
  BY <1>25 DEF vars
<1> QED
  BY <1>1, <1>2, <1>3, <1>4, <1>5, <1>6, <1>7, <1>8, <1>9, <1>10, <1>11,
    <1>12, <1>13, <1>14, <1>15, <1>16, <1>17, <1>18, <1>19, <1>20, <1>21,
    <1>22, <1>23, <1>24, <1>25 DEF Holding, Next, Step, Enter, EnterDefault,
    Resume, WriteDone, ProposeDone, RecoverUnbound, GiveUp, RecoverKeep,
    ResetDone, SwitchRefused, SwitchCreateFailed

\* A stale answer about a session's branch stays true of it.
LEMMA SpoiledKept ==
  ASSUME TypeOK, Frames, LockDiscipline, Held, SpoiledSeen, [Next]_vars
  PROVE  SpoiledSeen'
<1> USE SessionOfType, NameAssumption, PatternAssumption, RunAssumption,
  NoneAssumption DEF TypeOK, Frames, Naming, Held, LockDiscipline, Place,
  Holding, SpoiledSeen, Status, Stale, UnwritableStatus, serverVars,
  defaultVars, locals, history, S, Goto
<1>1. CASE Environment
  BY <1>1 DEF Environment, NextDay, Merge, SetStatus, StartDelete,
    FinishDelete, ForeignCreate
<1>2. CASE Client
  BY <1>2 DEF Client, BeginWrite, Move, BeginReset, BeginPropose, BeginSwitch
<1>3. ASSUME NEW c \in Call, Answer(c)
      PROVE  SpoiledSeen'
  BY <1>3 DEF Answer, AnswerGet, CreateBranch, Creating, RefuseBranch,
    AnswerWrite, WriteAnswers
<1>4. ASSUME NEW c \in Call,
             \/ FetchDefault(c) \/ SwitchAbsent(c) \/ Suspect(c)
             \/ DestinationFound(c)
      PROVE  SpoiledSeen'
  BY <1>4 DEF FetchDefault, SwitchAbsent, Move, Suspect, DestinationFound
<1>5. ASSUME NEW c \in Call, pc[c] \in {"send", "proposeSend", "recoverLock"}, Exit(c)
      PROVE  SpoiledSeen'
  BY <1>5 DEF Exit, Leave
<1>6. ASSUME NEW c \in Call, pc[c] \in Holding \ {"defaultGet"}, ExitLocked(c)
      PROVE  SpoiledSeen'
  BY <1>6 DEF ExitLocked, Release, Leave
<1>7. ASSUME NEW c \in Call, EnterUnbound(c)
      PROVE  SpoiledSeen'
  BY <1>7 DEF EnterUnbound, Acquire, Draw
<1>8. ASSUME NEW c \in Call, EnterBound(c)
      PROVE  SpoiledSeen'
  BY <1>8 DEF EnterBound, Acquire
<1>9. ASSUME NEW c \in Call, Reset(c)
      PROVE  SpoiledSeen'
  BY <1>9 DEF Reset, Acquire, PopEntry, Owe
<1>10. ASSUME NEW c \in Call, EnterSwitch(c)
      PROVE  SpoiledSeen'
  BY <1>10 DEF EnterSwitch, Acquire
<1>11. ASSUME NEW c \in Call, RecoverEnter(c)
      PROVE  SpoiledSeen'
  BY <1>11 DEF RecoverEnter, Acquire
<1>12. ASSUME NEW c \in Call, DefaultCached(c)
      PROVE  SpoiledSeen'
  <2>1. CASE Release(c) /\ Leave(c)
    BY <1>12, <2>1 DEF DefaultCached, Release, Leave
  <2>2. CASE Goto(c, "switchGet") /\ UNCHANGED <<lock, locals>>
    BY <1>12, <2>2 DEF DefaultCached
  <2> QED
    BY <1>12, <2>1, <2>2 DEF DefaultCached, CheckName
<1>13. ASSUME NEW c \in Call, Reuse(c)
      PROVE  SpoiledSeen'
  BY <1>13 DEF Reuse, Fit, Release, SendWrite
<1>14. ASSUME NEW c \in Call, Replace(c)
      PROVE  SpoiledSeen'
  BY <1>14 DEF Replace, PopEntry, Owe, Draw
<1>15. ASSUME NEW c \in Call, Bind(c)
      PROVE  SpoiledSeen'
  BY <1>15 DEF Bind, SetEntry, Release, SendWrite
<1>16. ASSUME NEW c \in Call, Rebind(c)
      PROVE  SpoiledSeen'
  BY <1>16 DEF Rebind, SetEntry
<1>17. ASSUME NEW c \in Call, Redraw(c)
      PROVE  SpoiledSeen'
  BY <1>17 DEF Redraw, MayRetry, Draw
<1>18. ASSUME NEW c \in Call, Warned(c)
      PROVE  SpoiledSeen'
  BY <1>18 DEF Warned, Owe, Release, SendWrite
<1>19. ASSUME NEW c \in Call, RecoverClear(c)
      PROVE  SpoiledSeen'
  BY <1>19 DEF RecoverClear, PopEntry, Release, Leave
<1>20. ASSUME NEW c \in Call, DefaultFetched(c)
      PROVE  SpoiledSeen'
  <2>1. CASE Release(c) /\ Leave(c)
    BY <1>20, <2>1 DEF DefaultFetched, Release, Leave
  <2>2. CASE Goto(c, "switchGet") /\ UNCHANGED <<lock, locals>>
    BY <1>20, <2>2 DEF DefaultFetched
  <2> QED
    BY <1>20, <2>1, <2>2 DEF DefaultFetched, CheckName
<1>21. ASSUME NEW c \in Call, Switch(c)
      PROVE  SpoiledSeen'
  BY <1>21 DEF Switch, Fit, IsDefault, SetEntry, Owe, Release, Leave
<1>22. ASSUME NEW c \in Call, Fail(c)
      PROVE  SpoiledSeen'
  BY <1>22 DEF Fail, Release, Leave
<1>23. ASSUME NEW s \in Session, EndSession(s)
      PROVE  SpoiledSeen'
  BY <1>23 DEF EndSession, CallsOf
<1>24. CASE Restart
  BY <1>24 DEF Restart
<1>25. CASE UNCHANGED vars
  BY <1>25 DEF vars
<1> QED
  BY <1>1, <1>2, <1>3, <1>4, <1>5, <1>6, <1>7, <1>8, <1>9, <1>10, <1>11,
    <1>12, <1>13, <1>14, <1>15, <1>16, <1>17, <1>18, <1>19, <1>20, <1>21,
    <1>22, <1>23, <1>24, <1>25 DEF Holding, Next, Step, Enter, EnterDefault,
    Resume, WriteDone, ProposeDone, RecoverUnbound, GiveUp, RecoverKeep,
    ResetDone, SwitchRefused, SwitchCreateFailed

LEMMA InitIInv ==
  ASSUME Init
  PROVE  IInv
<1> USE SessionOfType, NameAssumption, PatternAssumption, NoneAssumption
      DEF Init, Place, Holding
<1>1. TypeOK
  BY DEF TypeOK, Status, Result
<1>2. Frames /\ Held /\ Granted
  BY DEF Frames, Naming, Held, Granted, SessionIsolation, InFlight
<1>3. LockDiscipline
  BY DEF LockDiscipline, S
<1>4. DefaultSafe
  BY DEF DefaultSafe, DefaultIsolated, InFlight
<1>5. SpoiledSeen
  BY DEF SpoiledSeen
<1> QED
  BY <1>1, <1>2, <1>3, <1>4, <1>5 DEF IInv

LEMMA Inductive ==
  ASSUME IInv, [Next]_vars
  PROVE  IInv'
BY Typing, FramesKept, LocksKept, HeldKept, DefaultKept, GrantedKept,
   SpoiledKept DEF IInv

THEOREM Invariance == Spec => []IInv
<1>1. Init => IInv
  BY InitIInv
<1>2. IInv /\ [Next]_vars => IInv'
  BY Inductive
<1> QED
  BY <1>1, <1>2, PTL DEF Spec

-----------------------------------------------------------------------------
(* The properties the runs check.                                          *)

\* All variables keep their types, and no call makes more than
\* max_branch_retries attempts (_create_branch_with_pattern).
THEOREM TypeCorrect == Spec => []TypeOK
<1>1. IInv => TypeOK
  BY DEF IInv
<1> QED
  BY <1>1, Invariance, PTL

\* The locks are held exactly where the code is inside their async with
\* blocks, by calls of the right session.
THEOREM LocksCorrect == Spec => []LockDiscipline
<1>1. IInv => LockDiscipline
  BY DEF IInv
<1> QED
  BY <1>1, Invariance, PTL

\* Two calls of one session are never both inside the branch-resolution code.
MutualExclusion ==
  \A c, d \in Call :
    S(c) = S(d) /\ pc[c] \in Holding /\ pc[d] \in Holding => c = d

THEOREM CallsExcludeEachOther == Spec => []MutualExclusion
<1>1. IInv => MutualExclusion
  BY DEF IInv, LockDiscipline, MutualExclusion
<1> QED
  BY <1>1, Invariance, PTL

\* FR-008: a branch is provisioned only for a session that has none.
THEOREM ProvisionsOnce == Spec => []ProvisionOnlyWhenUnbound
<1>1. IInv => ProvisionOnlyWhenUnbound
  BY DEF IInv, Held, ProvisionOnlyWhenUnbound
<1> QED
  BY <1>1, Invariance, PTL

\* FR-007, FR-013: nothing is sent to the default branch, under any alias and
\* with any branch_pattern.
THEOREM DefaultProtected == Spec => []DefaultIsolated
<1>1. IInv => DefaultIsolated
  BY DEF IInv, DefaultSafe
<1> QED
  BY <1>1, Invariance, PTL

\* FR-010, FR-012: a session's requests are for branches that it provisioned
\* or asked for.
THEOREM SessionsIsolated == Spec => []SessionIsolation
<1>1. IInv => SessionIsolation
  BY DEF IInv, Granted
<1> QED
  BY <1>1, Invariance, PTL

\* The step that gives up a branch has a reason.
GivesUpForAReason ==
  \A s \in Session :
    entry[s] # NoName /\ entry'[s] # entry[s] =>
      \/ s \in spoiled
      \/ \E c \in CallsOf(s) : Reset(c) \/ Switch(c)
      \/ EndSession(s)
      \/ Restart

LEMMA ReasonToGiveUp ==
  ASSUME IInv, [Next]_vars
  PROVE  GivesUpForAReason
<1> SUFFICES ASSUME NEW s \in Session, entry[s] # NoName, entry'[s] # entry[s]
             PROVE  \/ s \in spoiled
                    \/ \E c \in CallsOf(s) : Reset(c) \/ Switch(c)
                    \/ EndSession(s)
                    \/ Restart
  BY DEF GivesUpForAReason
<1> USE SessionOfType DEF IInv, TypeOK, S
<1>1. ASSUME NEW c \in Call, Replace(c) \/ RecoverClear(c)
      PROVE  s \in spoiled
  <2>1. s = S(c)
    BY <1>1 DEF Replace, RecoverClear, PopEntry
  <2> QED
    BY <1>1, <2>1 DEF Replace, RecoverClear, SpoiledSeen
<1>2. ASSUME NEW c \in Call, Bind(c) \/ Rebind(c)
      PROVE  FALSE
  <2>1. s = S(c)
    BY <1>2 DEF Bind, Rebind, SetEntry
  <2> QED
    BY <1>2, <2>1 DEF Bind, Rebind, Held
<1>3. ASSUME NEW c \in Call, Reset(c) \/ Switch(c)
      PROVE  c \in CallsOf(s)
  BY <1>3 DEF Reset, Switch, PopEntry, SetEntry, CallsOf
<1>4. ASSUME NEW t \in Session, EndSession(t)
      PROVE  EndSession(s)
  BY <1>4 DEF EndSession
<1>5. ASSUME NEW c \in Call,
             \/ EnterUnbound(c) \/ EnterBound(c) \/ EnterSwitch(c)
             \/ RecoverUnbound(c) \/ RecoverEnter(c) \/ EnterDefault(c)
             \/ Answer(c) \/ Reuse(c) \/ Redraw(c) \/ GiveUp(c) \/ Warned(c)
             \/ WriteDone(c) \/ Suspect(c) \/ RecoverKeep(c) \/ ResetDone(c)
             \/ DefaultFetched(c) \/ SwitchRefused(c) \/ SwitchAbsent(c)
             \/ SwitchCreateFailed(c) \/ DestinationFound(c) \/ ProposeDone(c)
             \/ Fail(c)
      PROVE  FALSE
  BY <1>5 DEF EnterUnbound, EnterBound, EnterSwitch, RecoverUnbound,
    RecoverEnter, EnterDefault, DefaultCached, FetchDefault, Answer,
    AnswerGet, CreateBranch, RefuseBranch, AnswerWrite, Reuse, Redraw, GiveUp,
    Warned, WriteDone, Suspect, RecoverKeep, ResetDone, DefaultFetched,
    SwitchRefused, SwitchAbsent, SwitchCreateFailed, DestinationFound,
    ProposeDone, Fail,
    Move, Exit, ExitLocked
<1>6. ASSUME Environment \/ Client \/ UNCHANGED vars
      PROVE  FALSE
  BY <1>6 DEF Environment, NextDay, Merge, StartDelete, FinishDelete,
    ForeignCreate, SetStatus, Client, BeginWrite, BeginReset, BeginPropose,
    BeginSwitch, Move, vars
<1> QED
  BY <1>1, <1>2, <1>3, <1>4, <1>5, <1>6 DEF Next, Step, Enter, Resume

\* A writable branch is never given up on the component's own account.
THEOREM WritableKept == Spec => NoAbandonWritable
<1>1. IInv /\ [Next]_vars => GivesUpForAReason
  BY ReasonToGiveUp
<1> QED
  BY <1>1, Invariance, PTL DEF Spec, NoAbandonWritable, GivesUpForAReason

=============================================================================
