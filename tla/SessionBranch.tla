---------------------------- MODULE SessionBranch ----------------------------
(***************************************************************************)
(* The per-session branch register of the MCP server: which Infrahub       *)
(* branch the writes of a client session go to.                            *)
(*                                                                         *)
(* The server is one asyncio process, so a tool call runs without          *)
(* interruption between two awaits.  Every await on Infrahub is two steps: *)
(* the step in which Infrahub handles the request and leaves its answer in *)
(* seen[c] or result[c], and the step in which the call resumes with it.   *)
(* Between them anything may happen: other calls of the same session,      *)
(* calls of other sessions, and people who merge and delete branches.      *)
(***************************************************************************)
EXTENDS Naturals

CONSTANTS
  Session,          \* MCP sessions (the objects AppContext is keyed by)
  Call,             \* slots for tool calls in flight
  SessionOf,        \* [Call -> Session]
  Name,             \* branch names
  Default,          \* the default branch of the Infrahub instance
  Resolve,          \* [Name -> Name]: the branch Infrahub means by a name
  MaxDay,           \* bound on the number of days that pass
  Expand,           \* [1..MaxDay -> SUBSET Name]: names the pattern yields
  HasPlaceholders,  \* branch_pattern has {date}, {hex} or {user}
  Conforming,       \* the names branch_name_conforms accepts
  MaxBranchRetries, \* config.max_branch_retries
  Foreign,          \* the names that people outside this server may create
  Ops,              \* the tools the clients use in this run
  Faults,           \* whether requests fail, calls are cancelled, we crash
  NoName, NoCall    \* Python's None

ASSUME SessionOfType == SessionOf \in [Call -> Session]
ASSUME NameAssumption ==
  /\ Default \in Name
  /\ Resolve \in [Name -> Name]
  /\ Resolve[Default] = Default
ASSUME PatternAssumption ==
  /\ MaxDay \in Nat \ {0}
  /\ Expand \in [1..MaxDay -> SUBSET Name]
  /\ HasPlaceholders \in BOOLEAN
  /\ Conforming \subseteq Name
  /\ MaxBranchRetries \in 1..20
ASSUME RunAssumption ==
  /\ Foreign \subseteq Name
  /\ Ops \subseteq {"write", "reset", "switch", "propose"}
  /\ Faults \in BOOLEAN
ASSUME NoneAssumption == NoName \notin Name /\ NoCall \notin Call

VARIABLES
  status,        \* Infrahub: the state of every branch
  day,           \* the date the pattern expands to
  entry,         \* AppContext._session_branches
  lock,          \* AppContext._session_locks: the holder of each lock
  defaultBranch, \* AppContext.default_branch
  defaultLock,   \* holder of AppContext._default_branch_lock
  pc,            \* where each call is suspended
  target,        \* the branch name in its hands
  old,           \* the stale branch it is replacing
  attempt,       \* attempt of the loop in _create_branch_with_pattern
  seen,          \* answer to its branch.get
  result         \* answer to its branch.create or its mutation

\* History, for the properties only.
VARIABLES
  granted,       \* branches a session created or asked to switch to
  owed,          \* branch given up whose loss the client was not told of
  spoiled        \* sessions whose branch has been unwritable since bound

serverVars  == <<status, day>>
defaultVars == <<defaultBranch, defaultLock>>
locals      == <<target, old, attempt, seen, result>>
history     == <<granted, owed, spoiled>>
vars == <<serverVars, entry, lock, defaultVars, pc, locals, history>>

Status == {"absent", "open", "merged", "deleting"}

\* Mutant of UnwritableStatus: as before ADR 0007, only a missing branch is
\* stale.
UnwritableStatusBefore0007 == {}
UnwritableStatus == {"merged", "deleting"}

\* _stale_branch_reason of a branch.get that has been answered.
Stale(answer) == answer = "absent" \/ answer \in UnwritableStatus
Fit(answer) == answer # "none" /\ ~Stale(answer)

\* The answers whose text _is_read_only_error takes for a read-only branch.
ReadOnly == {"readOnlyBranch", "readOnlyAttribute"}
Result   == {"none", "created", "conflict", "failed", "written", "refused"}
              \cup ReadOnly

\* Where a call may be suspended while it holds its session's lock ...
Holding == {"get", "create", "warn", "notice", "defaultLock", "defaultGet",
            "switchGet", "switchCreate", "recoverGet"}
\* ... and everywhere else.
Place == Holding \cup {"idle", "writeLock", "send", "recoverLock",
                       "resetLock", "switchLock", "proposeAll", "proposeSend"}

S(c) == SessionOf[c]
CallsOf(s) == {c \in Call : SessionOf[c] = s}

Init ==
  /\ status = [n \in Name |-> IF n = Default THEN "open" ELSE "absent"]
  /\ day = 1
  /\ entry = [s \in Session |-> NoName]
  /\ lock = [s \in Session |-> NoCall]
  /\ defaultBranch = NoName
  /\ defaultLock = NoCall
  /\ pc = [c \in Call |-> "idle"]
  /\ target = [c \in Call |-> NoName]
  /\ old = [c \in Call |-> NoName]
  /\ attempt = [c \in Call |-> 0]
  /\ seen = [c \in Call |-> "none"]
  /\ result = [c \in Call |-> "none"]
  /\ granted = [s \in Session |-> {}]
  /\ owed = [s \in Session |-> NoName]
  /\ spoiled = {}

-----------------------------------------------------------------------------
(* Infrahub and the people who use it.                                     *)

\* A branch changes state; the sessions bound to it are spoiled unless the
\* new state is writable.
SetStatus(n, st) ==
  /\ status' = [status EXCEPT ![n] = st]
  /\ spoiled' = spoiled \cup {s \in Session :
                    st # "open" /\ entry[s] # NoName /\ Resolve[entry[s]] = n}
  /\ UNCHANGED <<day, entry, lock, defaultVars, pc, locals, granted, owed>>

Merge(n) ==
  /\ n # Default
  /\ status[n] = "open"
  /\ SetStatus(n, "merged")

StartDelete(n) ==
  /\ n # Default
  /\ status[n] \in {"open", "merged"}
  /\ SetStatus(n, "deleting")

FinishDelete(n) ==
  /\ status[n] = "deleting"
  /\ SetStatus(n, "absent")

ForeignCreate(n) ==
  /\ n \in Foreign
  /\ Resolve[n] = n
  /\ status[n] = "absent"
  /\ SetStatus(n, "open")

NextDay ==
  /\ day < MaxDay
  /\ day' = day + 1
  /\ UNCHANGED <<status, entry, lock, defaultVars, pc, locals, history>>

\* branch.get: the status of the branch the name resolves to.
AnswerGet(c) ==
  /\ pc[c] \in {"get", "switchGet", "recoverGet"}
  /\ seen[c] = "none"
  /\ seen' = [seen EXCEPT ![c] = status[Resolve[target[c]]]]
  /\ UNCHANGED <<serverVars, entry, lock, defaultVars, pc, target, old,
                 attempt, result, history>>

\* A branch.create that Infrahub has not answered.
Creating(c) == pc[c] \in {"create", "switchCreate"} /\ result[c] = "none"

CreateBranch(c) ==
  /\ Creating(c)
  /\ status[Resolve[target[c]]] = "absent"
  /\ status' = [status EXCEPT ![Resolve[target[c]]] = "open"]
  /\ result' = [result EXCEPT ![c] = "created"]
  /\ UNCHANGED <<day, entry, lock, defaultVars, pc, target, old, attempt,
                 seen, history>>

RefuseBranch(c) ==
  /\ Creating(c)
  /\ \/ /\ status[Resolve[target[c]]] # "absent"
        /\ result' = [result EXCEPT ![c] = "conflict"]
     \/ /\ Faults
        /\ result' = [result EXCEPT ![c] = "failed"]
  /\ UNCHANGED <<serverVars, entry, lock, defaultVars, pc, target, old,
                 attempt, seen, history>>

\* What Infrahub may answer to a mutation, or to a read that leads up to it,
\* on a branch in state st.  A read-only attribute is refused on a writable
\* branch in the words used of a read-only branch.
WriteAnswers(st) ==
  {"refused"}
    \cup {r \in {"written", "readOnlyAttribute"} : st = "open"}
    \cup {r \in {"readOnlyBranch"} : st \in {"merged", "deleting"}}

AnswerWrite(c) ==
  /\ pc[c] = "send" /\ result[c] = "none"
  /\ \E r \in WriteAnswers(status[Resolve[target[c]]]) :
       result' = [result EXCEPT ![c] = r]
  /\ UNCHANGED <<serverVars, entry, lock, defaultVars, pc, target, old,
                 attempt, seen, history>>

-----------------------------------------------------------------------------
(* Shared pieces of the tool calls.                                        *)

Goto(c, p) == pc' = [pc EXCEPT ![c] = p]

\* Mutant of Acquire: the lock does not exclude.
AcquireShared(c) == lock' = [lock EXCEPT ![S(c)] = c]
Acquire(c) ==
  /\ lock[S(c)] = NoCall
  /\ lock' = [lock EXCEPT ![S(c)] = c]

Release(c) == lock' = [lock EXCEPT ![S(c)] = NoCall]

\* The call returns or raises, and its frame is gone.
Leave(c) ==
  /\ Goto(c, "idle")
  /\ target' = [target EXCEPT ![c] = NoName]
  /\ old' = [old EXCEPT ![c] = NoName]
  /\ attempt' = [attempt EXCEPT ![c] = 0]
  /\ seen' = [seen EXCEPT ![c] = "none"]
  /\ result' = [result EXCEPT ![c] = "none"]

\* The call goes on to its next await; it returns or raises without a lock;
\* it does so out of the async with block of its session's lock.
Move(c, p) ==
  /\ Goto(c, p)
  /\ UNCHANGED <<serverVars, entry, lock, defaultVars, locals, history>>
Exit(c) ==
  /\ Leave(c)
  /\ UNCHANGED <<serverVars, entry, lock, defaultVars, history>>
ExitLocked(c) ==
  /\ Release(c)
  /\ Leave(c)
  /\ UNCHANGED <<serverVars, entry, defaultVars, history>>

\* get_or_create_session_branch returns target[c]; its other locals are gone.
SendWrite(c) ==
  /\ Goto(c, "send")
  /\ old' = [old EXCEPT ![c] = NoName]
  /\ attempt' = [attempt EXCEPT ![c] = 0]
  /\ seen' = [seen EXCEPT ![c] = "none"]
  /\ result' = [result EXCEPT ![c] = "none"]
  /\ UNCHANGED target

\* expand_branch_pattern, then the request to create the branch so named.
Draw(c) ==
  /\ \E n \in Expand[day] : target' = [target EXCEPT ![c] = n]
  /\ Goto(c, "create")

\* Mutant of SetEntry: one register for the whole process.
SetEntryProcessWide(c) ==
  /\ entry' = [s \in Session |-> target[c]]
  /\ granted' = [granted EXCEPT ![S(c)] = @ \cup {target[c]}]
  /\ spoiled' = IF status[Resolve[target[c]]] = "open"
                  THEN spoiled \ {S(c)} ELSE spoiled \cup {S(c)}
\* The session's register is set to the name the call holds.
SetEntry(c) ==
  /\ entry' = [entry EXCEPT ![S(c)] = target[c]]
  /\ granted' = [granted EXCEPT ![S(c)] = @ \cup {target[c]}]
  /\ spoiled' = IF status[Resolve[target[c]]] = "open"
                  THEN spoiled \ {S(c)} ELSE spoiled \cup {S(c)}

PopEntry(c) ==
  /\ entry' = [entry EXCEPT ![S(c)] = NoName]
  /\ spoiled' = spoiled \ {S(c)}

Owe(c, n) == owed' = [owed EXCEPT ![S(c)] = n]

-----------------------------------------------------------------------------
(* The write tools: node_upsert, node_delete, mutate_graphql.              *)

BeginWrite(c) ==
  /\ pc[c] = "idle" /\ "write" \in Ops
  /\ Move(c, "writeLock")

\* First write of the session: provision a branch.
EnterUnbound(c) ==
  /\ pc[c] = "writeLock"
  /\ Acquire(c)
  /\ entry[S(c)] = NoName
  /\ Draw(c)
  /\ UNCHANGED <<serverVars, entry, defaultVars, old, attempt, seen, result,
                 history>>

\* The cached branch is validated against Infrahub before reuse.
EnterBound(c) ==
  /\ pc[c] = "writeLock"
  /\ Acquire(c)
  /\ entry[S(c)] # NoName
  /\ target' = [target EXCEPT ![c] = entry[S(c)]]
  /\ Goto(c, "get")
  /\ UNCHANGED <<serverVars, entry, defaultVars, old, attempt, seen, result,
                 history>>

Reuse(c) ==
  /\ pc[c] = "get" /\ Fit(seen[c])
  /\ Release(c)
  /\ SendWrite(c)
  /\ UNCHANGED <<serverVars, entry, defaultVars, history>>

\* Stale: the entry is dropped and a new branch provisioned.
Replace(c) ==
  /\ pc[c] = "get" /\ Stale(seen[c])
  /\ PopEntry(c)
  /\ Owe(c, target[c])
  /\ old' = [old EXCEPT ![c] = target[c]]
  /\ Draw(c)
  /\ UNCHANGED <<serverVars, lock, defaultVars, attempt, seen, result,
                 granted>>

\* The new branch is entered, and a first write goes on at once ...
Bind(c) ==
  /\ pc[c] = "create" /\ result[c] = "created" /\ old[c] = NoName
  /\ SetEntry(c)
  /\ Release(c)
  /\ SendWrite(c)
  /\ UNCHANGED <<serverVars, defaultVars, owed>>

\* ... while a recovered one warns the client first.
Rebind(c) ==
  /\ pc[c] = "create" /\ result[c] = "created" /\ old[c] # NoName
  /\ SetEntry(c)
  /\ Goto(c, "warn")
  /\ UNCHANGED <<serverVars, lock, defaultVars, locals, owed>>

\* Mutant of MayRetry: one attempt too many.
MayRetryOnceMore(c) ==
  /\ result[c] = "conflict"
  /\ HasPlaceholders
  /\ attempt[c] < MaxBranchRetries
\* A name conflict is retried while attempts are left, and only a pattern
\* with placeholders is.
MayRetry(c) ==
  /\ result[c] = "conflict"
  /\ HasPlaceholders
  /\ attempt[c] < MaxBranchRetries - 1

Redraw(c) ==
  /\ pc[c] = "create" /\ MayRetry(c)
  /\ attempt' = [attempt EXCEPT ![c] = @ + 1]
  /\ result' = [result EXCEPT ![c] = "none"]
  /\ Draw(c)
  /\ UNCHANGED <<serverVars, entry, lock, defaultVars, old, seen, history>>

\* Mutant of GiveUp: the error leaves the lock held.
GiveUpHolding(c) ==
  /\ pc[c] = "create" /\ result[c] \in {"conflict", "failed"} /\ ~MayRetry(c)
  /\ Exit(c)
\* The error of the last attempt, or of the only one.
GiveUp(c) ==
  /\ pc[c] = "create" /\ result[c] \in {"conflict", "failed"} /\ ~MayRetry(c)
  /\ ExitLocked(c)

\* ctx.warning names the branch lost and the branch created.
Warned(c) ==
  /\ pc[c] = "warn"
  /\ Owe(c, NoName)
  /\ Release(c)
  /\ SendWrite(c)
  /\ UNCHANGED <<serverVars, entry, defaultVars, granted, spoiled>>

\* The mutation is done, or refused for a reason that is not the branch.
WriteDone(c) ==
  /\ pc[c] = "send" /\ result[c] \in {"written", "refused"}
  /\ Exit(c)

\* The error's words fit a read-only branch, so Infrahub is asked again.
Suspect(c) ==
  /\ pc[c] = "send" /\ result[c] \in ReadOnly
  /\ Move(c, "recoverLock")

\* Nothing is cached any more: the plain error is reported.
RecoverUnbound(c) ==
  /\ pc[c] = "recoverLock"
  /\ lock[S(c)] = NoCall
  /\ entry[S(c)] = NoName
  /\ Exit(c)

\* Mutant of RecoverEnter: the register is checked without the lock.
RecoverEnterUnlocked(c) ==
  /\ pc[c] = "recoverLock"
  /\ entry[S(c)] # NoName
  /\ target' = [target EXCEPT ![c] = entry[S(c)]]
  /\ Goto(c, "recoverGet")
  /\ UNCHANGED <<serverVars, entry, lock, defaultVars, old, attempt, seen,
                 result, history>>
\* What is checked is the session's branch of now, not the write's.
RecoverEnter(c) ==
  /\ pc[c] = "recoverLock"
  /\ Acquire(c)
  /\ entry[S(c)] # NoName
  /\ target' = [target EXCEPT ![c] = entry[S(c)]]
  /\ Goto(c, "recoverGet")
  /\ UNCHANGED <<serverVars, entry, defaultVars, old, attempt, seen, result,
                 history>>

\* The session's branch is writable: the plain error is reported.
RecoverKeep(c) ==
  /\ pc[c] = "recoverGet" /\ Fit(seen[c])
  /\ ExitLocked(c)

\* The error names the branch, says it was cleared and asks for a retry.
RecoverClear(c) ==
  /\ pc[c] = "recoverGet" /\ Stale(seen[c])
  /\ PopEntry(c)
  /\ Release(c)
  /\ Leave(c)
  /\ UNCHANGED <<serverVars, defaultVars, granted, owed>>

-----------------------------------------------------------------------------
(* reset_session_branch, without and with a branch.                        *)

BeginReset(c) ==
  /\ pc[c] = "idle" /\ "reset" \in Ops
  /\ Move(c, "resetLock")

Reset(c) ==
  /\ pc[c] = "resetLock"
  /\ Acquire(c)
  /\ PopEntry(c)
  /\ Owe(c, NoName)
  /\ Goto(c, "notice")
  /\ UNCHANGED <<serverVars, defaultVars, locals, granted>>

ResetDone(c) ==
  /\ pc[c] = "notice"
  /\ ExitLocked(c)

BeginSwitch(c, n) ==
  /\ pc[c] = "idle" /\ "switch" \in Ops
  /\ target' = [target EXCEPT ![c] = n]
  /\ Goto(c, "switchLock")
  /\ UNCHANGED <<serverVars, entry, lock, defaultVars, old, attempt, seen,
                 result, history>>

\* Mutant of EnterSwitch: the session's lock and the one of the default branch
\* are asked for together, and come in either order.
EnterSwitchGathered(c) ==
  /\ pc[c] = "switchLock"
  /\ \/ /\ defaultLock # c
        /\ Acquire(c)
        /\ Goto(c, "defaultLock")
        /\ UNCHANGED defaultLock
     \/ /\ defaultLock = NoCall
        /\ defaultLock' = c
        /\ UNCHANGED <<lock, pc>>
     \/ /\ defaultLock = c
        /\ Acquire(c)
        /\ Goto(c, "defaultGet")
        /\ UNCHANGED defaultLock
  /\ UNCHANGED <<serverVars, entry, defaultBranch, locals, history>>
\* The session's lock comes first, the one of the default branch inside it.
EnterSwitch(c) ==
  /\ pc[c] = "switchLock"
  /\ Acquire(c)
  /\ Goto(c, "defaultLock")
  /\ UNCHANGED <<serverVars, entry, defaultVars, locals, history>>

\* assert_writable_branch, once get_default_branch has returned d.
CheckName(c, d) ==
  \/ target[c] = d /\ Release(c) /\ Leave(c)
  \/ target[c] # d /\ Goto(c, "switchGet") /\ UNCHANGED <<lock, locals>>

DefaultCached(c) ==
  /\ pc[c] = "defaultLock"
  /\ defaultLock = NoCall
  /\ defaultBranch # NoName
  /\ CheckName(c, defaultBranch)
  /\ UNCHANGED <<serverVars, entry, defaultVars, history>>

FetchDefault(c) ==
  /\ pc[c] = "defaultLock"
  /\ defaultLock = NoCall
  /\ defaultBranch = NoName
  /\ defaultLock' = c
  /\ Goto(c, "defaultGet")
  /\ UNCHANGED <<serverVars, entry, lock, defaultBranch, locals, history>>

DefaultFetched(c) ==
  /\ pc[c] = "defaultGet"
  /\ defaultBranch' = Default
  /\ defaultLock' = NoCall
  /\ CheckName(c, Default)
  /\ UNCHANGED <<serverVars, entry, history>>

\* Mutant of IsDefault: names are compared, aliases missed.
IsDefaultByName(n) == n = Default
\* is_default of the branch Infrahub returned, whatever name it was asked by.
IsDefault(n) == Resolve[n] = Default

SwitchRefused(c) ==
  /\ pc[c] = "switchGet" /\ seen[c] # "none"
  /\ \/ seen[c] = "absent" /\ target[c] \notin Conforming
     \/ seen[c] # "absent" /\ IsDefault(target[c])
     \/ seen[c] \in UnwritableStatus
  /\ ExitLocked(c)

SwitchAbsent(c) ==
  /\ pc[c] = "switchGet" /\ seen[c] = "absent"
  /\ target[c] \in Conforming
  /\ Move(c, "switchCreate")

SwitchCreateFailed(c) ==
  /\ pc[c] = "switchCreate" /\ result[c] \in {"conflict", "failed"}
  /\ ExitLocked(c)

Switch(c) ==
  /\ \/ pc[c] = "switchGet" /\ Fit(seen[c]) /\ ~IsDefault(target[c])
     \/ pc[c] = "switchCreate" /\ result[c] = "created"
  /\ SetEntry(c)
  /\ Owe(c, NoName)
  /\ Release(c)
  /\ Leave(c)
  /\ UNCHANGED <<serverVars, defaultVars>>

-----------------------------------------------------------------------------
(* propose_changes: the register is read once, without the lock.  Without  *)
(* a session branch the tool fails at once and changes nothing.            *)

\* The destination is given by the client or looked up with branch.all.
BeginPropose(c) ==
  /\ pc[c] = "idle" /\ "propose" \in Ops
  /\ entry[S(c)] # NoName
  /\ target' = [target EXCEPT ![c] = entry[S(c)]]
  /\ \E p \in {"proposeAll", "proposeSend"} : Goto(c, p)
  /\ UNCHANGED <<serverVars, entry, lock, defaultVars, old, attempt, seen,
                 result, history>>

DestinationFound(c) ==
  /\ pc[c] = "proposeAll"
  /\ Move(c, "proposeSend")

\* Infrahub opens the proposed change, or refuses it.
ProposeDone(c) ==
  /\ pc[c] = "proposeSend"
  /\ Exit(c)

-----------------------------------------------------------------------------
(* Ends of calls, sessions and processes.                                  *)

\* Cancellation, a lost connection or an error no handler catches, at any
\* await: the locks the call holds are released by their async with blocks.
Fail(c) ==
  /\ Faults
  /\ pc[c] # "idle"
  /\ IF lock[S(c)] = c THEN Release(c) ELSE UNCHANGED lock
  /\ defaultLock' = IF defaultLock = c THEN NoCall ELSE defaultLock
  /\ Leave(c)
  /\ UNCHANGED <<serverVars, entry, defaultBranch, history>>

\* The session object is collected and its weak entries go with it.  The
\* slot s then stands for a new session.
EndSession(s) ==
  /\ \A c \in CallsOf(s) : pc[c] = "idle"
  /\ entry' = [entry EXCEPT ![s] = NoName]
  /\ granted' = [granted EXCEPT ![s] = {}]
  /\ owed' = [owed EXCEPT ![s] = NoName]
  /\ spoiled' = spoiled \ {s}
  /\ UNCHANGED <<serverVars, lock, defaultVars, pc, locals>>

\* The process dies and starts again: AppContext is rebuilt, nothing is
\* persisted, and every client connects with a new session.
Restart ==
  /\ Faults
  /\ entry' = [s \in Session |-> NoName]
  /\ lock' = [s \in Session |-> NoCall]
  /\ defaultBranch' = NoName
  /\ defaultLock' = NoCall
  /\ pc' = [c \in Call |-> "idle"]
  /\ target' = [c \in Call |-> NoName]
  /\ old' = [c \in Call |-> NoName]
  /\ attempt' = [c \in Call |-> 0]
  /\ seen' = [c \in Call |-> "none"]
  /\ result' = [c \in Call |-> "none"]
  /\ granted' = [s \in Session |-> {}]
  /\ owed' = [s \in Session |-> NoName]
  /\ spoiled' = {}
  /\ UNCHANGED serverVars

-----------------------------------------------------------------------------
Environment ==
  \/ NextDay
  \/ \E n \in Name : Merge(n) \/ StartDelete(n) \/ FinishDelete(n)
                       \/ ForeignCreate(n)

Client ==
  \E c \in Call : \/ BeginWrite(c) \/ BeginReset(c) \/ BeginPropose(c)
                  \/ \E n \in Name : BeginSwitch(c, n)

\* The steps that take the session's lock.
Enter(c) ==
  \/ EnterUnbound(c) \/ EnterBound(c) \/ Reset(c) \/ EnterSwitch(c)
  \/ RecoverUnbound(c) \/ RecoverEnter(c)

\* The steps that take the lock of the default branch.
EnterDefault(c) == DefaultCached(c) \/ FetchDefault(c)

\* The steps of Infrahub on a request of the call.
Answer(c) ==
  \/ AnswerGet(c) \/ CreateBranch(c) \/ RefuseBranch(c) \/ AnswerWrite(c)

\* The steps with which the call resumes.
Resume(c) ==
  \/ Reuse(c) \/ Replace(c) \/ Bind(c) \/ Rebind(c) \/ Redraw(c)
  \/ GiveUp(c) \/ Warned(c) \/ WriteDone(c) \/ Suspect(c)
  \/ RecoverKeep(c) \/ RecoverClear(c) \/ ResetDone(c)
  \/ DefaultFetched(c) \/ SwitchRefused(c) \/ SwitchAbsent(c)
  \/ SwitchCreateFailed(c) \/ Switch(c)
  \/ DestinationFound(c) \/ ProposeDone(c)

Step(c) == Enter(c) \/ EnterDefault(c) \/ Answer(c) \/ Resume(c)

Next ==
  \/ Environment
  \/ Client
  \/ \E c \in Call : Step(c) \/ Fail(c)
  \/ \E s \in Session : EndSession(s)
  \/ Restart

Spec == Init /\ [][Next]_vars

\* Infrahub answers or the SDK's timeout does; the event loop runs what is
\* ready; asyncio.Lock wakes its waiters in the order they came.
Fairness ==
  \A c \in Call : /\ WF_vars(Answer(c) \/ Resume(c))
                  /\ SF_vars(Enter(c))
                  /\ SF_vars(EnterDefault(c))

FairSpec == Spec /\ Fairness

-----------------------------------------------------------------------------
(* Properties.                                                             *)

\* Every variable has its type; a provisioning call has made fewer attempts
\* than max_branch_retries (utils.py _create_branch_with_pattern).
TypeOK ==
  /\ status \in [Name -> Status]
  /\ day \in 1..MaxDay
  /\ entry \in [Session -> Name \cup {NoName}]
  /\ lock \in [Session -> Call \cup {NoCall}]
  /\ defaultBranch \in {Default, NoName}
  /\ defaultLock \in Call \cup {NoCall}
  /\ pc \in [Call -> Place]
  /\ target \in [Call -> Name \cup {NoName}]
  /\ old \in [Call -> Name \cup {NoName}]
  /\ attempt \in [Call -> 0..(MaxBranchRetries - 1)]
  /\ seen \in [Call -> Status \cup {"none"}]
  /\ result \in [Call -> Result]
  /\ granted \in [Session -> SUBSET Name]
  /\ owed \in [Session -> Name \cup {NoName}]
  /\ spoiled \subseteq Session

\* A call inside the branch-resolution code holds its session's lock, and the
\* lock is held by nobody else; likewise the lock of the default branch.  So
\* every path out of those blocks releases what it took, exceptions and
\* cancellation included.
LockDiscipline ==
  /\ \A c \in Call : pc[c] \in Holding <=> lock[S(c)] = c
  /\ \A s \in Session : lock[s] # NoCall => SessionOf[lock[s]] = s
  /\ \A c \in Call : pc[c] = "defaultGet" <=> defaultLock = c

\* FR-008: while a write is provisioning a branch its session has none, so
\* concurrent writes that find the branch stale converge on one new branch.
ProvisionOnlyWhenUnbound ==
  \A c \in Call : pc[c] = "create" => entry[S(c)] = NoName

\* The mutations and proposed changes on their way to Infrahub.
InFlight(c) == pc[c] \in {"send", "proposeAll", "proposeSend"}

\* FR-007, FR-013: no session is bound to the default branch, and no mutation
\* or proposal is sent for it, under any name Infrahub takes for it and
\* whatever the pattern expands to.
DefaultIsolated ==
  /\ \A s \in Session : entry[s] # NoName => Resolve[entry[s]] # Default
  /\ \A c \in Call : InFlight(c) => Resolve[target[c]] # Default

\* FR-010, FR-012: the mutations and proposals of a session are for branches
\* that this session provisioned or asked to be switched to.
SessionIsolation ==
  \A c \in Call : InFlight(c) => target[c] \in granted[S(c)]

\* A session's branch is given up only if it has been unwritable since it was
\* bound, or on the client's own reset or switch, or with the session.
NoAbandonWritable ==
  [][\A s \in Session :
       entry[s] # NoName /\ entry'[s] # entry[s] =>
         \/ s \in spoiled
         \/ \E c \in CallsOf(s) : Reset(c) \/ Switch(c)
         \/ EndSession(s)
         \/ Restart]_vars

\* Every call ends, failures and cancellations included: no lock is left held,
\* and calls that wait for the lock of their session and calls that wait for
\* the one of the default branch do not wait for each other.
CallTerminates == \A c \in Call : pc[c] # "idle" ~> pc[c] = "idle"

\* A session is wedged while the branch it is bound to is merged.
Wedged(s) == entry[s] # NoName /\ status[Resolve[entry[s]]] = "merged"

\* SC-001, SC-002: once a write is under way, a session does not stay wedged.
MergedBranchLeft ==
  \A s \in Session :
    Wedged(s) /\ (\E c \in CallsOf(s) : pc[c] = "writeLock") ~> ~Wedged(s)

-----------------------------------------------------------------------------
(* What the repository says of the program and the program does not do.    *)

\* FR-011, and _maybe_recover_read_only: a write that fails because its branch
\* was merged under it clears the session's branch and asks for a retry.
MergedWriteAsksRetry ==
  [][\A c \in Call :
       result[c] = "readOnlyBranch" /\ pc'[c] = "idle" => RecoverClear(c)]_vars

\* SC-005: a session is not bound to another branch in the place of a stale
\* one unless its client has been told, or is being told, of both.
RerouteAnnounced ==
  \A s \in Session :
    entry[s] # NoName /\ owed[s] # NoName =>
      \E c \in CallsOf(s) : pc[c] = "warn"

=============================================================================
