---------------------- MODULE ServerEnvironmentProofs ----------------------
(* What holds of ServerEnvironment for all environments, .env files and    *)
(* settings.                                                               *)
EXTENDS ServerEnvironment, TLAPS

Environment == [Key -> Seq(Entry)]

\* What priming does to an environment: a variable that changes had no entry
\* and gets one.
Grown ==
  \A k \in Key : environ[k] # real[k] =>
    k \in Allowed /\ real[k] = <<>> /\ Len(environ[k]) = 1

\* A client is made, and a request answered, only after Start.
Idle == pc # "serving" => answer = NoAnswer

\* The fields of an answer.
Answers == [outcome : {"none", "refused", "broken", "client"},
            used : Connection \cup {NoClient}]

IInv == TypeOK /\ Grown /\ Idle

-----------------------------------------------------------------------------
\* env_get returns a value of the variable or None.
LEMMA EnvGetType ==
  ASSUME NEW env \in Environment, NEW k \in Key
  PROVE  EnvGet(env, k) \in Value \cup {Unset}
<1>1. env[k] \in Seq(Entry)
  BY DEF Environment
<1>2. \A i \in DOMAIN env[k] : env[k][i].value \in Value
  <2> SUFFICES ASSUME NEW i \in DOMAIN env[k]
               PROVE  env[k][i].value \in Value
    OBVIOUS
  <2>1. env[k][i] \in Entry
    BY <1>1
  <2> QED
    BY <2>1 DEF Entry
<1>3. env[k] # <<>> => 1 \in DOMAIN env[k]
  BY <1>1
<1> QED
  BY <1>2, <1>3 DEF EnvGet

\* So does the client library.
LEMMA SdkGetType ==
  ASSUME NEW env \in Environment, NEW k \in Key
  PROVE  SdkGet(env, k) \in Value \cup {Unset}
<1>1. env[k] \in Seq(Entry)
  BY DEF Environment
<1>2. CASE env[k] = <<>>
  BY <1>2 DEF SdkGet
<1>3. CASE env[k] # <<>>
  <2>1. env[k][Len(env[k])] \in Entry
    BY <1>1, <1>3
  <2> QED
    BY <1>3, <2>1 DEF SdkGet, Entry
<1> QED
  BY <1>2, <1>3

\* The settings of a client without arguments.
LEMMA SdkConfigType ==
  ASSUME NEW env \in Environment
  PROVE  SdkConfig(env, <<>>) \in Connection
BY SdkGetType DEF SdkConfig, Connection, Key

\* Priming yields an environment ...
LEMMA PrimedType ==
  ASSUME NEW env \in Environment, NEW file \in DotEnv
  PROVE  Primed(env, file) \in Environment
<1> SUFFICES ASSUME NEW k \in Key
             PROVE  Primed(env, file)[k] \in Seq(Entry)
  BY DEF Primed, Environment
<1>1. env[k] \in Seq(Entry) /\ file[k] \in Seq(Value \cup {Unset})
  BY EnvAssumption DEF Environment
<1>2. First(file[k]) \subseteq Value
  <2> SUFFICES ASSUME NEW i \in DOMAIN file[k], file[k][i] # Unset
               PROVE  file[k][i] \in Value
    BY DEF First
  <2> QED
    BY <1>1
<1>3. ASSUME First(file[k]) # {}
      PROVE  <<NewEntry(First(file[k]))>> \in Seq(Entry)
  <2>1. NewEntry(First(file[k])) \in Entry
    BY <1>2, <1>3 DEF NewEntry, Entry
  <2> QED
    BY <2>1
<1> QED
  BY <1>1, <1>3 DEF Primed

\* ... in which only missing variables have changed, and have one entry.
LEMMA PrimedGrows ==
  ASSUME NEW env \in Environment, NEW file \in DotEnv, NEW k \in Key,
         Primed(env, file)[k] # env[k]
  PROVE  k \in Allowed /\ env[k] = <<>> /\ Len(Primed(env, file)[k]) = 1
BY DEF Primed

\* With one entry, the first and the last are the same, whatever its spelling.
LEMMA OneEntry ==
  ASSUME NEW env \in Environment, NEW k \in Key, Len(env[k]) <= 1
  PROVE  EnvGet(env, k) = SdkGet(env, k)
<1>1. env[k] \in Seq(Entry)
  BY DEF Environment
<1>2. CASE Len(env[k]) = 0
  <2>1. env[k] = <<>>
    BY <1>1, <1>2
  <2> QED
    BY <2>1 DEF EnvGet, SdkGet
<1>3. CASE Len(env[k]) = 1
  <2>1. env[k] # <<>>
    <3>1. Len(<<>>) = 0 /\ 0 # 1
      OBVIOUS
    <3> QED
      BY <1>3, <3>1, Zenon
  <2>2. DOMAIN env[k] = 1..1
    BY <1>1, <1>3
  <2>3. \A i \in DOMAIN env[k] : i = 1
    BY <2>2
  <2> QED
    BY <1>3, <2>1, <2>3 DEF EnvGet, SdkGet
<1>4. Len(env[k]) = 0 \/ Len(env[k]) = 1
  <2>1. Len(env[k]) \in Nat
    BY <1>1
  <2>2. \A n \in Nat : n <= 1 => n = 0 \/ n = 1
    OBVIOUS
  <2> QED
    BY <2>1, <2>2, Zenon
<1> QED
  BY <1>2, <1>3, <1>4

-----------------------------------------------------------------------------
\* The invariant holds at launch.
LEMMA InitInv == Init => IInv
<1> SUFFICES ASSUME Init PROVE IInv
  OBVIOUS
<1>1. TypeOK
  BY EnvAssumption DEF Init, TypeOK, Place, NoAnswer, Header
<1>2. Grown /\ Idle
  BY DEF Init, Grown, Idle
<1> QED
  BY <1>1, <1>2 DEF IInv

\* The arguments of Config are values, by the name of the setting.
LEMMA ArgumentsType ==
  ASSUME NEW env \in Environment, NEW h \in Header, NEW k \in DOMAIN Arguments(env, h)
  PROVE  /\ k \in Allowed
         /\ Arguments(env, h)[k] \in Value \cup {Unset}
<1>1. EnvGet(env, "address") \in Value \cup {Unset}
  BY EnvGetType DEF Key, Allowed
<1>2. CASE k = "address"
  BY <1>1, <1>2 DEF Arguments, Allowed
<1>3. CASE k # "address"
  <2>1. k \in DOMAIN h /\ Arguments(env, h)[k] = h[k]
    BY <1>3 DEF Arguments
  <2>2. DOMAIN h \subseteq Allowed /\ h[k] \in Caller
    BY <2>1 DEF Header, Nobody, Bearer, Basic, Allowed
  <2> QED
    BY <2>1, <2>2, ValueAssumption
<1> QED
  BY <1>2, <1>3

\* What a request is answered has its type.
LEMMA AnswerType ==
  ASSUME TypeOK, NEW h \in Header
  PROVE  Fresh(environ, h) \in Answers
<1>1. Refusal \in Answers
  BY DEF Refusal, Answers
<1>2. SdkConfig(environ, Arguments(environ, h)) \in Connection
  <2>1. environ \in Environment
    BY DEF TypeOK, Environment
  <2>2. \A k \in Allowed : SdkGet(environ, k) \in Value \cup {Unset}
    BY <2>1, SdkGetType DEF Key
  <2> QED
    BY <2>1, <2>2, ArgumentsType DEF SdkConfig, Connection
<1>3. \A c \in Connection : Answer(c) \in Answers
  BY DEF Answer, Answers
<1> QED
  BY <1>1, <1>2, <1>3 DEF Fresh

\* Every action keeps it.
LEMMA StepInv == IInv /\ [Next]_vars => IInv'
<1> SUFFICES ASSUME IInv, [Next]_vars PROVE IInv'
  OBVIOUS
<1>0. environ \in Environment
  BY DEF IInv, TypeOK, Environment
<1>1. CASE Launch
  <2>1. TypeOK'
    <3>1. provider' \in [secret : BOOLEAN, signing : BOOLEAN] \cup {NoProvider}
      <4>1. \A s \in Settings :
              Provider(s) \in [secret : BOOLEAN, signing : BOOLEAN] \cup {NoProvider}
        BY DEF Provider, Present
      <4> QED
        BY <1>1, <4>1 DEF Launch
    <3>2. pc' \in Place
      BY <1>1 DEF Launch, Place
    <3> QED
      BY <1>1, <3>1, <3>2, EnvAssumption DEF Launch, IInv, TypeOK
  <2>2. Grown' /\ Idle'
    BY <1>1 DEF Launch, IInv, Grown, Idle
  <2> QED
    BY <2>1, <2>2 DEF IInv
<1>2. CASE Start
  <2> PICK file \in DotEnv : environ' = Primed(environ, file)
    BY <1>2 DEF Start
  <2>1. environ' \in Environment
    BY <1>0, PrimedType
  <2>2. pc' \in Place /\ client' \in Connection \cup {NoClient}
    BY <1>2, <2>1, SdkConfigType DEF Start, MakeClient, Place
  <2>3. TypeOK'
    BY <1>2, <2>1, <2>2 DEF Start, IInv, TypeOK, Environment
  <2>4. Grown'
    <3> SUFFICES ASSUME NEW k \in Key, environ'[k] # real[k]
                 PROVE  k \in Allowed /\ real[k] = <<>> /\ Len(environ'[k]) = 1
      BY <1>2 DEF Start, Grown
    <3>1. CASE environ'[k] = environ[k]
      BY <3>1 DEF IInv, Grown
    <3>2. CASE environ'[k] # environ[k]
      <4>1. k \in Allowed /\ environ[k] = <<>> /\ Len(environ'[k]) = 1
        BY <1>0, <3>2, PrimedGrows
      <4>2. real[k] = environ[k]
        <5> SUFFICES ASSUME environ[k] # real[k] PROVE FALSE
          OBVIOUS
        <5>1. Len(environ[k]) = 1
          BY DEF IInv, Grown
        <5>2. Len(<<>>) = 0 /\ 0 # 1
          OBVIOUS
        <5> QED
          BY <4>1, <5>1, <5>2, Zenon
      <4> QED
        BY <4>1, <4>2
    <3> QED
      BY <3>1, <3>2
  <2>5. Idle'
    BY <1>2 DEF Start, IInv, Idle
  <2> QED
    BY <2>3, <2>4, <2>5 DEF IInv
<1>3. ASSUME NEW h \in Header, Serve(h)
      PROVE  IInv'
  <2>1. answer' \in Answers
    <3>1. CASE Passthrough
      BY <1>3, <3>1, AnswerType DEF Serve, IInv
    <3>2. CASE ~Passthrough
      BY <1>3, <3>2 DEF Serve, IInv, TypeOK, Answers
    <3> QED
      BY <3>1, <3>2
  <2> QED
    BY <1>3, <2>1 DEF Serve, IInv, TypeOK, Grown, Idle, Answers
<1>4. CASE Probe
  <2>1. health' \in {"unknown", "healthy", "unhealthy"}
    BY <1>4 DEF Probe
  <2> QED
    BY <1>4, <2>1 DEF Probe, IInv, TypeOK, Grown, Idle
<1>5. CASE Stop
  BY <1>5 DEF Stop, IInv, TypeOK, Grown, Idle, Place, NoAnswer, Header
<1>6. CASE UNCHANGED vars
  BY <1>6 DEF vars, IInv, TypeOK, Grown, Idle
<1> QED
  BY <1>1, <1>2, <1>3, <1>4, <1>5, <1>6 DEF Next

\* The invariant.
THEOREM Invariance == Spec => []IInv
BY InitInv, StepInv, PTL DEF Spec

\* Every variable has its type, whatever the environment and the file hold.
THEOREM TypeCorrect == Spec => []TypeOK
<1>1. IInv => TypeOK
  BY DEF IInv
<1> QED
  BY Invariance, <1>1, PTL

\* The .env file never overrides a variable of the real environment and never
\* supplies any but the four.
THEOREM FileNeverOverrides == Spec => []RealWins
<1>1. IInv => RealWins
  BY DEF IInv, Grown, RealWins
<1> QED
  BY Invariance, <1>1, PTL

\* The guards and the client library read the same values of variables that
\* are spelled in one way.
LEMMA SeesTheSame == IInv => SameView
<1> SUFFICES ASSUME IInv, OneSpelling, NEW k \in Allowed
             PROVE  EnvGet(environ, k) = SdkGet(environ, k)
  BY DEF SameView
<1>1. Len(environ[k]) <= 1
  <2>1. CASE environ[k] = real[k]
    BY <2>1 DEF OneSpelling
  <2>2. CASE environ[k] # real[k]
    <3>1. Len(environ[k]) = 1
      BY <2>2 DEF IInv, Grown, Key
    <3> QED
      BY <3>1
  <2> QED
    BY <2>1, <2>2
<1>2. environ \in Environment /\ k \in Key
  BY DEF IInv, TypeOK, Environment, Key
<1> QED
  BY <1>1, <1>2, OneEntry

THEOREM ReadersAgree == Spec => []SameView
BY Invariance, SeesTheSame, PTL

\* With variables that are spelled in one way, what the guards let pass is
\* accepted by the client library.
LEMMA MirrorsTheLibrary ==
  ASSUME NEW env \in Environment, Validated(env), ~Passthrough,
         \A k \in Allowed : EnvGet(env, k) = SdkGet(env, k)
  PROVE  SdkAccepts(SdkConfig(env, <<>>))
<1>1. \A k \in Allowed : SdkConfig(env, <<>>)[k] = EnvGet(env, k)
  BY DEF SdkConfig
<1> QED
  BY <1>1 DEF Validated, SdkAccepts, Allowed

\* Such a server is never brought down by the library's own validators.
THEOREM NoCrashAtStartup == Spec => []ValidatedStarts
<1>1. Init => ValidatedStarts
  BY DEF Init, ValidatedStarts
<1>2. IInv /\ IInv' /\ ValidatedStarts /\ [Next]_vars => ValidatedStarts'
  <2> SUFFICES ASSUME IInv, IInv', ValidatedStarts, [Next]_vars, OneSpelling',
                      pc' = "crashed"
               PROVE  FALSE
    BY DEF ValidatedStarts
  <2>1. CASE Start
    <3>1. Validated(environ') /\ ~Passthrough /\ ~SdkAccepts(SdkConfig(environ', <<>>))
      BY <2>1 DEF Start, MakeClient
    <3>2. environ' \in Environment
      BY DEF IInv, TypeOK, Environment
    <3>3. \A k \in Allowed : EnvGet(environ', k) = SdkGet(environ', k)
      <4>1. SameView'
        BY SeesTheSame, PTL
      <4> QED
        BY <4>1 DEF SameView
    <3> QED
      BY <3>1, <3>2, <3>3, MirrorsTheLibrary
  <2>2. CASE Launch
    BY <2>2 DEF Launch
  <2>3. CASE \/ \E h \in Header : Serve(h)
             \/ Probe
             \/ UNCHANGED vars
    BY <2>3 DEF Serve, Probe, vars, ValidatedStarts, OneSpelling
  <2>4. CASE Stop
    BY <2>4 DEF Stop
  <2> QED
    BY <2>1, <2>2, <2>3, <2>4 DEF Next
<1> QED
  BY <1>1, <1>2, Invariance, PTL DEF Spec

\* In the passthrough modes no client is made with any credential but its
\* caller's.
LEMMA FreshIsOwn ==
  ASSUME NEW h \in Header, Passthrough, Fresh(environ, h).outcome = "client"
  PROVE  /\ h # Nobody
         /\ \A k \in DOMAIN h : Fresh(environ, h).used[k] = h[k]
         /\ "token" \in DOMAIN h => ~Given(Fresh(environ, h).used["password"])
         /\ "password" \in DOMAIN h /\ Given(h["password"]) =>
              ~Given(Fresh(environ, h).used["token"])
<1> DEFINE a == Arguments(environ, h)
           c == SdkConfig(environ, a)
<1>1. Proper(h) /\ SdkAccepts(c) /\ Fresh(environ, h).used = c
  BY DEF Fresh, Refusal, Answer
<1>2. h \in Bearer \/ h \in Basic
  BY <1>1 DEF Proper
<1>3. /\ h \in Bearer => DOMAIN h = {"token"}
      /\ h \in Basic => DOMAIN h = {"username", "password"}
  BY DEF Bearer, Basic
<1>4. \A k \in DOMAIN h : k \in Allowed /\ k # "address"
  BY <1>2, <1>3 DEF Allowed
<1>5. \A k \in DOMAIN h : c[k] = h[k]
  BY <1>4 DEF SdkConfig, Arguments
<1>6. h # Nobody
  <2>1. DOMAIN Nobody = {}
    BY DEF Nobody
  <2> QED
    BY <1>2, <1>3, <2>1
<1>7. ASSUME "token" \in DOMAIN h
      PROVE  ~Given(c["password"])
  <2>1. h \in Bearer
    BY <1>2, <1>3, <1>7
  <2>2. Given(h["token"])
    BY <2>1, ValueAssumption DEF Bearer, Given
  <2> QED
    BY <1>1, <1>5, <1>7, <2>2 DEF SdkAccepts
<1>8. ASSUME "password" \in DOMAIN h, Given(h["password"])
      PROVE  ~Given(c["token"])
  BY <1>1, <1>5, <1>8 DEF SdkAccepts
<1> QED
  BY <1>1, <1>5, <1>6, <1>7, <1>8

\* A client made in a passthrough mode has the credential that its request
\* sent and, unless that is a blank password, none of the other kind, whatever
\* the environment, the file and the requests before it.
THEOREM CallersKeepApart == Spec => []OwnCredential
<1>1. Init => OwnCredential
  BY DEF Init, OwnCredential, NoAnswer
<1>2. IInv /\ IInv' /\ OwnCredential /\ [Next]_vars => OwnCredential'
  <2> SUFFICES ASSUME IInv, IInv', OwnCredential, [Next]_vars PROVE OwnCredential'
    OBVIOUS
  <2>1. ASSUME NEW h \in Header, Serve(h)
        PROVE  OwnCredential'
    BY <2>1, FreshIsOwn DEF Serve, OwnCredential, Passthrough
  <2>2. CASE Launch \/ Stop \/ Start
    <3>1. answer' = NoAnswer
      BY <2>2 DEF Launch, Stop, Start, IInv, Idle
    <3> QED
      BY <3>1 DEF OwnCredential, NoAnswer
  <2>3. CASE Probe \/ UNCHANGED vars
    BY <2>3 DEF Probe, vars, OwnCredential, Passthrough
  <2> QED
    BY <2>1, <2>2, <2>3 DEF Next
<1> QED
  BY <1>1, <1>2, Invariance, PTL DEF Spec

\* The shared client that requests get has the settings that the fresh client
\* of a probe has, the values of the file included.
THEOREM ProbesTellOfTheClient == Spec => []ProbedAsServed
<1>1. Init => ProbedAsServed
  BY DEF Init, ProbedAsServed
<1>2. ProbedAsServed /\ [Next]_vars => ProbedAsServed'
  <2> SUFFICES ASSUME ProbedAsServed, [Next]_vars PROVE ProbedAsServed'
    OBVIOUS
  <2>1. CASE Launch
    BY <2>1 DEF Launch, ProbedAsServed
  <2>2. CASE Start
    <3>1. config' = config
      BY <2>2 DEF Start
    <3>2. CASE MakeClient(environ')
      BY <3>1, <3>2 DEF MakeClient, ProbedAsServed, Passthrough
    <3>3. CASE pc' = "refused"
      BY <3>3 DEF ProbedAsServed
    <3> QED
      BY <2>2, <3>2, <3>3 DEF Start
  <2>3. CASE \/ \E h \in Header : Serve(h)
             \/ Probe
             \/ UNCHANGED vars
    BY <2>3 DEF Serve, Probe, vars, ProbedAsServed, Passthrough, SdkConfig, SdkGet
  <2>4. CASE Stop
    BY <2>4 DEF Stop, ProbedAsServed
  <2> QED
    BY <2>1, <2>2, <2>3, <2>4 DEF Next
<1> QED
  BY <1>1, <1>2, PTL DEF Spec

\* Whatever blanks the settings are made of, an OIDC proxy that is made has a
\* key to sign its tokens with.
THEOREM ProxyHasAKey == Spec => []ProviderSigns
<1>1. Init => ProviderSigns
  BY DEF Init, ProviderSigns
<1>2. ProviderSigns /\ [Next]_vars => ProviderSigns'
  <2> SUFFICES ASSUME ProviderSigns, [Next]_vars PROVE ProviderSigns'
    OBVIOUS
  <2>1. CASE Launch
    BY <2>1 DEF Launch, Complete, Provider, ProviderSigns
  <2>2. CASE Stop
    BY <2>2 DEF Stop, ProviderSigns
  <2>3. CASE Start \/ (\E h \in Header : Serve(h)) \/ Probe \/ UNCHANGED vars
    BY <2>3 DEF Start, Serve, Probe, vars, ProviderSigns
  <2> QED
    BY <2>1, <2>2, <2>3 DEF Next
<1> QED
  BY <1>1, <1>2, PTL DEF Spec

=============================================================================
