------------------------ MODULE ControlledExtractProofs ------------------------
(***************************************************************************)
(* Proofs about the extraction command: for every environment, dotenv file *)
(* and mapping, and every set of injected components.                      *)
(***************************************************************************)
EXTENDS ControlledExtract, TLAPS

(* Steps before the components are selected, and before the fetch. *)
Early == {"dotenv", "config", "gates"}
BeforeFetch == Early \cup {"transport", "repository", "service", "delegate", "fetch"}

(* As a command, the mapping of the gates is os.environ, which ml/.env has *)
(* completed, and nothing is injected.                                     *)
CommandInv ==
  entry = "main" =>
    /\ env = environ
    /\ environ = IF pc = "dotenv" THEN exported ELSE Loaded(exported, dotenv)
    /\ given = [transport |-> None, repository |-> None, service |-> None]

(* What each gate leaves true behind it. *)
GateInv ==
  /\ entry = "call" => pc # "dotenv"
  /\ pc # "ended" => outcome = None
  /\ pc \notin {"dotenv", "config", "ended"} => ~Missing(env)
  /\ pc \in {"transport", "repository"} =>
       /\ given.transport = "http" => On(env, "network")
       /\ given.repository = "postgres" => On(env, "write")
  /\ pc \in Early => transport = None /\ repository = None
  /\ transport = "http" => On(env, "network")
  /\ repository = "postgres" => On(env, "write")
  /\ pc = "delegate" => given.service # None
  /\ pc \in {"fetch", "guard", "save"} => transport # None /\ repository # None

(* Nothing is done before the fetch, and then by the selected components.  *)
EffectInv ==
  /\ pc \in BeforeFetch => ~requested
  /\ pc \in BeforeFetch \cup {"guard", "save"} => ~connected
  /\ requested => transport = "http"
  /\ connected => repository = "postgres"
  /\ requested \/ connected => transport # None /\ repository # None
  /\ entry = "main" => transport \in {None, "http"} /\ repository \in {None, "postgres"}

IInv ==
  /\ TypeOK
  /\ CommandInv
  /\ GateInv
  /\ EffectInv
  /\ BlockedRunsDidNothing
  /\ FetchedPagesHaveTheirSecret

-----------------------------------------------------------------------------
(* The timeout that passes the gate is one of four kinds of numbers. *)
LEMMA TimeoutTyped ==
  ASSUME NEW e \in Environments, ~ConfigRefused(e)
  PROVE  ParsedTimeout(e) \in {"fraction", "positive", "huge", "not finite"}
  <1>1. ~Rejected(e, "timeout")
    BY DEF ConfigRefused, Numbers
  <1>2. e["timeout"] \in Values
    BY DEF Environments, Keys, Numbers
  <1> QED
    BY <1>1, <1>2 DEF ParsedTimeout, Rejected, Converted, TooSmall, Values, Unset

(* Completing an environment gives an environment. *)
LEMMA LoadedTyped ==
  ASSUME NEW process \in Environments, NEW file \in Environments
  PROVE  Loaded(process, file) \in Environments
  BY DEF Loaded, Environments

LEMMA InitIInv == Init => IInv
  <1> SUFFICES ASSUME Init PROVE IInv
    OBVIOUS
  <1>1. {environ, dotenv, env, exported} \subseteq Environments
    <2>1. [key \in Keys |-> "absent"] \in Environments
      BY DEF Environments, Values, Unset
    <2> QED
      BY <2>1, EnvironmentsAssumption DEF Init
  <1>2. given \in [transport : Transports, repository : Repositories, service : Services]
    BY InjectionsAssumption DEF Init, Transports, Repositories, Services
  <1>3. TypeOK
    BY <1>1, <1>2 DEF Init, TypeOK, Steps, Outcomes, Transports, Repositories, None
  <1>4. CommandInv
    BY DEF Init, CommandInv
  <1>5. GateInv /\ EffectInv
    BY DEF Init, GateInv, EffectInv, Early, BeforeFetch, None
  <1>6. BlockedRunsDidNothing /\ FetchedPagesHaveTheirSecret
    BY DEF Init, BlockedRunsDidNothing, FetchedPagesHaveTheirSecret, None
  <1> QED
    BY <1>3, <1>4, <1>5, <1>6 DEF IInv

-----------------------------------------------------------------------------
LEMMA NextIInv == IInv /\ [Next]_vars => IInv'
  <1> SUFFICES ASSUME IInv, [Next]_vars PROVE IInv'
    OBVIOUS
  <1> USE DEF world, effects, End, GoTo, Block, None
  <1> USE DEF IInv
  <1> DEFINE Invs == /\ CommandInv' /\ GateInv' /\ EffectInv'
                     /\ BlockedRunsDidNothing' /\ FetchedPagesHaveTheirSecret'
  <1>1. CASE LoadDotenv
    <2>1. Loaded(environ, dotenv) \in Environments
      BY LoadedTyped DEF TypeOK
    <2>2. TypeOK'
      BY <1>1, <2>1 DEF LoadDotenv, TypeOK, Steps
    <2>3. Invs
      BY <1>1 DEF LoadDotenv, CommandInv, GateInv, EffectInv, Early, BeforeFetch,
                  BlockedRunsDidNothing, FetchedPagesHaveTheirSecret, On, Missing
    <2> QED
      BY <2>2, <2>3
  <1>2. CASE BuildConfig
    <2>1. TypeOK'
      BY <1>2, TimeoutTyped DEF BuildConfig, TypeOK, Steps, Outcomes
    <2>2. Invs
      BY <1>2 DEF BuildConfig, ConfigRefused, CommandInv, GateInv, EffectInv, Early,
                  BeforeFetch, BlockedRunsDidNothing, FetchedPagesHaveTheirSecret, On, Missing
    <2> QED
      BY <2>1, <2>2
  <1>3. CASE CheckInjected
    <2>1. TypeOK'
      BY <1>3 DEF CheckInjected, TypeOK, Steps, Outcomes
    <2>2. Invs
      BY <1>3 DEF CheckInjected, CommandInv, GateInv, EffectInv, Early,
                  BeforeFetch, BlockedRunsDidNothing, FetchedPagesHaveTheirSecret, On, Missing
    <2> QED
      BY <2>1, <2>2
  <1>4. CASE SelectTransport
    <2>1. TypeOK'
      BY <1>4 DEF SelectTransport, TypeOK, Steps, Transports
    <2>2. Invs
      BY <1>4 DEF SelectTransport, CommandInv, GateInv, EffectInv, Early,
                  BeforeFetch, BlockedRunsDidNothing, FetchedPagesHaveTheirSecret, On, Missing
    <2> QED
      BY <2>1, <2>2
  <1>5. CASE SelectRepository
    <2> USE <1>5 DEF SelectRepository
    <2>1. CASE pc' = "ended"
      <3>1. TypeOK'
        BY <2>1 DEF TypeOK, Steps, Outcomes
      <3>2. Invs
        BY <2>1 DEF CommandInv, GateInv, EffectInv, Early,
                  BeforeFetch, BlockedRunsDidNothing, FetchedPagesHaveTheirSecret, On, Missing
      <3> QED
        BY <3>1, <3>2
    <2>2. CASE pc' = "service"
      <3>1. \/ repository' = given.repository
            \/ repository' = "postgres" /\ ~PostgresRefused(env)
        BY <2>2, Zenon
      <3>2. TypeOK'
        BY <2>2, <3>1 DEF TypeOK, Steps, Repositories
      <3>3. Invs
        <4>1. repository' = "postgres" => On(env, "write")
          BY <3>1 DEF GateInv, PostgresRefused
        <4>2. entry = "main" => repository' \in {None, "postgres"}
          BY <3>1 DEF CommandInv
        <4> QED
          BY <2>2, <4>1, <4>2 DEF CommandInv, GateInv, EffectInv, Early,
                  BeforeFetch, BlockedRunsDidNothing, FetchedPagesHaveTheirSecret, On, Missing
      <3> QED
        BY <3>2, <3>3
    <2> QED
      BY <2>1, <2>2
  <1>6. CASE SelectService
    <2>1. TypeOK'
      BY <1>6 DEF SelectService, TypeOK, Steps, Outcomes
    <2>2. Invs
      BY <1>6 DEF SelectService, CommandInv, GateInv, EffectInv, Early,
                  BeforeFetch, BlockedRunsDidNothing, FetchedPagesHaveTheirSecret, On, Missing
    <2> QED
      BY <2>1, <2>2
  <1>7. CASE Delegate \/ SettingsRefused \/ GuardFails
    <2>1. PICK result \in Outcomes \ {"none", "blocked", "secret missing"} :
            /\ pc # "dotenv" /\ pc' = "ended" /\ outcome' = result
            /\ UNCHANGED <<environ, env, timeout, transport, repository, page, world, effects>>
      BY <1>7 DEF Delegate, SettingsRefused, GuardFails, Outcomes
    <2>2. TypeOK'
      BY <2>1 DEF TypeOK, Steps
    <2>3. CommandInv' /\ GateInv'
      BY <2>1 DEF CommandInv, GateInv, Early, On, Missing
    <2>4. EffectInv'
      BY <2>1 DEF EffectInv, Early, BeforeFetch
    <2>5. BlockedRunsDidNothing' /\ FetchedPagesHaveTheirSecret'
      BY <2>1 DEF BlockedRunsDidNothing, FetchedPagesHaveTheirSecret
    <2> QED
      BY <2>2, <2>3, <2>4, <2>5
  <1>8. CASE TicketsPathRefused \/ Fetch
    <2>1. /\ pc = "fetch" /\ pc' \in {"guard", "ended"}
          /\ \/ pc' = "guard" /\ outcome' = outcome
             \/ pc' = "ended" /\ outcome' \in {"settings failed", "fetch failed"}
          /\ requested' \in BOOLEAN
          /\ requested' => transport = "http"
          /\ page' \in {page, None, "no tickets", "tickets"}
          /\ UNCHANGED <<environ, env, timeout, transport, repository, world, connected>>
      <3>1. CASE TicketsPathRefused
        BY <3>1 DEF TicketsPathRefused
      <3>2. CASE Fetch
        <4>1. CASE GoTo("guard")
          BY <3>2, <4>1 DEF Fetch
        <4>2. CASE End("fetch failed")
          BY <3>2, <4>2 DEF Fetch
        <4> QED
          BY <3>2, <4>1, <4>2 DEF Fetch
      <3> QED
        BY <1>8, <3>1, <3>2
    <2>2. TypeOK'
      <3>1. pc' \in Steps /\ outcome' \in Outcomes
        BY <2>1 DEF TypeOK, Steps, Outcomes
      <3>2. page' \in {None, "no tickets", "tickets"}
        BY <2>1 DEF TypeOK
      <3> QED
        BY <2>1, <3>1, <3>2 DEF TypeOK
    <2>3. CommandInv' /\ GateInv'
      BY <2>1 DEF CommandInv, GateInv, Early, On, Missing
    <2>4. EffectInv'
      BY <2>1 DEF EffectInv, GateInv, Early, BeforeFetch
    <2>5. BlockedRunsDidNothing' /\ FetchedPagesHaveTheirSecret'
      BY <2>1 DEF GateInv, BlockedRunsDidNothing, FetchedPagesHaveTheirSecret
    <2> QED
      BY <2>2, <2>3, <2>4, <2>5
  <1>9. CASE Guard
    <2>1. TypeOK'
      BY <1>9 DEF Guard, TypeOK, Steps, Outcomes
    <2>2. entry = "main" => SecretUsable
      BY <1>9 DEF Guard, CommandInv, GateInv, Missing, Required, Unset, SecretUsable
    <2>3. Invs
      BY <1>9, <2>2 DEF Guard, CommandInv, GateInv, EffectInv, Early,
                  BeforeFetch, BlockedRunsDidNothing, FetchedPagesHaveTheirSecret, On, Missing
    <2> QED
      BY <2>1, <2>3
  <1>10. CASE Save \/ SaveFails
    <2>1. /\ pc = "save" /\ pc' = "ended"
          /\ outcome' \in {"completed", "save failed"}
          /\ connected' \in BOOLEAN
          /\ connected' => repository = "postgres"
          /\ UNCHANGED <<environ, env, timeout, transport, repository, page, world, requested>>
      BY <1>10 DEF Save, SaveFails
    <2>2. TypeOK'
      BY <2>1 DEF TypeOK, Steps, Outcomes
    <2>3. Invs
      BY <2>1 DEF CommandInv, GateInv, EffectInv, Early,
                  BeforeFetch, BlockedRunsDidNothing, FetchedPagesHaveTheirSecret, On, Missing
    <2> QED
      BY <2>2, <2>3
  <1>11. CASE UNCHANGED vars
    <2>1. TypeOK'
      BY <1>11 DEF vars, TypeOK
    <2>2. Invs
      BY <1>11 DEF vars, CommandInv, GateInv, EffectInv,
                   BlockedRunsDidNothing, FetchedPagesHaveTheirSecret, On, Missing
    <2> QED
      BY <2>1, <2>2
  <1> QED
    BY <1>1, <1>2, <1>3, <1>4, <1>5, <1>6, <1>7, <1>8, <1>9, <1>10, <1>11
       DEF Next, Terminated

LEMMA Invariance == Spec => []IInv
  BY InitIInv, NextIInv, PTL DEF Spec

-----------------------------------------------------------------------------
(* Past the gates the configuration is whole, and for a repository that    *)
(* the command has built so are the settings of the database.              *)
SettingsInv ==
  /\ pc \notin {"dotenv", "config", "ended"} => ~ConfigRefused(env)
  /\ requested \/ connected => ~ConfigRefused(env)
  /\ entry = "main" /\ repository = "postgres" => ~PostgresRefused(env)
  /\ pc \in {"dotenv", "config"} => repository = None

LEMMA InitSettingsInv == Init => SettingsInv
  BY DEF Init, SettingsInv, None

LEMMA NextSettingsInv == IInv /\ SettingsInv /\ [Next]_vars => SettingsInv'
  <1> SUFFICES ASSUME IInv, SettingsInv, [Next]_vars PROVE SettingsInv'
    OBVIOUS
  <1> USE DEF world, effects, End, GoTo, Block, None
  <1>0. entry = "main" => given.repository = None
    BY DEF IInv, CommandInv
  <1>0a. pc \in BeforeFetch \cup {"guard", "save"} => ~connected
    BY DEF IInv, EffectInv
  <1>0b. pc \in BeforeFetch => ~requested
    BY DEF IInv, EffectInv
  <1>1. CASE LoadDotenv
    <2>1. ~requested /\ ~connected
      BY <1>0a, <1>0b, <1>1 DEF LoadDotenv, BeforeFetch, Early
    <2> QED
      BY <1>1, <2>1 DEF LoadDotenv, SettingsInv
  <1>2. CASE BuildConfig
    <2>1. ~requested /\ ~connected
      BY <1>0a, <1>0b, <1>2 DEF BuildConfig, BeforeFetch, Early
    <2> QED
      BY <1>2, <2>1 DEF BuildConfig, SettingsInv
  <1>3. CASE SelectRepository
    <2>1. pc = "repository" /\ UNCHANGED <<env, entry, requested, connected>>
      BY <1>3 DEF SelectRepository
    <2>2. \/ repository' = repository
          \/ repository' = given.repository
          \/ repository' = "postgres" /\ ~PostgresRefused(env)
      BY <1>3, Zenon DEF SelectRepository
    <2>3. pc' \in {"ended", "service"}
      BY <1>3 DEF SelectRepository
    <2> QED
      BY <1>0, <2>1, <2>2, <2>3 DEF SettingsInv
  <1>4. CASE \/ CheckInjected \/ SelectTransport \/ SelectService
            \/ Delegate \/ SettingsRefused \/ TicketsPathRefused \/ Fetch
            \/ Guard \/ GuardFails \/ Save \/ SaveFails
    <2>1. /\ pc \notin {"dotenv", "config", "ended"}
          /\ pc' \notin {"dotenv", "config"}
          /\ UNCHANGED <<env, entry, repository>>
      BY <1>4 DEF CheckInjected, SelectTransport, SelectService, Delegate,
                  SettingsRefused, TicketsPathRefused, Fetch, Guard, GuardFails,
                  Save, SaveFails
    <2> QED
      BY <2>1 DEF SettingsInv
  <1>5. CASE UNCHANGED vars
    BY <1>5 DEF vars, SettingsInv
  <1> QED
    BY <1>1, <1>2, <1>3, <1>4, <1>5 DEF Next, Terminated

-----------------------------------------------------------------------------
(* Every variable keeps its type; the timeout of a run that passes its     *)
(* gates is a number.                                                      *)
THEOREM ExtractTypeCorrect == Spec => []TypeOK
  <1>1. IInv => TypeOK
    BY DEF IInv
  <1> QED
    BY Invariance, <1>1, PTL

(* A run that is blocked has sent no request and opened no connection.     *)
THEOREM BlockedBeforeAnyEffect == Spec => []BlockedRunsDidNothing
  <1>1. IInv => BlockedRunsDidNothing
    BY DEF IInv
  <1> QED
    BY Invariance, <1>1, PTL

(* The real transport and the real repository work under their flags only, *)
(* and for the command under both.                                         *)
THEOREM EffectsUnderFlags == Spec => []EffectsNeedTheirFlag
  <1>1. IInv => EffectsNeedTheirFlag
    BY DEF IInv, GateInv, EffectInv, EffectsNeedTheirFlag
  <1> QED
    BY Invariance, <1>1, PTL

(* No dotenv file turns on what an exported variable turns off.            *)
THEOREM DotenvCannotOverride == Spec => []ExportedRefusalStands
  <1>1. ASSUME IInv PROVE ExportedRefusalStands
    <2> SUFFICES ASSUME entry = "main", NEW flag \in Flags, On(env, flag), pc # "dotenv"
                 PROVE  exported[flag] \in {"absent", "on"}
      BY <1>1 DEF IInv, GateInv, EffectInv, Early, BeforeFetch, Flags, ExportedRefusalStands
    <2>1. env = Loaded(exported, dotenv)
      BY <1>1 DEF IInv, CommandInv
    <2>2. flag \in Keys
      BY DEF Keys
    <2> QED
      BY <2>1, <2>2 DEF Loaded, On
  <1> QED
    BY Invariance, <1>1, PTL

(* The command never fetches a page it cannot pseudonymize.                *)
THEOREM PagesHaveTheirSecret == Spec => []FetchedPagesHaveTheirSecret
  <1>1. IInv => FetchedPagesHaveTheirSecret
    BY DEF IInv
  <1> QED
    BY Invariance, <1>1, PTL

(* Whatever the real components do, they do it with the settings their     *)
(* parsers require, those of the database included.                        *)
THEOREM EffectsAreConfigured == Spec => []EffectsHaveTheirSettings
  <1>1. ASSUME IInv, SettingsInv, requested \/ connected
        PROVE  /\ \A key \in Required : env[key] \notin Unset
               /\ \A key \in {"page_size", "page_no"} : env[key] \in Unset \cup {"positive", "huge"}
               /\ env["retries"] \in Unset \cup {"zero", "positive", "huge"}
    <2>1. ~Missing(env) /\ \A key \in Numbers : ~Rejected(env, key)
      BY <1>1 DEF SettingsInv, ConfigRefused
    <2>2. \A key \in {"page_size", "page_no"} : env[key] \in Unset \cup {"positive", "huge"}
      BY <2>1 DEF Rejected, Converted, TooSmall, Numbers
    <2>3. env["retries"] \in Unset \cup {"zero", "positive", "huge"}
      BY <2>1 DEF Rejected, Converted, TooSmall, Numbers
    <2> QED
      BY <2>1, <2>2, <2>3 DEF Missing
  <1>2. ASSUME IInv, SettingsInv, entry = "main", requested \/ connected
        PROVE  \/ env["dsn"] \notin Unset
               \/ env["connection"] \notin Unset /\ env["port"] \in {"positive", "huge"}
    <2>1. repository = "postgres"
      BY <1>2 DEF IInv, EffectInv
    <2> QED
      BY <1>2, <2>1 DEF SettingsInv, PostgresRefused
  <1>3. IInv /\ SettingsInv => EffectsHaveTheirSettings
    BY <1>1, <1>2 DEF EffectsHaveTheirSettings
  <1> QED
    BY Invariance, InitSettingsInv, NextSettingsInv, <1>3, PTL DEF Spec
=============================================================================
