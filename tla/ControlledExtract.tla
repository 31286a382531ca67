-------------------------- MODULE ControlledExtract --------------------------
(***************************************************************************)
(* The controlled extraction command (controlled_halopsa_extract.py): the  *)
(* settings it reads, the gates it passes one after the other, what it     *)
(* builds between them, and the ingestion run it then starts. It is run as *)
(* a command, with the exported variables and those of ml/.env, or called  *)
(* by integration code with a mapping and components of its own.           *)
(*                                                                         *)
(* A setting is the class of its text. "credentials" stands for client id, *)
(* client secret, tenant and scope of HaloPSA, "connection" for host,      *)
(* database, user and password of PostgreSQL.                              *)
(***************************************************************************)
EXTENDS Integers

CONSTANTS Exports,       \* variables exported to the command
          Dotenvs,       \* variables ml/.env may define
          Hosts,         \* variables of a process that calls
          Mappings,      \* what integration code may pass as env
          Injections     \* and as components: [transport, repository, service]

Required == {"secret", "base_url", "credentials"}
Paths == {"token_path", "tickets_path"}
Flags == {"network", "write"}
Numbers == {"page_size", "page_no", "timeout", "retries"}
Keys == Required \cup Paths \cup Flags \cup Numbers \cup {"dsn", "connection", "port"}

(* blank: spaces only. junk: a text that no conversion and no flag accepts; *)
(* a base URL without a scheme or a host, or with a port that is none; a   *)
(* path that cannot stand in a request; credentials that cannot be encoded. *)
(* not finite: nan and inf. huge: an integer, in seconds more than a socket *)
(* can wait.                                                               *)
Unset == {"absent", "empty", "blank"}
Values == Unset \cup {"set", "on", "junk", "negative", "zero", "fraction",
                      "positive", "huge", "not finite"}
Environments == [Keys -> Values]

None == "none"
Transports == {None, "mock", "http"}
Repositories == {None, "mock", "postgres"}
Services == {None, "mock"}

ASSUME EnvironmentsAssumption ==
  Exports \cup Dotenvs \cup Hosts \cup Mappings \subseteq Environments
ASSUME InjectionsAssumption ==
  Injections \subseteq [transport : Transports, repository : Repositories,
                        service : Services]

VARIABLES
  environ,     \* os.environ
  dotenv,      \* contents of ml/.env
  entry,       \* main or call
  env,         \* the mapping the gates look at
  given,       \* the injected components
  installed,   \* whether psycopg can be imported
  pc,          \* next step
  timeout,     \* config.request_timeout_seconds, None before it is parsed
  transport,   \* selected_transport
  repository,  \* selected_repository
  page,        \* what the transport returned
  outcome,     \* how the run ended
  exported,    \* history: os.environ before ml/.env was loaded
  requested,   \* history: the real transport has sent a request
  connected    \* history: the real repository has opened a connection

world == <<dotenv, entry, given, installed, exported>>
effects == <<requested, connected>>
vars == <<environ, env, pc, timeout, transport, repository, page, outcome,
          world, effects>>

Steps == {"dotenv", "config", "gates", "transport", "repository", "service",
          "delegate", "fetch", "guard", "save", "ended"}
Outcomes == {None, "blocked", "completed", "settings failed", "fetch failed",
             "secret missing", "guard failed", "save failed", "service failed"}

-----------------------------------------------------------------------------
(* value.strip().lower() in TRUE_ENV_VALUES *)
On(e, flag) == e[flag] = "on"

(* Fault: the secret is not one of REQUIRED_ENV_KEYS. *)
MissingButSecret(e) == \E key \in Required \ {"secret"} : e[key] \in Unset

Missing(e) == \E key \in Required : e[key] \in Unset

(* What int() and float() convert. *)
Converted(key) ==
  {"negative", "zero", "positive", "huge"}
    \cup (IF key = "timeout" THEN {"fraction", "not finite"} ELSE {})

(* Fault: `value < 0` for every number. *)
TooSmallOnlyNegative(key) == {"negative"}

(* value <= 0, or value < 0 for the retries; no comparison with nan holds. *)
TooSmall(key) == IF key = "retries" THEN {"negative"} ELSE {"negative", "zero"}

(* _parse_page_size, _parse_positive_int, _parse_positive_float and        *)
(* _parse_non_negative_int; a number that is not set has a default.        *)
Rejected(e, key) ==
  /\ e[key] \notin Unset
  /\ e[key] \notin Converted(key) \ TooSmall(key)

(* What remains for config.validate() to reject: nothing. It looks at a    *)
(* URL, at paths and at credentials only to see that they are there.       *)
ConfigRefused(e) == Missing(e) \/ \E key \in Numbers : Rejected(e, key)

(* Fault: a timeout that is not set is passed on. *)
ParsedTimeoutRaw(e) == e["timeout"]

ParsedTimeout(e) == IF e["timeout"] \in Unset THEN "positive" ELSE e["timeout"]

(* PostgresConnectionConfig.from_env raises. *)
PostgresRefused(e) ==
  \/ ~On(e, "write")
  \/ /\ e["dsn"] \in Unset
     /\ e["connection"] \in Unset \/ e["port"] \notin {"positive", "huge"}

(* Fault: load_dotenv(override=True). *)
LoadedOverriding(process, file) ==
  [key \in Keys |-> IF file[key] = "absent" THEN process[key] ELSE file[key]]

(* load_dotenv(override=False): an exported variable stays, an empty one too. *)
Loaded(process, file) ==
  [key \in Keys |-> IF process[key] = "absent" THEN file[key] ELSE process[key]]

(* `if not secret` in pseudonymize_with_hmac_sha256, which reads os.environ. *)
SecretUsable == environ["secret"] \notin {"absent", "empty"}

-----------------------------------------------------------------------------
End(result) ==
  /\ pc' = "ended"
  /\ outcome' = result

GoTo(step) ==
  /\ pc' = step
  /\ UNCHANGED outcome

(* ControlledExtractionError: main logs it and returns 2. *)
Block == End("blocked")

Init ==
  /\ \/ /\ entry = "main"
        /\ environ \in Exports
        /\ dotenv \in Dotenvs
        /\ env = environ
        /\ given = [transport |-> None, repository |-> None, service |-> None]
        /\ pc = "dotenv"
     \/ /\ entry = "call"
        /\ environ \in Hosts
        /\ dotenv = [key \in Keys |-> "absent"]
        /\ env \in Mappings
        /\ given \in Injections
        /\ pc = "config"
  /\ exported = environ
  /\ installed \in BOOLEAN
  /\ timeout = None
  /\ transport = None
  /\ repository = None
  /\ page = None
  /\ outcome = None
  /\ requested = FALSE
  /\ connected = FALSE

(* load_local_dotenv; then env is os.environ itself. *)
LoadDotenv ==
  /\ pc = "dotenv"
  /\ environ' = Loaded(environ, dotenv)
  /\ env' = environ'
  /\ GoTo("config")
  /\ UNCHANGED <<timeout, transport, repository, page, world, effects>>

BuildConfig ==
  /\ pc = "config"
  /\ IF ConfigRefused(env)
     THEN Block /\ UNCHANGED timeout
     ELSE GoTo("gates") /\ timeout' = ParsedTimeout(env)
  /\ UNCHANGED <<environ, env, transport, repository, page, world, effects>>

(* Fault: an injected transport is taken as it is. *)
CheckInjectedRepositoryOnly ==
  /\ pc = "gates"
  /\ IF given.repository = "postgres" /\ ~On(env, "write")
     THEN Block ELSE GoTo("transport")
  /\ UNCHANGED <<environ, env, timeout, transport, repository, page, world, effects>>

(* The real components may not be injected around their flags. *)
CheckInjected ==
  /\ pc = "gates"
  /\ IF \/ given.transport = "http" /\ ~On(env, "network")
        \/ given.repository = "postgres" /\ ~On(env, "write")
     THEN Block ELSE GoTo("transport")
  /\ UNCHANGED <<environ, env, timeout, transport, repository, page, world, effects>>

(* transport or _build_explicit_network_transport(env) *)
SelectTransport ==
  /\ pc = "transport"
  /\ transport' = IF given.transport # None THEN given.transport
                  ELSE IF On(env, "network") THEN "http" ELSE None
  /\ GoTo("repository")
  /\ UNCHANGED <<environ, env, timeout, repository, page, world, effects>>

(* repository or _build_explicit_postgres_repository(...), which imports   *)
(* the driver and opens no connection.                                     *)
SelectRepository ==
  LET needed == /\ given.repository = None
                /\ given.service = None
                /\ transport # None
  IN
  /\ pc = "repository"
  /\ IF needed /\ (PostgresRefused(env) \/ ~installed)
     THEN Block /\ UNCHANGED repository
     ELSE /\ repository' = IF needed THEN "postgres" ELSE given.repository
          /\ GoTo("service")
  /\ UNCHANGED <<environ, env, timeout, transport, page, world, effects>>

(* ingestion_service or _build_ingestion_service(...) *)
SelectService ==
  /\ pc = "service"
  /\ IF given.service # None THEN GoTo("delegate")
     ELSE IF transport = None \/ repository = None THEN Block
     ELSE GoTo("fetch")
  /\ UNCHANGED <<environ, env, timeout, transport, repository, page, world, effects>>

(* An injected service is not looked into. *)
Delegate ==
  /\ pc = "delegate"
  /\ \E result \in {"completed", "service failed"} : End(result)
  /\ UNCHANGED <<environ, env, timeout, transport, repository, page, world, effects>>

(* What urlopen() can send: the settings are those of env, which nothing   *)
(* changes once the config has been built from it.                         *)
Usable(key) == env[key] # "junk"
TimeoutUsable == timeout \in {"fraction", "positive"}
Sendable == /\ Usable("credentials") /\ Usable("base_url") /\ Usable("token_path")
            /\ TimeoutUsable

(* The request for the token cannot be built, or the socket refuses the    *)
(* timeout before anything is sent. Without a host in the URL, or when its *)
(* name is not found, that is a URLError and a failure of the fetch.       *)
SettingsRefused ==
  /\ pc = "fetch"
  /\ transport = "http" /\ ~Sendable
  /\ \/ End("settings failed")
     \/ /\ Usable("credentials")
        /\ Usable("base_url") => Usable("token_path")
        /\ End("fetch failed")
  /\ UNCHANGED <<environ, env, timeout, transport, repository, page, world, effects>>

(* A path of the tickets that cannot be sent shows when there is a token.  *)
TicketsPathRefused ==
  /\ pc = "fetch"
  /\ transport = "http" /\ Sendable /\ ~Usable("tickets_path")
  /\ requested' = TRUE
  /\ \E result \in {"settings failed", "fetch failed"} : End(result)
  /\ UNCHANGED <<environ, env, timeout, transport, repository, page, world, connected>>

Fetch ==
  /\ pc = "fetch"
  /\ transport = "http" => Sendable /\ Usable("tickets_path")
  /\ requested' = (transport = "http")
  /\ \/ page' \in {"no tickets", "tickets"} /\ GoTo("guard")
     \/ page' = None /\ End("fetch failed")
  /\ UNCHANGED <<environ, env, timeout, transport, repository, world, connected>>

(* Every agent is pseudonymized. *)
Guard ==
  /\ pc = "guard"
  /\ IF page = "tickets" /\ ~SecretUsable
     THEN End("secret missing") ELSE GoTo("save")
  /\ UNCHANGED <<environ, env, timeout, transport, repository, page, world, effects>>

(* The page is refused as TicketIngestion has it. *)
GuardFails ==
  /\ pc = "guard"
  /\ page = "tickets"
  /\ End("guard failed")
  /\ UNCHANGED <<environ, env, timeout, transport, repository, page, world, effects>>

Save ==
  /\ pc = "save"
  /\ connected' = (repository = "postgres" /\ page = "tickets")
  /\ End("completed")
  /\ UNCHANGED <<environ, env, timeout, transport, repository, page, world, requested>>

(* Fault: the connection factory turns its failure into the blocking error. *)
SaveFailsAsBlocked ==
  /\ pc = "save"
  /\ page = "tickets"
  /\ connected' = (repository = "postgres")
  /\ Block
  /\ UNCHANGED <<environ, env, timeout, transport, repository, page, world, requested>>

(* The connection is refused, or a statement fails. *)
SaveFails ==
  /\ pc = "save"
  /\ page = "tickets"
  /\ connected' = (repository = "postgres")
  /\ End("save failed")
  /\ UNCHANGED <<environ, env, timeout, transport, repository, page, world, requested>>

Terminated == pc = "ended" /\ UNCHANGED vars

Next ==
  \/ LoadDotenv \/ BuildConfig \/ CheckInjected
  \/ SelectTransport \/ SelectRepository \/ SelectService
  \/ Delegate \/ SettingsRefused \/ TicketsPathRefused \/ Fetch
  \/ Guard \/ GuardFails
  \/ Save \/ SaveFails
  \/ Terminated

Spec == Init /\ [][Next]_vars

-----------------------------------------------------------------------------
(* The types of the variables. *)
TypeOK ==
  /\ {environ, dotenv, env, exported} \subseteq Environments
  /\ entry \in {"main", "call"}
  /\ given \in [transport : Transports, repository : Repositories, service : Services]
  /\ installed \in BOOLEAN
  /\ pc \in Steps
  /\ timeout \in {None, "fraction", "positive", "huge", "not finite"}
  /\ transport \in Transports
  /\ repository \in Repositories
  /\ page \in {None, "no tickets", "tickets"}
  /\ outcome \in Outcomes
  /\ requested \in BOOLEAN
  /\ connected \in BOOLEAN

(* A run that is blocked has asked the provider for nothing and has opened *)
(* no connection: every ControlledExtractionError comes "before unsafe     *)
(* work" (controlled_halopsa_extract.py:71), the missing driver and the    *)
(* incomplete database settings included.                                  *)
BlockedRunsDidNothing == outcome = "blocked" => ~requested /\ ~connected

(* The real components work only under their flags, whether the command    *)
(* built them or they were injected; as a command, neither does unless     *)
(* both flags are on: there is no fetch whose page could not be stored     *)
(* (commands/README.md:8).                                                 *)
EffectsNeedTheirFlag ==
  /\ requested => On(env, "network")
  /\ connected => On(env, "write")
  /\ entry = "main" /\ (requested \/ connected) => On(env, "network") /\ On(env, "write")

(* A flag exported as anything else than true, an empty one included,      *)
(* cannot be turned on by ml/.env.                                         *)
ExportedRefusalStands ==
  entry = "main" =>
    /\ requested => exported["network"] \in {"absent", "on"}
    /\ connected => exported["write"] \in {"absent", "on"}

(* The secret checked first is there when the page is pseudonymized, long  *)
(* after, in os.environ: a fetched page never fails for want of it.        *)
FetchedPagesHaveTheirSecret == entry = "main" => outcome # "secret missing"

(* Whatever the real components do, they do it with a whole configuration: *)
(* the provider is asked for pages of at least one ticket from page one    *)
(* on, and at least once; and as a command, nothing is asked that could    *)
(* not be stored for want of a database setting, although those are read   *)
(* after the transport has been built. That holds of what the parsers look *)
(* at, not of URLs, paths, credentials and large timeouts: a run with such *)
(* a one passes the gates and is not blocked, it fails.                    *)
EffectsHaveTheirSettings ==
  /\ requested \/ connected =>
       /\ \A key \in Required : env[key] \notin Unset
       /\ \A key \in {"page_size", "page_no"} : env[key] \in Unset \cup {"positive", "huge"}
       /\ env["retries"] \in Unset \cup {"zero", "positive", "huge"}
  /\ entry = "main" /\ (requested \/ connected) =>
       \/ env["dsn"] \notin Unset
       \/ env["connection"] \notin Unset /\ env["port"] \in {"positive", "huge"}
=============================================================================
