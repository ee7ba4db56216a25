------------------------------- MODULE Config -------------------------------
(***************************************************************************)
(* internal/config: what Load makes of the environment.                     *)
(*                                                                         *)
(* An environment maps every variable (without its TEMPORAL_PROXY_ prefix)  *)
(* to a text or to Unset.  A text stands for what parsing it gives: see     *)
(* Numbers, Booleans and BlankLists.  Variables that are only passed on     *)
(* (addresses, password, server name, log level) are left out.              *)
(***************************************************************************)
EXTENDS Integers

CONSTANT Unset

\* Unset is no text, in particular none an operator would set a variable to.
ASSUME UnsetAssumption ==
    Unset \notin {"two", "false", "none", "static", "local", "plaintext", "something",
                  "api-key", "jwt", "valkey", "tls"}

\* strconv.Atoi and time.ParseDuration; any other text does not parse.
Numbers == [minus |-> -1, zero |-> 0, two |-> 2]

\* strconv.ParseBool; any other text does not parse.
Booleans == [true |-> TRUE, false |-> FALSE]

\* Lists of which no element is left after trimming.
BlankLists == {"", "commas"}
-----------------------------------------------------------------------------
\* os.Getenv and getEnv: only an unset variable takes the default.
Getenv(env, v)      == IF env[v] = Unset THEN "" ELSE env[v]
GetEnv(env, v, def) == IF env[v] = Unset THEN def ELSE env[v]

\* getEnvList, as the set of addresses.
GetEnvList(env, v) == IF env[v] = Unset \/ env[v] \in BlankLists THEN {} ELSE {env[v]}

\* getEnvBool, getEnvInt and getEnvDuration: the value, zero if it does not parse.
Parses(env, v, table) == env[v] = Unset \/ env[v] \in DOMAIN table
Parsed(env, v, table, def, zero) ==
    CASE env[v] = Unset -> def
      [] env[v] # Unset /\ env[v] \in DOMAIN table -> table[env[v]]
      [] OTHER -> zero

\* defaultStaticAuthFile.
DefaultStaticAuthFile(env) == IF Getenv(env, "KO_DATA_PATH") = "" THEN "" ELSE "ko/static-auth.json"

NumericVars ==
    {"TOKEN_CACHE_TTL", "TOKEN_CACHE_MAX_SIZE", "VALKEY_DIAL_TIMEOUT",
     "VALKEY_READ_TIMEOUT", "VALKEY_WRITE_TIMEOUT"}

\* The variables Load reads and something depends on.
EnvVars ==
    NumericVars \cup
    {"UPSTREAM_AUTH_MODE", "UPSTREAM_API_KEY", "UPSTREAM_TLS_MODE", "UPSTREAM_TLS_CA_FILE",
     "UPSTREAM_TLS_SKIP_VERIFY", "DOWNSTREAM_TLS_MODE", "DOWNSTREAM_TLS_CERT_FILE",
     "DOWNSTREAM_TLS_KEY_FILE", "AUTH_MODE", "STATIC_AUTH_FILE", "KO_DATA_PATH",
     "JWT_AUDIENCE", "TOKEN_CACHE_BACKEND", "VALKEY_ADDRS", "VALKEY_TLS_MODE",
     "VALKEY_TLS_CA_FILE"}

\* The Config that Load fills in before it validates.
Filled(env) ==
    LET Number(v) == Parsed(env, v, Numbers, 2, 0) IN
    [upstreamAuth   |-> GetEnv(env, "UPSTREAM_AUTH_MODE", "none"),
     apiKey         |-> Getenv(env, "UPSTREAM_API_KEY"),
     upstreamTLS    |-> GetEnv(env, "UPSTREAM_TLS_MODE", "plaintext"),
     upstreamCA     |-> Getenv(env, "UPSTREAM_TLS_CA_FILE"),
     skipVerify     |-> Parsed(env, "UPSTREAM_TLS_SKIP_VERIFY", Booleans, FALSE, FALSE),
     downstreamTLS  |-> GetEnv(env, "DOWNSTREAM_TLS_MODE", "plaintext"),
     certFile       |-> Getenv(env, "DOWNSTREAM_TLS_CERT_FILE"),
     keyFile        |-> Getenv(env, "DOWNSTREAM_TLS_KEY_FILE"),
     workerAuth     |-> GetEnv(env, "AUTH_MODE", "static"),
     staticAuthFile |-> GetEnv(env, "STATIC_AUTH_FILE", DefaultStaticAuthFile(env)),
     jwtAudience    |-> Getenv(env, "JWT_AUDIENCE"),
     backend        |-> GetEnv(env, "TOKEN_CACHE_BACKEND", "local"),
     ttl            |-> Number("TOKEN_CACHE_TTL"),
     maxSize        |-> Number("TOKEN_CACHE_MAX_SIZE"),
     addrs          |-> GetEnvList(env, "VALKEY_ADDRS"),
     valkeyTLS      |-> GetEnv(env, "VALKEY_TLS_MODE", "tls"),
     valkeyCA       |-> Getenv(env, "VALKEY_TLS_CA_FILE"),
     dialTimeout    |-> Number("VALKEY_DIAL_TIMEOUT"),
     readTimeout    |-> Number("VALKEY_READ_TIMEOUT"),
     writeTimeout   |-> Number("VALKEY_WRITE_TIMEOUT")]
-----------------------------------------------------------------------------
(* validate, by section.  A problem is the set of variables its message      *)
(* tells the operator to set right.                                          *)

Require(ok, vs) == IF ok THEN {} ELSE {vs}

TLSModes == {"plaintext", "tls"}

ValidateUpstream(c) ==
    Require(c.upstreamAuth \in {"none", "api-key"}, {"UPSTREAM_AUTH_MODE"})
    \cup Require(c.upstreamAuth = "api-key" => c.apiKey # "", {"UPSTREAM_API_KEY"})
    \cup Require(c.upstreamTLS \in TLSModes, {"UPSTREAM_TLS_MODE"})

ValidateDownstream(c) ==
    Require(c.downstreamTLS = "tls" => c.certFile # "" /\ c.keyFile # "",
            {"DOWNSTREAM_TLS_CERT_FILE", "DOWNSTREAM_TLS_KEY_FILE"})
    \cup Require(c.downstreamTLS \in TLSModes, {"DOWNSTREAM_TLS_MODE"})

\* Mutant of ValidateWorkerAuth: the mode itself is not checked.
AnyWorkerAuthMode(c) ==
    Require(c.staticAuthFile # "", {"STATIC_AUTH_FILE"})
    \cup Require(c.workerAuth = "jwt" => c.jwtAudience # "", {"JWT_AUDIENCE"})

ValidateWorkerAuth(c) ==
    Require(c.staticAuthFile # "", {"STATIC_AUTH_FILE"})
    \cup Require(c.workerAuth = "jwt" => c.jwtAudience # "", {"JWT_AUDIENCE"})
    \cup Require(c.workerAuth \in {"static", "jwt"}, {"AUTH_MODE"})

\* Mutant of ValidateTokenCache: the addresses are not asked for.
AddrsUnchecked(c) ==
    Require(c.ttl > 0, {"TOKEN_CACHE_TTL"})
    \cup Require(c.maxSize > 0, {"TOKEN_CACHE_MAX_SIZE"})
    \cup Require(c.backend \in {"local", "valkey"}, {"TOKEN_CACHE_BACKEND"})

ValidateTokenCache(c) ==
    Require(c.ttl > 0, {"TOKEN_CACHE_TTL"})
    \cup Require(c.maxSize > 0, {"TOKEN_CACHE_MAX_SIZE"})
    \cup Require(c.backend = "valkey" => c.addrs # {}, {"VALKEY_ADDRS"})
    \cup Require(c.backend \in {"local", "valkey"}, {"TOKEN_CACHE_BACKEND"})

ValidateValkey(c) ==
    Require(c.valkeyTLS \in TLSModes, {"VALKEY_TLS_MODE"})
    \cup Require(c.dialTimeout > 0, {"VALKEY_DIAL_TIMEOUT"})
    \cup Require(c.readTimeout > 0, {"VALKEY_READ_TIMEOUT"})
    \cup Require(c.writeTimeout > 0, {"VALKEY_WRITE_TIMEOUT"})

Validate(c) ==
    ValidateUpstream(c) \cup ValidateDownstream(c) \cup ValidateWorkerAuth(c)
    \cup ValidateTokenCache(c) \cup ValidateValkey(c)

\* The parse errors that Load collects.
ParseErrors(env) ==
    Require(Parses(env, "UPSTREAM_TLS_SKIP_VERIFY", Booleans), {"UPSTREAM_TLS_SKIP_VERIFY"})
    \cup UNION {Require(Parses(env, v, Numbers), {v}) : v \in NumericVars}

\* Mutant of LoadErrors: Load returns at the first kind of problem.
ParseErrorsFirst(env) ==
    IF ParseErrors(env) # {} THEN ParseErrors(env) ELSE Validate(Filled(env))

\* All problems of an environment; Load returns Filled(env) if there are none.
LoadErrors(env) == ParseErrors(env) \cup Validate(Filled(env))
=============================================================================
