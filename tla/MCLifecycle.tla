---------------------------- MODULE MCLifecycle -----------------------------
(***************************************************************************)
(* Lifecycle on a small disk, in a development and in a production          *)
(* environment and in what one or two changed variables make of them.       *)
(***************************************************************************)
EXTENDS Lifecycle, TLC

Fleet(q) == "fleet" :> [ns |-> "default", queues |-> <<q>>]

AuthFile(keys, emails) == [json |-> TRUE, pem |-> FALSE, keys |-> keys, emails |-> emails]
Certificates == [json |-> FALSE, pem |-> TRUE, keys |-> <<>>, emails |-> <<>>]

(* Good files, a file that is neither JSON nor PEM, and an auth file whose   *)
(* "emails" entry lacks a queue name.                                        *)
SmallDisk ==
    "ko/static-auth.json" :> AuthFile(Fleet("q"), Fleet("q"))
    @@ "auth.json" :> AuthFile(Fleet("q"), Fleet("q"))
    @@ "keys.json" :> AuthFile(Fleet("q"), Fleet(""))
    @@ "good.pem" :> Certificates
    @@ "notes.txt" :> [Certificates EXCEPT !.pem = FALSE]

ModeVars ==
    [UPSTREAM_AUTH_MODE |-> {"none", "api-key"}, UPSTREAM_TLS_MODE |-> TLSModes,
     DOWNSTREAM_TLS_MODE |-> TLSModes, AUTH_MODE |-> {"static", "jwt"},
     TOKEN_CACHE_BACKEND |-> {"local", "valkey"}, VALKEY_TLS_MODE |-> TLSModes]
FileVars ==
    {"UPSTREAM_TLS_CA_FILE", "DOWNSTREAM_TLS_CERT_FILE", "DOWNSTREAM_TLS_KEY_FILE",
     "VALKEY_TLS_CA_FILE"}
TextVars == {"UPSTREAM_API_KEY", "JWT_AUDIENCE", "KO_DATA_PATH"}

\* The texts a variable is tried with.
Texts(v) ==
    {Unset, ""} \cup
    CASE v \in DOMAIN ModeVars -> ModeVars[v] \cup {"mistyped"}
      [] v \in FileVars -> {"good.pem", "notes.txt", "missing"}
      [] v \in NumericVars -> DOMAIN Numbers \cup {"mistyped"}
      [] v \in TextVars -> {"something"}
      [] v = "STATIC_AUTH_FILE" -> {"auth.json", "keys.json", "notes.txt", "missing"}
      [] v = "VALKEY_ADDRS" -> {"commas", "host"}
      [] v = "UPSTREAM_TLS_SKIP_VERIFY" -> DOMAIN Booleans \cup {"mistyped"}

Development == [v \in EnvVars |-> IF v = "STATIC_AUTH_FILE" THEN "auth.json" ELSE Unset]

Production ==
    [v \in EnvVars |->
        CASE v \in {"UPSTREAM_API_KEY", "JWT_AUDIENCE", "KO_DATA_PATH"} -> "something"
          [] v = "UPSTREAM_AUTH_MODE" -> "api-key"
          [] v \in {"UPSTREAM_TLS_MODE", "DOWNSTREAM_TLS_MODE"} -> "tls"
          [] v \in FileVars -> "good.pem"
          [] v = "AUTH_MODE" -> "jwt"
          [] v = "TOKEN_CACHE_BACKEND" -> "valkey"
          [] v = "VALKEY_ADDRS" -> "host"
          [] OTHER -> Unset]

Changed(E) == UNION {UNION {{[e EXCEPT ![v] = x] : x \in Texts(v)} : v \in EnvVars} : e \in E}

AllPairs == Changed(Changed({Development, Production}))
=============================================================================
