-------------------------- MODULE LifecycleProofs ---------------------------
(***************************************************************************)
(* The safety properties of the proxy process, for every environment, every *)
(* disk and any number of calls.                                            *)
(*                                                                         *)
(* The invariant follows run(): at each step, which resources are open and  *)
(* deferred, what has been built, and whether calls can be in flight.       *)
(***************************************************************************)
EXTENDS Lifecycle, SequenceTheorems, TLAPS

Starting == {"load", "authenticator", "dial", "cache", "connect", "ping", "listen", "notify"}

TypeOK ==
    /\ pc \in Starting \cup {"select", "graceful", "unwind", "exited"}
    /\ DOMAIN built = DOMAIN Nothing
    /\ armed \in BOOLEAN /\ ctxDone \in BOOLEAN /\ cut \in BOOLEAN /\ requested \in BOOLEAN
    /\ serve \in {"none", "ready", "running", "done"}
    /\ door \in {"shut", "open", "closing", "closed"}
    /\ call \in [Calls -> {"idle", "lookup", "upstream", "record"}]

\* What is open, and what run() will close.
Holds(ds, up, store, sig) ==
    defers = ds /\ conn = up /\ cache = store /\ armed = sig

DefersOK ==
    /\ pc \in {"load", "authenticator", "dial"} => Holds(<<>>, "none", "none", FALSE)
    /\ pc \in {"cache", "connect"} => Holds(<<"conn">>, "open", "none", FALSE)
    /\ pc = "ping" => Holds(<<"conn">>, "open", "open", FALSE)
    /\ pc \in {"listen", "notify"} => Holds(<<"cache", "conn">>, "open", "open", FALSE)
    /\ pc \in {"select", "graceful"} => Holds(<<"stop", "cache", "conn">>, "open", "open", TRUE)
    /\ pc = "unwind" =>
          \/ defers = <<>> /\ conn # "open" /\ cache # "open" /\ armed = FALSE
          \/ defers = <<"conn">> /\ cache # "open" /\ armed = FALSE
          \/ defers = <<"cache", "conn">> /\ armed = FALSE
          \/ defers = <<"stop", "cache", "conn">>
    /\ NothingLeftOpen

\* The files that each part of run() reads can be used.
AuthFileOK      ==
    AuthFileLoads(cfg.staticAuthFile, IF cfg.workerAuth = "jwt" THEN "emails" ELSE "keys")
UpstreamFileOK  ==
    cfg.upstreamTLS = "tls" /\ cfg.upstreamCA # "" => HasCertificates(cfg.upstreamCA)
StoreFileOK     ==
    cfg.backend = "valkey" /\ cfg.valkeyTLS = "tls" /\ cfg.valkeyCA # "" =>
        HasCertificates(cfg.valkeyCA)
ListenerFilesOK ==
    cfg.downstreamTLS = "tls" => HasCertificates(cfg.certFile) /\ HasCertificates(cfg.keyFile)

\* What has been built is what the accepted configuration says.
AuthBuilt     == built.auth = cfg.workerAuth /\ AuthFileOK
UpstreamBuilt ==
    /\ built.upstream = cfg.upstreamTLS
    /\ built.verify = ~cfg.skipVerify
    /\ built.key = (cfg.upstreamAuth = "api-key")
    /\ UpstreamFileOK
StoreBuilt    ==
    /\ built.store = cfg.backend
    /\ cfg.backend = "valkey" => built.storeTLS = cfg.valkeyTLS
    /\ StoreFileOK
ListenerBuilt == built.listener = cfg.downstreamTLS /\ ListenerFilesOK

\* Why run() did not come to serve.
FailureOK == why # "argument" /\ (why = "file" => ~FilesUsable)

BuiltOK ==
    /\ pc \in (Starting \ {"load"}) \cup {"select", "graceful"} \/ serve # "none" =>
          LoadErrors(env) = {}
    /\ pc \in {"dial", "cache", "connect", "ping", "listen", "notify"} \/ serve # "none" =>
          AuthBuilt
    /\ pc \in {"cache", "connect", "ping", "listen", "notify"} \/ serve # "none" => UpstreamBuilt
    /\ pc \in {"connect", "ping", "listen", "notify"} \/ serve # "none" => StoreBuilt
    /\ pc = "notify" \/ serve # "none" => ListenerBuilt
    /\ FailureOK

\* When calls can be in flight, and why run() is on its way out.
ServingOK ==
    /\ pc \in Starting => serve = "none"
    /\ pc \in {"select", "graceful"} => serve # "none"
    /\ serve = "none" => serveErr = "empty" /\ door = "shut" /\ Active = {} /\ ~cut
    /\ pc = "select" => door \in {"shut", "open"}
    /\ ctxDone /\ pc \notin {"unwind", "exited"} => requested
    /\ pc = "graceful" => requested
    /\ serveErr = "nil" => door = "closed"
    /\ pc \in {"unwind", "exited"} \/ why = None
    /\ why = "signal" => requested /\ door = "closed" /\ Active = {}
    /\ pc = "unwind" /\ serve # "none" => why \in {"signal", "serve"}
    /\ pc = "exited" => Active = {}
    /\ status = "success" => why = "signal"
    /\ CallsKeepTheirResources

Inv == TypeOK /\ DefersOK /\ BuiltOK /\ ServingOK
-----------------------------------------------------------------------------
(* The parsed numbers are numbers.                                           *)
LEMMA ParsedNumber ==
    ASSUME NEW e, NEW v
    PROVE  Parsed(e, v, Numbers, 2, 0) \in Int
  BY DEF Parsed, Numbers

(* What Load accepts satisfies what the constructors and switches rely on.   *)
LEMMA Accepted ==
    ASSUME LoadErrors(env) = {}
    PROVE  /\ cfg.upstreamAuth \in {"none", "api-key"}
           /\ cfg.upstreamTLS \in TLSModes
           /\ cfg.downstreamTLS \in TLSModes
           /\ cfg.workerAuth \in {"static", "jwt"}
           /\ cfg.workerAuth = "jwt" => cfg.jwtAudience # ""
           /\ cfg.backend \in {"local", "valkey"}
           /\ cfg.backend = "valkey" => cfg.addrs # {}
           /\ cfg.ttl \in Int /\ cfg.ttl > 0
           /\ cfg.valkeyTLS \in TLSModes
  <1>1. Validate(cfg) = {}
    BY DEF LoadErrors, cfg
  <1>2. cfg.ttl \in Int
    BY ParsedNumber DEF cfg, Filled
  <1> QED
    BY <1>1, <1>2 DEF Validate, ValidateUpstream, ValidateDownstream, ValidateWorkerAuth,
       ValidateTokenCache, ValidateValkey, Require

(* The fields of the configuration, in terms of the variables.               *)
LEMMA AskedFor ==
    /\ cfg.workerAuth = GetEnv(env, "AUTH_MODE", "static")
    /\ cfg.upstreamTLS = GetEnv(env, "UPSTREAM_TLS_MODE", "plaintext")
    /\ cfg.upstreamAuth = GetEnv(env, "UPSTREAM_AUTH_MODE", "none")
    /\ cfg.downstreamTLS = GetEnv(env, "DOWNSTREAM_TLS_MODE", "plaintext")
    /\ cfg.backend = GetEnv(env, "TOKEN_CACHE_BACKEND", "local")
    /\ cfg.valkeyTLS = GetEnv(env, "VALKEY_TLS_MODE", "tls")
    /\ cfg.skipVerify = Parsed(env, "UPSTREAM_TLS_SKIP_VERIFY", Booleans, FALSE, FALSE)
  BY DEF cfg, Filled

LEMMA SkipOnlyIfTrue ==
    ASSUME cfg.skipVerify
    PROVE  env["UPSTREAM_TLS_SKIP_VERIFY"] = "true"
  <1> DEFINE x == env["UPSTREAM_TLS_SKIP_VERIFY"]
  <1>1. cfg.skipVerify = CASE x = Unset -> FALSE
                           [] x # Unset /\ x \in DOMAIN Booleans -> Booleans[x]
                           [] OTHER -> FALSE
    BY AskedFor DEF Parsed
  <1>2. DOMAIN Booleans = {"true", "false"} /\ Booleans["true"] = TRUE /\ Booleans["false"] = FALSE
    BY DEF Booleans
  <1> HIDE DEF x
  <1>3. x = "true"
    BY <1>1, <1>2
  <1> QED
    BY <1>3 DEF x

(* FilesUsable, part by part.                                                *)
LEMMA FilesOf ==
    ASSUME LoadErrors(env) = {}
    PROVE  FilesUsable <=> AuthFileOK /\ UpstreamFileOK /\ StoreFileOK /\ ListenerFilesOK
  <1> DEFINE IfNamed(v) == env[v] \notin {Unset, ""} => HasCertificates(env[v])
             Checked(v) == Getenv(env, v) # "" => HasCertificates(Getenv(env, v))
  <1>1. ASSUME NEW v PROVE IfNamed(v) <=> Checked(v)
    BY DEF Getenv
  <1>2. cfg.staticAuthFile = GetEnv(env, "STATIC_AUTH_FILE", DefaultStaticAuthFile(env))
    BY DEF cfg, Filled
  <1>3. /\ cfg.upstreamCA = Getenv(env, "UPSTREAM_TLS_CA_FILE")
        /\ cfg.certFile = Getenv(env, "DOWNSTREAM_TLS_CERT_FILE")
        /\ cfg.keyFile = Getenv(env, "DOWNSTREAM_TLS_KEY_FILE")
        /\ cfg.valkeyCA = Getenv(env, "VALKEY_TLS_CA_FILE")
    BY DEF cfg, Filled
  <1>4. cfg.downstreamTLS = "tls" => cfg.certFile # "" /\ cfg.keyFile # ""
    BY DEF LoadErrors, cfg, Validate, ValidateDownstream, Require
  <1>5. FilesUsable <=>
            /\ AuthFileOK
            /\ cfg.upstreamTLS = "tls" => IfNamed("UPSTREAM_TLS_CA_FILE")
            /\ cfg.downstreamTLS = "tls" =>
                  IfNamed("DOWNSTREAM_TLS_CERT_FILE") /\ IfNamed("DOWNSTREAM_TLS_KEY_FILE")
            /\ cfg.backend = "valkey" /\ cfg.valkeyTLS = "tls" => IfNamed("VALKEY_TLS_CA_FILE")
    BY <1>2, AskedFor DEF FilesUsable, AuthFileOK
  <1> HIDE DEF IfNamed
  <1>6. UpstreamFileOK <=> (cfg.upstreamTLS = "tls" => IfNamed("UPSTREAM_TLS_CA_FILE"))
    BY <1>1, <1>3 DEF UpstreamFileOK
  <1>7. StoreFileOK <=>
            (cfg.backend = "valkey" /\ cfg.valkeyTLS = "tls" => IfNamed("VALKEY_TLS_CA_FILE"))
    BY <1>1, <1>3 DEF StoreFileOK
  <1>8. ListenerFilesOK <=>
            (cfg.downstreamTLS = "tls" =>
                IfNamed("DOWNSTREAM_TLS_CERT_FILE") /\ IfNamed("DOWNSTREAM_TLS_KEY_FILE"))
    BY <1>1, <1>3, <1>4 DEF ListenerFilesOK
  <1> QED
    BY <1>5, <1>6, <1>7, <1>8

(* The checked properties follow from the invariant. *)
LEMMA InvImplies ==
    ASSUME Inv
    PROVE  /\ StartFailsForCause /\ ServesAsConfigured
           /\ CallsKeepTheirResources /\ SuccessMeansStopped /\ NothingLeftOpen
  <1>1. CallsKeepTheirResources /\ NothingLeftOpen
    BY DEF Inv, DefersOK, ServingOK
  <1>2. SuccessMeansStopped
    BY DEF Inv, ServingOK, CallsKeepTheirResources, SuccessMeansStopped
  <1>3. ServesAsConfigured
    <2> SUFFICES ASSUME door # "shut"
                 PROVE  ServesAsConfigured
      BY DEF ServesAsConfigured
    <2>1. LoadErrors(env) = {} /\ AuthBuilt /\ UpstreamBuilt /\ StoreBuilt /\ ListenerBuilt
      BY DEF Inv, BuiltOK, ServingOK
    <2>2. ~built.verify => env["UPSTREAM_TLS_SKIP_VERIFY"] = "true"
      BY <2>1, SkipOnlyIfTrue DEF UpstreamBuilt
    <2> QED
      BY <2>1, <2>2, AskedFor, Accepted
         DEF ServesAsConfigured, AuthBuilt, UpstreamBuilt, StoreBuilt, ListenerBuilt
  <1>4. door # "shut" => FilesUsable
    <2> SUFFICES ASSUME door # "shut"
                 PROVE  FilesUsable
      OBVIOUS
    <2>1. LoadErrors(env) = {} /\ AuthBuilt /\ UpstreamBuilt /\ StoreBuilt /\ ListenerBuilt
      BY DEF Inv, BuiltOK, ServingOK
    <2> QED
      BY <2>1, FilesOf DEF AuthBuilt, UpstreamBuilt, StoreBuilt, ListenerBuilt
  <1>5. StartFailsForCause
    BY <1>4 DEF Inv, BuiltOK, FailureOK, StartFailsForCause
  <1> QED
    BY <1>1, <1>2, <1>3, <1>5

LEMMA InitInv == Init => Inv
  <1> SUFFICES ASSUME Init PROVE Inv
    OBVIOUS
  <1>1. TypeOK
    BY DEF Init, TypeOK, Starting
  <1>2. DefersOK
    BY NoneAssumption DEF Init, DefersOK, Holds, NothingLeftOpen
  <1>3. BuiltOK
    BY NoneAssumption DEF Init, BuiltOK, Starting, FailureOK
  <1>4. ServingOK
    BY NoneAssumption DEF Init, ServingOK, Starting, Active, CallsKeepTheirResources
  <1> QED
    BY <1>1, <1>2, <1>3, <1>4 DEF Inv
-----------------------------------------------------------------------------
\* defer puts a function in front of the others.
LEMMA Deferred ==
    /\ <<"cache">> \o <<"conn">> = <<"cache", "conn">>
    /\ <<"stop">> \o <<"cache", "conn">> = <<"stop", "cache", "conn">>
  <1> DEFINE F == {"stop", "cache", "conn"}
  <1>1. <<"cache">> \o <<"conn">> = <<"cache", "conn">>
    <2> DEFINE s == <<"cache">> \o <<"conn">>
               t == <<"cache", "conn">>
    <2>1. s \in Seq(F) /\ t \in Seq(F)
      OBVIOUS
    <2>2. Len(s) = 2 /\ Len(t) = 2 /\ s[1] = t[1] /\ s[2] = t[2]
      OBVIOUS
    <2>3. \A i \in 1..Len(s) : s[i] = t[i]
      BY <2>2
    <2> QED
      BY <2>1, <2>2, <2>3, SeqEqual
  <1>2. <<"stop">> \o <<"cache", "conn">> = <<"stop", "cache", "conn">>
    <2> DEFINE s == <<"stop">> \o <<"cache", "conn">>
               t == <<"stop", "cache", "conn">>
    <2>1. s \in Seq(F) /\ t \in Seq(F)
      OBVIOUS
    <2>2. Len(s) = 3 /\ Len(t) = 3 /\ s[1] = t[1] /\ s[2] = t[2] /\ s[3] = t[3]
      OBVIOUS
    <2>3. \A i \in 1..Len(s) : s[i] = t[i]
      BY <2>2
    <2> QED
      BY <2>1, <2>2, <2>3, SeqEqual
  <1> QED
    BY <1>1, <1>2

\* A step of run() that leaves env alone leaves the configuration alone.
LEMMA SameConfig ==
    ASSUME UNCHANGED env
    PROVE  cfg' = cfg /\ LoadErrors(env)' = LoadErrors(env)
  BY DEF cfg

\* What is built stays as configured.
LEMMA SameBuilt ==
    ASSUME UNCHANGED <<env, built>>
    PROVE  /\ AuthBuilt' = AuthBuilt /\ UpstreamBuilt' = UpstreamBuilt
           /\ StoreBuilt' = StoreBuilt /\ ListenerBuilt' = ListenerBuilt
  <1>1. cfg' = cfg
    BY DEF cfg
  <1> QED
    BY <1>1 DEF AuthBuilt, UpstreamBuilt, StoreBuilt, ListenerBuilt, AuthFileOK, UpstreamFileOK,
       StoreFileOK, ListenerFilesOK

\* Whether the files can be used depends on the environment alone.
LEMMA SameFiles ==
    ASSUME UNCHANGED env
    PROVE  FilesUsable' = FilesUsable
  BY DEF FilesUsable

\* An error return before anything is served.
LEMMA ReturnServing ==
    ASSUME Inv, pc \in Starting, NEW reason \in {"config", "file", "library", "network"},
           Return(reason), reason = "file" => ~FilesUsable,
           UNCHANGED <<env, ctxDone, requested, serving>>
    PROVE  ServingOK' /\ serve' = "none" /\ FailureOK'
  <1>1. ServingOK' /\ serve' = "none"
    BY NoneAssumption
       DEF Inv, Return, serving, ServingOK, Starting, Active, CallsKeepTheirResources
  <1>2. FailureOK'
    BY SameFiles DEF Return, FailureOK
  <1> QED
    BY <1>1, <1>2

\* A step from one part of the start to the next.
LEMMA ProceedServing ==
    ASSUME Inv, pc \in Starting, NEW next \in Starting, Proceed(next),
           UNCHANGED <<env, ctxDone, requested, serving>>
    PROVE  ServingOK' /\ serve' = "none" /\ FailureOK'
  <1>1. ServingOK' /\ serve' = "none"
    BY DEF Inv, Proceed, serving, ServingOK, Starting, Active, CallsKeepTheirResources
  <1>2. FailureOK'
    BY SameFiles DEF Inv, BuiltOK, Proceed, FailureOK
  <1> QED
    BY <1>1, <1>2

LEMMA LoadConfigInv ==
    ASSUME Inv, LoadConfig
    PROVE  Inv'
  <1>1. /\ pc = "load" /\ UNCHANGED <<env, built, conn, cache, defers, armed, ctxDone, requested, serving>>
        /\ LoadErrors(env)' = LoadErrors(env)
    BY SameConfig DEF LoadConfig, signals
  <1>2. CASE LoadErrors(env) = {}
    <2>1. Proceed("authenticator")
      BY <1>2 DEF LoadConfig
    <2>2. ServingOK' /\ serve' = "none" /\ FailureOK'
      BY <1>1, <2>1, ProceedServing DEF Starting
    <2>3. TypeOK' /\ DefersOK'
      BY <1>1, <2>1 DEF Inv, TypeOK, DefersOK, Holds, Proceed, Starting, serving, NothingLeftOpen
    <2>4. BuiltOK'
      BY <1>1, <1>2, <2>1, <2>2 DEF BuiltOK, Proceed, Starting
    <2> QED
      BY <2>2, <2>3, <2>4 DEF Inv
  <1>3. CASE LoadErrors(env) # {}
    <2>1. Return("config")
      BY <1>3 DEF LoadConfig
    <2>2. ServingOK' /\ serve' = "none" /\ FailureOK'
      BY <1>1, <2>1, ReturnServing DEF Starting
    <2>3. TypeOK' /\ DefersOK'
      BY <1>1, <2>1 DEF Inv, TypeOK, DefersOK, Holds, Return, Starting, serving, NothingLeftOpen
    <2>4. BuiltOK'
      BY <2>1, <2>2 DEF BuiltOK, Return, Starting
    <2> QED
      BY <2>2, <2>3, <2>4 DEF Inv
  <1> QED
    BY <1>2, <1>3

LEMMA BuildAuthenticatorInv ==
    ASSUME Inv, BuildAuthenticator
    PROVE  Inv'
  <1>1. /\ pc = "authenticator"
        /\ UNCHANGED <<env, conn, cache, defers, armed, ctxDone, requested, serving>>
        /\ LoadErrors(env) = {} /\ LoadErrors(env)' = {} /\ cfg' = cfg
    BY SameConfig DEF BuildAuthenticator, signals, Inv, BuiltOK, Starting
  <1>2. /\ cfg.workerAuth \in {"static", "jwt"}
        /\ cfg.workerAuth = "jwt" => cfg.jwtAudience # ""
    BY <1>1, Accepted
  <1>3. /\ DOMAIN built' = DOMAIN Nothing /\ built'.auth = cfg.workerAuth
        /\ \/ Proceed("dial") /\ AuthFileOK
           \/ Return("file") /\ ~AuthFileOK
           \/ Return("library")
    BY <1>1, <1>2 DEF BuildAuthenticator, Inv, TypeOK, Nothing, AuthFileOK
  <1>4. ServingOK' /\ serve' = "none" /\ FailureOK'
    BY <1>1, <1>3, FilesOf, ProceedServing, ReturnServing DEF Starting
  <1>5. TypeOK' /\ DefersOK'
    BY <1>1, <1>3 DEF Inv, TypeOK, DefersOK, Holds, Return, Proceed, Starting, serving,
       NothingLeftOpen
  <1>6. Proceed("dial") => AuthBuilt'
    BY <1>1, <1>3 DEF AuthBuilt, AuthFileOK, Proceed, Return
  <1>7. BuiltOK'
    BY <1>1, <1>3, <1>4, <1>6 DEF BuiltOK, Return, Proceed, Starting
  <1> QED
    BY <1>4, <1>5, <1>7 DEF Inv

LEMMA DialUpstreamInv ==
    ASSUME Inv, DialUpstream
    PROVE  Inv'
  <1>1. /\ pc = "dial" /\ defers = <<>>
        /\ UNCHANGED <<env, cache, armed, ctxDone, requested, serving>>
        /\ LoadErrors(env) = {} /\ LoadErrors(env)' = {} /\ cfg' = cfg /\ AuthBuilt
        /\ conn = "none" /\ cache = "none" /\ armed = FALSE
    BY SameConfig DEF DialUpstream, signals, Inv, BuiltOK, Starting, DefersOK, Holds
  <1>2. cfg.upstreamTLS \in {"plaintext", "tls"}
    BY <1>1, Accepted DEF TLSModes
  <1>3. \/ Return("file") /\ ~UpstreamFileOK /\ UNCHANGED <<built, conn, defers>>
        \/ Return("library") /\ UNCHANGED <<built, conn, defers>>
        \/ /\ UpstreamFileOK
           /\ built' = [built EXCEPT !.upstream = TransportCredentials,
                                      !.verify = ~cfg.skipVerify,
                                      !.key = cfg.upstreamAuth = "api-key"]
           /\ conn' = "open" /\ defers' = <<"conn">> \o defers /\ Proceed("cache")
    BY <1>2 DEF DialUpstream, UpstreamFileOK, TransportCredentials
  <1>4. ServingOK' /\ serve' = "none" /\ FailureOK'
    BY <1>1, <1>3, FilesOf, ProceedServing, ReturnServing DEF Starting
  <1>5. CASE (Return("file") \/ Return("library")) /\ UNCHANGED <<built, conn, defers>>
    <2>1. TypeOK' /\ DefersOK'
      BY <1>1, <1>5 DEF Inv, TypeOK, DefersOK, Holds, Return, Starting, serving, NothingLeftOpen
    <2>2. BuiltOK'
      BY <1>4, <1>5 DEF BuiltOK, Return, Starting
    <2> QED
      BY <1>4, <2>1, <2>2 DEF Inv
  <1>6. CASE /\ UpstreamFileOK
             /\ built' = [built EXCEPT !.upstream = TransportCredentials,
                                      !.verify = ~cfg.skipVerify,
                                      !.key = cfg.upstreamAuth = "api-key"]
             /\ conn' = "open" /\ defers' = <<"conn">> \o defers /\ Proceed("cache")
    <2>1. defers' = <<"conn">>
      BY <1>1, <1>6
    <2>2. TypeOK' /\ DefersOK'
      BY <1>1, <1>6, <2>1 DEF Inv, TypeOK, DefersOK, Holds, Proceed, Starting, serving,
         NothingLeftOpen
    <2>3. /\ built'.auth = built.auth /\ built'.upstream = TransportCredentials
          /\ built'.verify = ~cfg.skipVerify
          /\ built'.key = (cfg.upstreamAuth = "api-key")
      BY <1>6 DEF Inv, TypeOK, Nothing
    <2>4. AuthBuilt'
      BY <1>1, <2>3 DEF AuthBuilt, AuthFileOK
    <2>5. UpstreamBuilt'
      <3>1. UpstreamFileOK'
        BY <1>1, <1>6 DEF UpstreamFileOK
      <3>2. TransportCredentials = cfg.upstreamTLS
        BY <1>2 DEF TransportCredentials
      <3> QED
        BY <1>1, <2>3, <3>1, <3>2 DEF UpstreamBuilt
    <2>6. BuiltOK'
      BY <1>1, <1>4, <1>6, <2>4, <2>5 DEF BuiltOK, Proceed, Starting
    <2> QED
      BY <1>4, <2>2, <2>6 DEF Inv
  <1> QED
    BY <1>3, <1>5, <1>6

LEMMA NewLocalCacheInv ==
    ASSUME Inv, NewLocalCache
    PROVE  Inv'
  <1>1. /\ pc = "cache" /\ defers = <<"conn">> /\ defers' = <<"cache">> \o defers
        /\ UNCHANGED <<env, conn, armed, ctxDone, requested, serving>>
        /\ LoadErrors(env) = {} /\ LoadErrors(env)' = {} /\ cfg' = cfg
        /\ AuthBuilt /\ UpstreamBuilt
        /\ conn = "open" /\ cache' = "open" /\ armed = FALSE /\ Proceed("listen")
        /\ built' = [built EXCEPT !.store = "local"] /\ cfg.backend # "valkey"
    BY SameConfig DEF NewLocalCache, signals, Inv, BuiltOK, Starting, DefersOK, Holds
  <1>2. cfg.backend = "local"
    BY <1>1, Accepted
  <1>3. ServingOK' /\ serve' = "none" /\ FailureOK'
    BY <1>1, ProceedServing DEF Starting
  <1>4. defers' = <<"cache", "conn">>
    BY <1>1, Deferred
  <1>5. TypeOK' /\ DefersOK'
    BY <1>1, <1>4 DEF Inv, TypeOK, DefersOK, Holds, Proceed, Starting, serving, NothingLeftOpen
  <1>6. AuthBuilt' /\ UpstreamBuilt' /\ StoreBuilt'
    BY <1>1, <1>2 DEF Inv, TypeOK, Nothing, AuthBuilt, UpstreamBuilt, StoreBuilt, AuthFileOK,
       UpstreamFileOK, StoreFileOK
  <1>7. BuiltOK'
    BY <1>1, <1>3, <1>6 DEF BuiltOK, Proceed, Starting
  <1> QED
    BY <1>3, <1>5, <1>7 DEF Inv

LEMMA PrepareValkeyInv ==
    ASSUME Inv, PrepareValkey
    PROVE  Inv'
  <1>1. /\ pc = "cache" /\ cfg.backend = "valkey"
        /\ UNCHANGED <<env, conn, cache, defers, armed, ctxDone, requested, serving>>
        /\ LoadErrors(env) = {} /\ LoadErrors(env)' = {} /\ cfg' = cfg
        /\ AuthBuilt /\ UpstreamBuilt
        /\ built' = [built EXCEPT !.store = "valkey", !.storeTLS = ValkeyTLS]
    BY SameConfig DEF PrepareValkey, signals, Inv, BuiltOK, Starting
  <1>2. cfg.addrs # {} /\ cfg.ttl \in Int /\ cfg.ttl > 0 /\ cfg.valkeyTLS \in TLSModes
    BY <1>1, Accepted
  <1>3. cfg.addrs # {} /\ ~(cfg.ttl <= 0) /\ cfg.valkeyTLS \in {"plaintext", "tls"}
    BY <1>2 DEF TLSModes
  <1>4. \/ Proceed("connect") /\ StoreFileOK
        \/ Return("file") /\ ~StoreFileOK
    BY <1>1, <1>3 DEF PrepareValkey, ValkeyTLS, StoreFileOK
  <1>5. ServingOK' /\ serve' = "none" /\ FailureOK'
    BY <1>1, <1>4, FilesOf, ProceedServing, ReturnServing DEF Starting
  <1>6. TypeOK' /\ DefersOK'
    BY <1>1, <1>4 DEF Inv, TypeOK, DefersOK, Holds, Return, Proceed, Starting, serving,
       NothingLeftOpen
  <1>7. Proceed("connect") => AuthBuilt' /\ UpstreamBuilt' /\ StoreBuilt'
    BY <1>1, <1>3, <1>4 DEF Inv, TypeOK, Nothing, AuthBuilt, UpstreamBuilt, StoreBuilt, ValkeyTLS,
       AuthFileOK, UpstreamFileOK, StoreFileOK, Proceed, Return
  <1>8. BuiltOK'
    BY <1>1, <1>4, <1>5, <1>7 DEF BuiltOK, Return, Proceed, Starting
  <1> QED
    BY <1>5, <1>6, <1>8 DEF Inv

LEMMA ValkeyInv ==
    ASSUME Inv, ValkeyConnects \/ ConnectFails \/ PingAnswered \/ PingFails
    PROVE  Inv'
  <1>1. /\ pc \in {"connect", "ping"}
        /\ UNCHANGED <<env, built, conn, armed, ctxDone, requested, serving>>
        /\ LoadErrors(env) = {} /\ LoadErrors(env)' = {}
        /\ AuthBuilt' /\ UpstreamBuilt' /\ StoreBuilt'
    BY SameConfig, SameBuilt
       DEF ValkeyConnects, ConnectFails, PingAnswered, PingFails, signals, Inv, BuiltOK, Starting
  <1>2. /\ Proceed("ping") \/ Proceed("listen") \/ Return("network")
    BY DEF ValkeyConnects, ConnectFails, PingAnswered, PingFails
  <1>3. ServingOK' /\ serve' = "none" /\ FailureOK'
    BY <1>1, <1>2, ProceedServing, ReturnServing DEF Starting
  <1>4. TypeOK'
    BY <1>1, <1>2 DEF Inv, TypeOK, Return, Proceed, Starting, serving
  <1>5. DefersOK'
    <2>1. CASE PingAnswered
      <3>1. defers' = <<"cache", "conn">>
        BY <2>1, Deferred DEF PingAnswered, Inv, DefersOK, Holds
      <3> QED
        BY <1>1, <2>1, <3>1 DEF PingAnswered, Proceed, Inv, DefersOK, Holds, NothingLeftOpen
    <2>2. CASE ValkeyConnects
      BY <2>2 DEF ValkeyConnects, Inv, DefersOK, Holds, Proceed, Return, signals, NothingLeftOpen
    <2>3. CASE ConnectFails \/ PingFails
      BY <2>3
         DEF ConnectFails, PingFails, Inv, DefersOK, Holds, Return, signals, NothingLeftOpen
    <2> QED
      BY <2>1, <2>2, <2>3
  <1>6. BuiltOK'
    BY <1>1, <1>2, <1>3 DEF BuiltOK, Return, Proceed, Starting
  <1> QED
    BY <1>3, <1>4, <1>5, <1>6 DEF Inv

LEMMA ListenInv ==
    ASSUME Inv, Listen
    PROVE  Inv'
  <1>1. /\ pc = "listen"
        /\ UNCHANGED <<env, conn, cache, defers, armed, ctxDone, requested, serving>>
        /\ LoadErrors(env) = {} /\ LoadErrors(env)' = {} /\ cfg' = cfg
        /\ AuthBuilt /\ UpstreamBuilt /\ StoreBuilt
        /\ built' = [built EXCEPT !.listener = IF cfg.downstreamTLS = "tls" THEN "tls"
                                               ELSE "plaintext"]
    BY SameConfig DEF Listen, signals, Inv, BuiltOK, Starting
  <1>2. cfg.downstreamTLS \in {"plaintext", "tls"}
    BY <1>1, Accepted DEF TLSModes
  <1>3. \/ Proceed("notify") /\ ListenerFilesOK
        \/ Return("file") /\ ~ListenerFilesOK
        \/ Return("network")
    BY DEF Listen, ListenerFilesOK
  <1>4. ServingOK' /\ serve' = "none" /\ FailureOK'
    BY <1>1, <1>3, FilesOf, ProceedServing, ReturnServing DEF Starting
  <1>5. TypeOK' /\ DefersOK'
    BY <1>1, <1>3 DEF Inv, TypeOK, DefersOK, Holds, Return, Proceed, Starting, serving,
       NothingLeftOpen
  <1>6. Proceed("notify") => AuthBuilt' /\ UpstreamBuilt' /\ StoreBuilt' /\ ListenerBuilt'
    BY <1>1, <1>2, <1>3 DEF Inv, TypeOK, Nothing, AuthBuilt, UpstreamBuilt, StoreBuilt,
       ListenerBuilt, AuthFileOK, UpstreamFileOK, StoreFileOK, ListenerFilesOK, Proceed, Return
  <1>7. BuiltOK'
    BY <1>1, <1>3, <1>4, <1>6 DEF BuiltOK, Return, Proceed, Starting
  <1> QED
    BY <1>4, <1>5, <1>7 DEF Inv

LEMMA NotifyInv ==
    ASSUME Inv, Notify
    PROVE  Inv'
  <1>1. /\ pc = "notify" /\ pc' = "select" /\ serve' = "ready" /\ armed' = TRUE
        /\ UNCHANGED <<env, built, conn, cache, ctxDone, requested, serveErr, door, call, cut, why, status>>
        /\ LoadErrors(env)' = {}
        /\ AuthBuilt' /\ UpstreamBuilt' /\ StoreBuilt' /\ ListenerBuilt'
    BY SameConfig, SameBuilt DEF Notify, Proceed, Inv, BuiltOK, Starting
  <1>2. defers' = <<"stop", "cache", "conn">> /\ conn = "open" /\ cache = "open"
    BY Deferred DEF Notify, Inv, DefersOK, Holds
  <1>3. TypeOK' /\ DefersOK'
    BY <1>1, <1>2 DEF Inv, TypeOK, DefersOK, Holds, NothingLeftOpen
  <1>4. BuiltOK'
    BY <1>1, SameFiles DEF Inv, BuiltOK, FailureOK
  <1>5. ServingOK'
    BY <1>1 DEF Inv, ServingOK, Starting, Active, CallsKeepTheirResources
  <1> QED
    BY <1>3, <1>4, <1>5 DEF Inv
-----------------------------------------------------------------------------
\* Once the start is over nothing more is built.
LEMMA BuiltStays ==
    ASSUME Inv, UNCHANGED <<env, built>>, why' = why \/ why' \in {"signal", "serve"},
           serve' # "none" => serve # "none",
           \/ pc' = pc
           \/ pc = "select" /\ pc' = "graceful"
           \/ pc' \in {"unwind", "exited"}
    PROVE  BuiltOK'
  <1>1. /\ LoadErrors(env)' = LoadErrors(env)
        /\ AuthBuilt' = AuthBuilt /\ UpstreamBuilt' = UpstreamBuilt
        /\ StoreBuilt' = StoreBuilt /\ ListenerBuilt' = ListenerBuilt
        /\ FilesUsable' = FilesUsable
    BY SameConfig, SameBuilt, SameFiles
  <1> QED
    BY <1>1 DEF Inv, BuiltOK, Starting, FailureOK

\* Steps of the serving goroutine and of the door.
LEMMA ServeInv ==
    ASSUME Inv, ServeStarts \/ AcceptFails \/ ServeReturns \/ DoorCloses
    PROVE  Inv'
  <1>1. /\ UNCHANGED <<env, pc, built, conn, cache, defers, why, status, armed, ctxDone, requested, call, cut>>
        /\ pc # "exited"
    BY DEF ServeStarts, AcceptFails, ServeReturns, DoorCloses, signals
  <1>2. serve # "none" /\ serve' # "none"
    BY DEF ServeStarts, AcceptFails, ServeReturns, DoorCloses, Inv, ServingOK
  <1>3. TypeOK' /\ DefersOK'
    BY <1>1 DEF ServeStarts, AcceptFails, ServeReturns, DoorCloses, Inv, TypeOK, DefersOK, Holds,
       NothingLeftOpen
  <1>4. BuiltOK'
    BY <1>1, <1>2, BuiltStays
  <1>5. ServingOK'
    BY <1>1, <1>2 DEF ServeStarts, AcceptFails, ServeReturns, DoorCloses, Inv, TypeOK, ServingOK,
       Active, CallsKeepTheirResources
  <1> QED
    BY <1>3, <1>4, <1>5 DEF Inv

\* Active is empty once every call is idle.
LEMMA AllIdle ==
    ASSUME call' = [c \in Calls |-> "idle"]
    PROVE  Active' = {} /\ call' \in [Calls -> {"idle", "lookup", "upstream", "record"}]
  BY DEF Active

LEMMA SignalInv ==
    ASSUME Inv, Signal
    PROVE  Inv'
  <1>1. /\ UNCHANGED <<env, built, conn, cache, defers, why, armed, serve, serveErr, door>>
        /\ pc # "exited"
    BY DEF Signal
  <1>2. CASE armed
    <2>1. ctxDone' = TRUE /\ requested' = TRUE /\ UNCHANGED <<pc, status, call, cut>>
      BY <1>2 DEF Signal
    <2>2. TypeOK' /\ DefersOK'
      BY <1>1, <2>1 DEF Inv, TypeOK, DefersOK, Holds, NothingLeftOpen
    <2>3. BuiltOK'
      BY <1>1, <2>1, BuiltStays
    <2>4. ServingOK'
      BY <1>1, <2>1 DEF Inv, ServingOK, Active, CallsKeepTheirResources
    <2> QED
      BY <2>2, <2>3, <2>4 DEF Inv
  <1>3. CASE ~armed
    <2>1. /\ pc' = "exited" /\ status' = "killed" /\ UNCHANGED <<ctxDone, requested>>
          /\ call' = [c \in Calls |-> "idle"] /\ cut' = (cut \/ Active # {})
      BY <1>3 DEF Signal
    <2>2. Active' = {} /\ call' \in [Calls -> {"idle", "lookup", "upstream", "record"}]
      BY <2>1, AllIdle
    <2>3. TypeOK' /\ DefersOK'
      BY <1>1, <2>1, <2>2 DEF Inv, TypeOK, DefersOK, Holds, NothingLeftOpen
    <2>4. BuiltOK'
      BY <1>1, <2>1, BuiltStays
    <2>5. Active # {} => why = "serve"
      BY <1>1, <1>3 DEF Inv, TypeOK, ServingOK, Starting, DefersOK, Holds
    <2>6. ServingOK'
      BY <1>1, <2>1, <2>2, <2>5 DEF Inv, ServingOK, Starting, CallsKeepTheirResources
    <2> QED
      BY <2>3, <2>4, <2>6 DEF Inv
  <1> QED
    BY <1>2, <1>3

LEMMA SelectInv ==
    ASSUME Inv, SelectSignal \/ SelectServeErr \/ GracefulStopReturns
    PROVE  Inv'
  <1>1. /\ UNCHANGED <<env, built, conn, cache, defers, armed, ctxDone, requested, serve, call, cut>>
        /\ pc \in {"select", "graceful"}
    BY DEF SelectSignal, SelectServeErr, GracefulStopReturns, signals, serving
  <1>2. TypeOK' /\ DefersOK'
    BY <1>1 DEF SelectSignal, SelectServeErr, GracefulStopReturns, Proceed, serving, Inv, TypeOK,
       DefersOK, Holds, NothingLeftOpen
  <1>3. BuiltOK'
    BY <1>1, BuiltStays DEF SelectSignal, SelectServeErr, GracefulStopReturns, Proceed
  <1>4. ServingOK'
    <2>1. CASE SelectSignal
      BY <1>1, <2>1 DEF SelectSignal, Proceed, Inv, TypeOK, ServingOK, Starting, Active,
         CallsKeepTheirResources
    <2>2. CASE SelectServeErr
      BY <1>1, <2>2 DEF SelectServeErr, Inv, ServingOK, Starting, Active, CallsKeepTheirResources
    <2>3. CASE GracefulStopReturns
      BY <1>1, <2>3, NoneAssumption
         DEF GracefulStopReturns, serving, Inv, ServingOK, Starting, Active,
             CallsKeepTheirResources
    <2> QED
      BY <2>1, <2>2, <2>3
  <1> QED
    BY <1>2, <1>3, <1>4 DEF Inv

LEMMA RunDeferredInv ==
    ASSUME Inv, RunDeferred
    PROVE  Inv'
  <1>1. /\ pc = "unwind" /\ pc' = "unwind" /\ defers' = Tail(defers)
        /\ UNCHANGED <<env, built, why, status, requested, serve, serveErr, door, call, cut>>
    BY DEF RunDeferred, serving
  <1>2. armed' \in BOOLEAN /\ ctxDone' \in BOOLEAN
    BY Zenon DEF RunDeferred
  <1>3. TypeOK'
    BY <1>1, <1>2 DEF Inv, TypeOK
  <1>4. DefersOK'
    <2>1. CASE defers = <<"conn">>
      <3>1. defers' = <<>> /\ Head(defers) = "conn"
        BY <1>1, <2>1
      <3> QED
        BY <1>1, <2>1, <3>1 DEF RunDeferred, Inv, DefersOK, NothingLeftOpen
    <2>2. CASE defers = <<"cache", "conn">>
      <3>1. defers' = <<"conn">> /\ Head(defers) = "cache"
        BY <1>1, <2>2
      <3> QED
        BY <1>1, <2>2, <3>1 DEF RunDeferred, Inv, DefersOK, NothingLeftOpen
    <2>3. CASE defers = <<"stop", "cache", "conn">>
      <3>1. defers' = <<"cache", "conn">> /\ Head(defers) = "stop"
        BY <1>1, <2>3
      <3> QED
        BY <1>1, <2>3, <3>1 DEF RunDeferred, Inv, DefersOK, NothingLeftOpen
    <2> QED
      BY <1>1, <2>1, <2>2, <2>3 DEF RunDeferred, Inv, DefersOK
  <1>5. BuiltOK'
    BY <1>1, BuiltStays
  <1>6. ServingOK'
    BY <1>1, <1>2 DEF Inv, ServingOK, Starting, Active, CallsKeepTheirResources
  <1> QED
    BY <1>3, <1>4, <1>5, <1>6 DEF Inv

LEMMA ExitInv ==
    ASSUME Inv, Exit
    PROVE  Inv'
  <1>1. /\ pc = "unwind" /\ pc' = "exited" /\ defers = <<>>
        /\ UNCHANGED <<env, built, conn, cache, defers, why, status, armed, ctxDone, requested, serve,
                       serveErr, door>>
        /\ call' = [c \in Calls |-> "idle"] /\ cut' = (cut \/ Active # {})
    BY DEF Exit, signals
  <1>2. Active' = {} /\ call' \in [Calls -> {"idle", "lookup", "upstream", "record"}]
    BY <1>1, AllIdle
  <1>3. TypeOK' /\ DefersOK'
    BY <1>1, <1>2 DEF Inv, TypeOK, DefersOK, NothingLeftOpen
  <1>4. BuiltOK'
    BY <1>1, BuiltStays
  <1>5. ServingOK'
    BY <1>1, <1>2 DEF Inv, ServingOK, Starting, CallsKeepTheirResources
  <1> QED
    BY <1>3, <1>4, <1>5 DEF Inv

LEMMA CallArrivesInv ==
    ASSUME Inv, NEW c \in Calls, CallArrives(c)
    PROVE  Inv'
  <1>1. /\ pc # "exited" /\ door \in {"open", "closing"}
        /\ call' = [call EXCEPT ![c] = "lookup"]
        /\ UNCHANGED <<env, pc, built, conn, cache, defers, why, status, armed, ctxDone, requested, serve,
                       serveErr, door, cut>>
    BY DEF CallArrives, signals
  <1>2. TypeOK' /\ DefersOK'
    BY <1>1 DEF Inv, TypeOK, DefersOK, Holds, NothingLeftOpen
  <1>3. BuiltOK'
    BY <1>1, BuiltStays
  <1>4. ServingOK'
    BY <1>1 DEF Inv, ServingOK, CallsKeepTheirResources
  <1> QED
    BY <1>2, <1>3, <1>4 DEF Inv

(* While run() waits, every call finds what it needs; a call that does not   *)
(* is in flight while run() unwinds because Serve failed.                    *)
LEMMA CallStepsInv ==
    ASSUME Inv, NEW c \in Calls, CallSteps(c)
    PROVE  Inv'
  <1>1. /\ c \in Active /\ call[c] \in {"lookup", "upstream", "record"}
        /\ UNCHANGED <<env, pc, built, conn, cache, defers, why, status, armed, ctxDone, requested, serve,
                       serveErr, door>>
    BY DEF CallSteps, signals, Active, Inv, TypeOK
  <1>2. PICK next \in {"idle", "upstream", "record"} : call' = [call EXCEPT ![c] = next]
    BY <1>1 DEF CallSteps, AfterStep
  <1>3. Active' \subseteq Active
    BY <1>1, <1>2 DEF Active, Inv, TypeOK
  <1>4. cut' = cut \/ (cut' = TRUE /\ ~Usable(call[c]))
    BY DEF CallSteps
  <1>5. Usable(call[c]) \/ why = "serve"
    <2>1. pc \in {"select", "graceful"} => conn = "open" /\ cache = "open"
      BY DEF Inv, DefersOK, Holds
    <2>2. pc \in {"select", "graceful"} \/ why = "serve"
      BY <1>1 DEF Inv, TypeOK, ServingOK
    <2> QED
      BY <2>1, <2>2 DEF Usable, StoreUsable
  <1>6. TypeOK'
    BY <1>1, <1>2, <1>4 DEF Inv, TypeOK
  <1>7. DefersOK'
    BY <1>1 DEF Inv, DefersOK, Holds, NothingLeftOpen
  <1>8. BuiltOK'
    BY <1>1, BuiltStays
  <1>9. ServingOK'
    BY <1>1, <1>3, <1>4, <1>5 DEF Inv, ServingOK, CallsKeepTheirResources
  <1> QED
    BY <1>6, <1>7, <1>8, <1>9 DEF Inv

LEMMA StepInv == Inv /\ [Next]_vars => Inv'
  <1> SUFFICES ASSUME Inv, [Next]_vars PROVE Inv'
    OBVIOUS
  <1>1. CASE UNCHANGED vars
    <2>1. BuiltOK'
      BY <1>1, BuiltStays DEF vars
    <2> QED
      BY <1>1, <2>1 DEF vars, Inv, TypeOK, DefersOK, Holds, NothingLeftOpen, ServingOK, Active,
         CallsKeepTheirResources
  <1>2. CASE RunSteps
    BY <1>2, LoadConfigInv, BuildAuthenticatorInv, DialUpstreamInv, NewLocalCacheInv,
       PrepareValkeyInv, ValkeyInv, ListenInv, NotifyInv, SelectInv, RunDeferredInv, ExitInv
       DEF RunSteps
  <1>3. CASE ValkeyConnects \/ PingAnswered
    BY <1>3, ValkeyInv
  <1>4. CASE ServeStarts \/ AcceptFails \/ ServeReturns \/ Signal \/ DoorCloses
    BY <1>4, ServeInv, SignalInv
  <1>5. CASE \E c \in Calls : CallArrives(c) \/ CallSteps(c)
    BY <1>5, CallArrivesInv, CallStepsInv
  <1> QED
    BY <1>1, <1>2, <1>3, <1>4, <1>5 DEF Next, Over

(* The inductive invariant: at every step of run(), with any calls and       *)
(* signals beside it, what is open is deferred, what is built is configured. *)
THEOREM Invariance == Spec => []Inv
  BY InitInv, StepInv, PTL DEF Spec

(* StartFailsForCause: past Load, run() gives up for an unusable file of a   *)
(* mode in use, for a library or for the network, never for an argument that *)
(* validate should have refused.                                             *)
THEOREM StartFailures == Spec => []StartFailsForCause
  BY Invariance, InvImplies, PTL

(* ServesAsConfigured: no switch of run takes a mode for another one.        *)
THEOREM BuiltAsConfigured == Spec => []ServesAsConfigured
  BY Invariance, InvImplies, PTL

(* CallsKeepTheirResources: a requested stop never closes the store or the   *)
(* connection under a call.                                                  *)
THEOREM NoCallCut == Spec => []CallsKeepTheirResources
  BY Invariance, InvImplies, PTL

(* SuccessMeansStopped: exit status 0 is a stop for a signal that was caught, *)
(* after all calls; a failed listener never exits with 0.                    *)
THEOREM SuccessIsAStop == Spec => []SuccessMeansStopped
  BY Invariance, InvImplies, PTL

(* NothingLeftOpen: the deferred functions close what run() opened, on every *)
(* path out of it.                                                           *)
THEOREM AllClosed == Spec => []NothingLeftOpen
  BY Invariance, InvImplies, PTL
-----------------------------------------------------------------------------
(* FixedInTwoRounds is about Load alone.  For any environment e: a           *)
(* requirement that fails has its variables in the message, so one repair    *)
(* leaves at most what the demanding modes among the repaired ones require.  *)
(* None of that is a mode, so a second repair leaves nothing.                *)

LEMMA NamedUpstream ==
    ASSUME NEW e
    PROVE  LET c == Filled(e) IN
           /\ c.upstreamAuth \in {"none", "api-key"} \/ "UPSTREAM_AUTH_MODE" \in Named(e)
           /\ (c.upstreamAuth = "api-key" => c.apiKey # "") \/ "UPSTREAM_API_KEY" \in Named(e)
           /\ c.upstreamTLS \in TLSModes \/ "UPSTREAM_TLS_MODE" \in Named(e)
  <1> DEFINE c == Filled(e)
  <1>1. \A p \in ValidateUpstream(c) : \A v \in p : v \in Named(e)
    BY DEF Named, LoadErrors, Validate
  <1> QED
    BY <1>1 DEF ValidateUpstream, Require

LEMMA NamedDownstream ==
    ASSUME NEW e
    PROVE  LET c == Filled(e) IN
           /\ c.downstreamTLS \in TLSModes \/ "DOWNSTREAM_TLS_MODE" \in Named(e)
           /\ \/ c.downstreamTLS = "tls" => c.certFile # "" /\ c.keyFile # ""
              \/ {"DOWNSTREAM_TLS_CERT_FILE", "DOWNSTREAM_TLS_KEY_FILE"} \subseteq Named(e)
  <1> DEFINE c == Filled(e)
  <1>1. \A p \in ValidateDownstream(c) : \A v \in p : v \in Named(e)
    BY DEF Named, LoadErrors, Validate
  <1> HIDE DEF c
  <1>2. \/ c.downstreamTLS = "tls" => c.certFile # "" /\ c.keyFile # ""
        \/ {"DOWNSTREAM_TLS_CERT_FILE", "DOWNSTREAM_TLS_KEY_FILE"} \in ValidateDownstream(c)
    BY DEF ValidateDownstream, Require
  <1>3. \/ c.downstreamTLS \in TLSModes
        \/ {"DOWNSTREAM_TLS_MODE"} \in ValidateDownstream(c)
    BY DEF ValidateDownstream, Require
  <1>4. /\ c.downstreamTLS \in TLSModes \/ "DOWNSTREAM_TLS_MODE" \in Named(e)
        /\ \/ c.downstreamTLS = "tls" => c.certFile # "" /\ c.keyFile # ""
           \/ {"DOWNSTREAM_TLS_CERT_FILE", "DOWNSTREAM_TLS_KEY_FILE"} \subseteq Named(e)
    BY <1>1, <1>2, <1>3
  <1> QED
    BY <1>4 DEF c

LEMMA NamedWorkerAuth ==
    ASSUME NEW e
    PROVE  LET c == Filled(e) IN
           /\ c.staticAuthFile # "" \/ "STATIC_AUTH_FILE" \in Named(e)
           /\ (c.workerAuth = "jwt" => c.jwtAudience # "") \/ "JWT_AUDIENCE" \in Named(e)
           /\ c.workerAuth \in {"static", "jwt"} \/ "AUTH_MODE" \in Named(e)
  <1> DEFINE c == Filled(e)
  <1>1. \A p \in ValidateWorkerAuth(c) : \A v \in p : v \in Named(e)
    BY DEF Named, LoadErrors, Validate
  <1> QED
    BY <1>1 DEF ValidateWorkerAuth, Require

LEMMA NamedCache ==
    ASSUME NEW e
    PROVE  LET c == Filled(e) IN
           /\ c.ttl > 0 \/ "TOKEN_CACHE_TTL" \in Named(e)
           /\ c.maxSize > 0 \/ "TOKEN_CACHE_MAX_SIZE" \in Named(e)
           /\ (c.backend = "valkey" => c.addrs # {}) \/ "VALKEY_ADDRS" \in Named(e)
           /\ c.backend \in {"local", "valkey"} \/ "TOKEN_CACHE_BACKEND" \in Named(e)
           /\ c.valkeyTLS \in TLSModes \/ "VALKEY_TLS_MODE" \in Named(e)
           /\ c.dialTimeout > 0 \/ "VALKEY_DIAL_TIMEOUT" \in Named(e)
           /\ c.readTimeout > 0 \/ "VALKEY_READ_TIMEOUT" \in Named(e)
           /\ c.writeTimeout > 0 \/ "VALKEY_WRITE_TIMEOUT" \in Named(e)
  <1> DEFINE c == Filled(e)
  <1>1. \A p \in ValidateTokenCache(c) \cup ValidateValkey(c) : \A v \in p : v \in Named(e)
    BY DEF Named, LoadErrors, Validate
  <1> QED
    BY <1>1 DEF ValidateTokenCache, ValidateValkey, Require

LEMMA NamedUnparsed ==
    ASSUME NEW e
    PROVE  /\ \A v \in NumericVars : Parses(e, v, Numbers) \/ v \in Named(e)
           /\ \/ Parses(e, "UPSTREAM_TLS_SKIP_VERIFY", Booleans)
              \/ "UPSTREAM_TLS_SKIP_VERIFY" \in Named(e)
  <1>1. ASSUME NEW v \in NumericVars, ~Parses(e, v, Numbers)
        PROVE  v \in Named(e)
    <2>1. {v} \in Require(Parses(e, v, Numbers), {v})
      BY <1>1 DEF Require
    <2>2. {v} \in LoadErrors(e)
      BY <2>1 DEF LoadErrors, ParseErrors
    <2> QED
      BY <2>2 DEF Named
  <1>2. \/ Parses(e, "UPSTREAM_TLS_SKIP_VERIFY", Booleans)
        \/ "UPSTREAM_TLS_SKIP_VERIFY" \in Named(e)
    BY DEF Named, LoadErrors, ParseErrors, Require
  <1> QED
    BY <1>1, <1>2

\* What a variable is set to, by what it is for.
LEMMA RepairedText ==
    ASSUME NEW D \in SUBSET DOMAIN Demanding
    PROVE  /\ \A v \in NumericVars : Repaired(v, D) = "two"
           /\ Repaired("UPSTREAM_AUTH_MODE", D) =
                 IF "UPSTREAM_AUTH_MODE" \in D THEN "api-key" ELSE "none"
           /\ Repaired("AUTH_MODE", D) = IF "AUTH_MODE" \in D THEN "jwt" ELSE "static"
           /\ Repaired("TOKEN_CACHE_BACKEND", D) =
                 IF "TOKEN_CACHE_BACKEND" \in D THEN "valkey" ELSE "local"
           /\ Repaired("DOWNSTREAM_TLS_MODE", D) =
                 IF "DOWNSTREAM_TLS_MODE" \in D THEN "tls" ELSE "plaintext"
           /\ Repaired("UPSTREAM_TLS_SKIP_VERIFY", D) = "false"
           /\ Repaired("UPSTREAM_TLS_MODE", D) = "plaintext"
           /\ Repaired("VALKEY_TLS_MODE", D) = "plaintext"
           /\ \A v \in {"UPSTREAM_API_KEY", "DOWNSTREAM_TLS_CERT_FILE", "DOWNSTREAM_TLS_KEY_FILE",
                        "STATIC_AUTH_FILE", "KO_DATA_PATH", "JWT_AUDIENCE", "VALKEY_ADDRS"} :
                 Repaired(v, D) = "something"
  <1>1. D \subseteq {"UPSTREAM_AUTH_MODE", "DOWNSTREAM_TLS_MODE", "AUTH_MODE", "TOKEN_CACHE_BACKEND"}
    BY DEF Demanding
  <1>2. ASSUME NEW v \in NumericVars
        PROVE  Repaired(v, D) = "two"
    <2>1. v \notin D
      BY <1>1 DEF NumericVars
    <2>2. v \notin {"UPSTREAM_AUTH_MODE", "AUTH_MODE", "TOKEN_CACHE_BACKEND",
                    "UPSTREAM_TLS_SKIP_VERIFY", "UPSTREAM_TLS_MODE", "DOWNSTREAM_TLS_MODE",
                    "VALKEY_TLS_MODE"}
      BY DEF NumericVars
    <2> QED
      BY <2>1, <2>2 DEF Repaired
  <1>3. /\ Repaired("UPSTREAM_AUTH_MODE", D) =
               IF "UPSTREAM_AUTH_MODE" \in D THEN "api-key" ELSE "none"
        /\ Repaired("AUTH_MODE", D) = IF "AUTH_MODE" \in D THEN "jwt" ELSE "static"
    BY DEF Repaired, NumericVars, Demanding
  <1>4. /\ Repaired("TOKEN_CACHE_BACKEND", D) =
               IF "TOKEN_CACHE_BACKEND" \in D THEN "valkey" ELSE "local"
        /\ Repaired("DOWNSTREAM_TLS_MODE", D) =
               IF "DOWNSTREAM_TLS_MODE" \in D THEN "tls" ELSE "plaintext"
    BY DEF Repaired, NumericVars, Demanding
  <1>5. /\ Repaired("UPSTREAM_TLS_SKIP_VERIFY", D) = "false"
        /\ Repaired("UPSTREAM_TLS_MODE", D) = "plaintext"
        /\ Repaired("VALKEY_TLS_MODE", D) = "plaintext"
    BY <1>1 DEF Repaired, NumericVars
  <1>6. ASSUME NEW v \in {"UPSTREAM_API_KEY", "DOWNSTREAM_TLS_CERT_FILE",
                          "DOWNSTREAM_TLS_KEY_FILE", "STATIC_AUTH_FILE", "KO_DATA_PATH",
                          "JWT_AUDIENCE", "VALKEY_ADDRS"}
        PROVE  Repaired(v, D) = "something"
    BY <1>1 DEF Repaired, NumericVars
  <1> QED
    BY <1>2, <1>3, <1>4, <1>5, <1>6

\* A variable that was read as text, after a repair.
LEMMA FixedGet ==
    ASSUME NEW e, DOMAIN e = EnvVars, NEW D, NEW v \in EnvVars, NEW def, Repaired(v, D) # Unset
    PROVE  /\ Repair(e, D)[v] = IF v \in Named(e) THEN Repaired(v, D) ELSE e[v]
           /\ GetEnv(Repair(e, D), v, def) =
                 IF v \in Named(e) THEN Repaired(v, D) ELSE GetEnv(e, v, def)
           /\ Getenv(Repair(e, D), v) = IF v \in Named(e) THEN Repaired(v, D) ELSE Getenv(e, v)
  <1>1. Repair(e, D)[v] = IF v \in Named(e) THEN Repaired(v, D) ELSE e[v]
    BY DEF Repair
  <1> QED
    BY <1>1 DEF GetEnv, Getenv

\* A variable that was read as a number.
LEMMA FixedNumber ==
    ASSUME NEW e, DOMAIN e = EnvVars, NEW D \in SUBSET DOMAIN Demanding, NEW v \in NumericVars
    PROVE  /\ Parsed(Repair(e, D), v, Numbers, 2, 0) =
                 IF v \in Named(e) THEN 2 ELSE Parsed(e, v, Numbers, 2, 0)
           /\ Parses(Repair(e, D), v, Numbers)
  <1> DEFINE x == Repair(e, D)
  <1>1. x[v] = IF v \in Named(e) THEN "two" ELSE e[v]
    BY FixedGet, RepairedText, UnsetAssumption DEF EnvVars
  <1>2. "two" \in DOMAIN Numbers /\ Numbers["two"] = 2 /\ "two" # Unset
    BY UnsetAssumption DEF Numbers
  <1> HIDE DEF x
  <1>3. Parsed(x, v, Numbers, 2, 0) = IF v \in Named(e) THEN 2 ELSE Parsed(e, v, Numbers, 2, 0)
    BY <1>1, <1>2 DEF Parsed
  <1>4. Parses(x, v, Numbers)
    BY <1>1, <1>2, NamedUnparsed DEF Parses
  <1> QED
    BY <1>3, <1>4 DEF x

LEMMA FixedParses ==
    ASSUME NEW e, DOMAIN e = EnvVars, NEW D \in SUBSET DOMAIN Demanding
    PROVE  ParseErrors(Repair(e, D)) = {}
  <1> DEFINE x == Repair(e, D)
  <1>1. Parses(x, "UPSTREAM_TLS_SKIP_VERIFY", Booleans)
    <2>1. x["UPSTREAM_TLS_SKIP_VERIFY"] =
             IF "UPSTREAM_TLS_SKIP_VERIFY" \in Named(e) THEN "false"
             ELSE e["UPSTREAM_TLS_SKIP_VERIFY"]
      BY FixedGet, RepairedText, UnsetAssumption DEF EnvVars
    <2>2. "false" \in DOMAIN Booleans
      BY DEF Booleans
    <2> HIDE DEF x
    <2> QED
      BY <2>1, <2>2, NamedUnparsed DEF Parses
  <1>2. \A v \in NumericVars : Require(Parses(x, v, Numbers), {v}) = {}
    BY FixedNumber DEF Require
  <1>3. Require(Parses(x, "UPSTREAM_TLS_SKIP_VERIFY", Booleans), {"UPSTREAM_TLS_SKIP_VERIFY"}) = {}
    BY <1>1 DEF Require
  <1> HIDE DEF x
  <1>4. ParseErrors(x) = {}
    BY <1>2, <1>3 DEF ParseErrors
  <1> QED
    BY <1>4 DEF x

\* What the demanding modes of a repair require.
Asks(e, D) == {Required[m] : m \in D \cap Named(e)}

LEMMA AsksFor ==
    ASSUME NEW e, NEW D \in SUBSET DOMAIN Demanding
    PROVE  /\ "UPSTREAM_AUTH_MODE" \in D \cap Named(e) => {"UPSTREAM_API_KEY"} \in Asks(e, D)
           /\ "DOWNSTREAM_TLS_MODE" \in D \cap Named(e) =>
                 {"DOWNSTREAM_TLS_CERT_FILE", "DOWNSTREAM_TLS_KEY_FILE"} \in Asks(e, D)
           /\ "AUTH_MODE" \in D \cap Named(e) => {"JWT_AUDIENCE"} \in Asks(e, D)
           /\ "TOKEN_CACHE_BACKEND" \in D \cap Named(e) => {"VALKEY_ADDRS"} \in Asks(e, D)
  <1>1. /\ Required["UPSTREAM_AUTH_MODE"] = {"UPSTREAM_API_KEY"}
        /\ Required["DOWNSTREAM_TLS_MODE"] =
              {"DOWNSTREAM_TLS_CERT_FILE", "DOWNSTREAM_TLS_KEY_FILE"}
        /\ Required["AUTH_MODE"] = {"JWT_AUDIENCE"}
        /\ Required["TOKEN_CACHE_BACKEND"] = {"VALKEY_ADDRS"}
    BY DEF Required
  <1> QED
    BY <1>1 DEF Asks

LEMMA FixedUpstream ==
    ASSUME NEW e, DOMAIN e = EnvVars, NEW D \in SUBSET DOMAIN Demanding
    PROVE  ValidateUpstream(Filled(Repair(e, D))) \subseteq Asks(e, D)
  <1> DEFINE c == Filled(e)
             d == Filled(Repair(e, D))
  <1>1. /\ d.upstreamAuth =
               IF "UPSTREAM_AUTH_MODE" \in Named(e)
               THEN IF "UPSTREAM_AUTH_MODE" \in D THEN "api-key" ELSE "none"
               ELSE c.upstreamAuth
        /\ d.apiKey = IF "UPSTREAM_API_KEY" \in Named(e) THEN "something" ELSE c.apiKey
        /\ d.upstreamTLS = IF "UPSTREAM_TLS_MODE" \in Named(e) THEN "plaintext" ELSE c.upstreamTLS
    BY FixedGet, RepairedText, UnsetAssumption DEF Filled, EnvVars
  <1>2. /\ c.upstreamAuth \in {"none", "api-key"} \/ "UPSTREAM_AUTH_MODE" \in Named(e)
        /\ (c.upstreamAuth = "api-key" => c.apiKey # "") \/ "UPSTREAM_API_KEY" \in Named(e)
        /\ c.upstreamTLS \in TLSModes \/ "UPSTREAM_TLS_MODE" \in Named(e)
    BY NamedUpstream
  <1> HIDE DEF c, d
  <1>3. /\ d.upstreamAuth \in {"none", "api-key"}
        /\ \/ d.upstreamAuth = "api-key" => d.apiKey # ""
           \/ "UPSTREAM_AUTH_MODE" \in D \cap Named(e)
        /\ d.upstreamTLS \in TLSModes
    BY <1>1, <1>2 DEF TLSModes
  <1>4. ValidateUpstream(d) \subseteq Asks(e, D)
    <2>1. ValidateUpstream(d) =
             Require(d.upstreamAuth = "api-key" => d.apiKey # "", {"UPSTREAM_API_KEY"})
      BY <1>3 DEF ValidateUpstream, Require
    <2>2. CASE d.upstreamAuth = "api-key" => d.apiKey # ""
      BY <2>1, <2>2 DEF Require
    <2>3. CASE ~(d.upstreamAuth = "api-key" => d.apiKey # "")
      <3>1. {"UPSTREAM_API_KEY"} \in Asks(e, D)
        BY <1>3, <2>3, AsksFor
      <3> QED
        BY <2>1, <2>3, <3>1 DEF Require
    <2> QED
      BY <2>2, <2>3
  <1> QED
    BY <1>4 DEF d

LEMMA FixedDownstream ==
    ASSUME NEW e, DOMAIN e = EnvVars, NEW D \in SUBSET DOMAIN Demanding
    PROVE  ValidateDownstream(Filled(Repair(e, D))) \subseteq Asks(e, D)
  <1> DEFINE c == Filled(e)
             d == Filled(Repair(e, D))
  <1>1. /\ d.downstreamTLS =
               IF "DOWNSTREAM_TLS_MODE" \in Named(e)
               THEN IF "DOWNSTREAM_TLS_MODE" \in D THEN "tls" ELSE "plaintext"
               ELSE c.downstreamTLS
        /\ d.certFile = IF "DOWNSTREAM_TLS_CERT_FILE" \in Named(e) THEN "something" ELSE c.certFile
        /\ d.keyFile = IF "DOWNSTREAM_TLS_KEY_FILE" \in Named(e) THEN "something" ELSE c.keyFile
    BY FixedGet, RepairedText, UnsetAssumption DEF Filled, EnvVars
  <1>2. /\ c.downstreamTLS \in TLSModes \/ "DOWNSTREAM_TLS_MODE" \in Named(e)
        /\ \/ c.downstreamTLS = "tls" => c.certFile # "" /\ c.keyFile # ""
           \/ {"DOWNSTREAM_TLS_CERT_FILE", "DOWNSTREAM_TLS_KEY_FILE"} \subseteq Named(e)
    BY NamedDownstream
  <1> HIDE DEF c, d
  <1>3. /\ d.downstreamTLS \in TLSModes
        /\ \/ d.downstreamTLS = "tls" => d.certFile # "" /\ d.keyFile # ""
           \/ "DOWNSTREAM_TLS_MODE" \in D \cap Named(e)
    BY <1>1, <1>2 DEF TLSModes
  <1>4. ValidateDownstream(d) \subseteq Asks(e, D)
    BY <1>3, AsksFor DEF ValidateDownstream, Require
  <1> QED
    BY <1>4 DEF d

LEMMA FixedWorkerAuth ==
    ASSUME NEW e, DOMAIN e = EnvVars, NEW D \in SUBSET DOMAIN Demanding
    PROVE  ValidateWorkerAuth(Filled(Repair(e, D))) \subseteq Asks(e, D)
  <1> DEFINE c == Filled(e)
             x == Repair(e, D)
             d == Filled(x)
  <1>1. /\ d.workerAuth =
               IF "AUTH_MODE" \in Named(e)
               THEN IF "AUTH_MODE" \in D THEN "jwt" ELSE "static"
               ELSE c.workerAuth
        /\ d.jwtAudience = IF "JWT_AUDIENCE" \in Named(e) THEN "something" ELSE c.jwtAudience
    BY FixedGet, RepairedText, UnsetAssumption DEF Filled, EnvVars
  <1>2. /\ c.staticAuthFile # "" \/ "STATIC_AUTH_FILE" \in Named(e)
        /\ (c.workerAuth = "jwt" => c.jwtAudience # "") \/ "JWT_AUDIENCE" \in Named(e)
        /\ c.workerAuth \in {"static", "jwt"} \/ "AUTH_MODE" \in Named(e)
    BY NamedWorkerAuth
  <1>3. d.staticAuthFile # ""
    <2>1. d.staticAuthFile = GetEnv(x, "STATIC_AUTH_FILE", DefaultStaticAuthFile(x))
      BY DEF Filled
    <2>2. c.staticAuthFile = GetEnv(e, "STATIC_AUTH_FILE", DefaultStaticAuthFile(e))
      BY DEF Filled
    <2>3. DefaultStaticAuthFile(e) # "" => DefaultStaticAuthFile(x) # ""
      <3>1. Getenv(x, "KO_DATA_PATH") = IF "KO_DATA_PATH" \in Named(e) THEN "something"
                                        ELSE Getenv(e, "KO_DATA_PATH")
        BY FixedGet, RepairedText, UnsetAssumption DEF EnvVars
      <3> HIDE DEF x
      <3> QED
        BY <3>1 DEF DefaultStaticAuthFile
    <2>4. x["STATIC_AUTH_FILE"] = IF "STATIC_AUTH_FILE" \in Named(e) THEN "something"
                                  ELSE e["STATIC_AUTH_FILE"]
      BY FixedGet, RepairedText, UnsetAssumption DEF EnvVars
    <2> HIDE DEF c, d, x
    <2> QED
      BY <1>2, <2>1, <2>2, <2>3, <2>4, UnsetAssumption DEF GetEnv
  <1> HIDE DEF c, d
  <1>4. /\ d.workerAuth \in {"static", "jwt"}
        /\ \/ d.workerAuth = "jwt" => d.jwtAudience # ""
           \/ "AUTH_MODE" \in D \cap Named(e)
    BY <1>1, <1>2
  <1>5. ValidateWorkerAuth(d) \subseteq Asks(e, D)
    <2>1. ValidateWorkerAuth(d) =
             Require(d.workerAuth = "jwt" => d.jwtAudience # "", {"JWT_AUDIENCE"})
      BY <1>3, <1>4 DEF ValidateWorkerAuth, Require
    <2>2. CASE d.workerAuth = "jwt" => d.jwtAudience # ""
      BY <2>1, <2>2 DEF Require
    <2>3. CASE ~(d.workerAuth = "jwt" => d.jwtAudience # "")
      <3>1. {"JWT_AUDIENCE"} \in Asks(e, D)
        BY <1>4, <2>3, AsksFor
      <3> QED
        BY <2>1, <2>3, <3>1 DEF Require
    <2> QED
      BY <2>2, <2>3
  <1> QED
    BY <1>5 DEF d

LEMMA FixedCache ==
    ASSUME NEW e, DOMAIN e = EnvVars, NEW D \in SUBSET DOMAIN Demanding
    PROVE  /\ ValidateTokenCache(Filled(Repair(e, D))) \subseteq Asks(e, D)
           /\ ValidateValkey(Filled(Repair(e, D))) = {}
  <1> DEFINE c == Filled(e)
             x == Repair(e, D)
             d == Filled(x)
  <1>1. /\ d.ttl = IF "TOKEN_CACHE_TTL" \in Named(e) THEN 2 ELSE c.ttl
        /\ d.maxSize = IF "TOKEN_CACHE_MAX_SIZE" \in Named(e) THEN 2 ELSE c.maxSize
        /\ d.dialTimeout = IF "VALKEY_DIAL_TIMEOUT" \in Named(e) THEN 2 ELSE c.dialTimeout
        /\ d.readTimeout = IF "VALKEY_READ_TIMEOUT" \in Named(e) THEN 2 ELSE c.readTimeout
        /\ d.writeTimeout = IF "VALKEY_WRITE_TIMEOUT" \in Named(e) THEN 2 ELSE c.writeTimeout
    BY FixedNumber DEF Filled, NumericVars
  <1>2. /\ d.backend =
               IF "TOKEN_CACHE_BACKEND" \in Named(e)
               THEN IF "TOKEN_CACHE_BACKEND" \in D THEN "valkey" ELSE "local"
               ELSE c.backend
        /\ d.valkeyTLS = IF "VALKEY_TLS_MODE" \in Named(e) THEN "plaintext" ELSE c.valkeyTLS
    BY FixedGet, RepairedText, UnsetAssumption DEF Filled, EnvVars
  <1>3. c.addrs # {} \/ "VALKEY_ADDRS" \in Named(e) => d.addrs # {}
    <2>1. x["VALKEY_ADDRS"] = IF "VALKEY_ADDRS" \in Named(e) THEN "something"
                              ELSE e["VALKEY_ADDRS"]
      BY FixedGet, RepairedText, UnsetAssumption DEF EnvVars
    <2>2. d.addrs = GetEnvList(x, "VALKEY_ADDRS") /\ c.addrs = GetEnvList(e, "VALKEY_ADDRS")
      BY DEF Filled
    <2> HIDE DEF c, d, x
    <2> QED
      BY <2>1, <2>2, UnsetAssumption DEF GetEnvList, BlankLists
  <1>4. /\ c.ttl > 0 \/ "TOKEN_CACHE_TTL" \in Named(e)
        /\ c.maxSize > 0 \/ "TOKEN_CACHE_MAX_SIZE" \in Named(e)
        /\ (c.backend = "valkey" => c.addrs # {}) \/ "VALKEY_ADDRS" \in Named(e)
        /\ c.backend \in {"local", "valkey"} \/ "TOKEN_CACHE_BACKEND" \in Named(e)
        /\ c.valkeyTLS \in TLSModes \/ "VALKEY_TLS_MODE" \in Named(e)
        /\ c.dialTimeout > 0 \/ "VALKEY_DIAL_TIMEOUT" \in Named(e)
        /\ c.readTimeout > 0 \/ "VALKEY_READ_TIMEOUT" \in Named(e)
        /\ c.writeTimeout > 0 \/ "VALKEY_WRITE_TIMEOUT" \in Named(e)
    BY NamedCache
  <1> HIDE DEF c, d
  <1>5. /\ d.ttl > 0 /\ d.maxSize > 0 /\ d.backend \in {"local", "valkey"}
        /\ \/ d.backend = "valkey" => d.addrs # {}
           \/ "TOKEN_CACHE_BACKEND" \in D \cap Named(e)
    BY <1>1, <1>2, <1>3, <1>4
  <1>6. ValidateTokenCache(d) \subseteq Asks(e, D)
    BY <1>5, AsksFor DEF ValidateTokenCache, Require
  <1>7. ValidateValkey(d) = {}
    BY <1>1, <1>2, <1>4 DEF ValidateValkey, Require, TLSModes
  <1> QED
    BY <1>6, <1>7 DEF d

\* One round leaves at most what the demanding modes among the repaired ones require.
LEMMA OneRound ==
    ASSUME NEW e, DOMAIN e = EnvVars, NEW D \in SUBSET DOMAIN Demanding
    PROVE  LoadErrors(Repair(e, D)) \subseteq Asks(e, D)
  BY FixedParses, FixedUpstream, FixedDownstream, FixedWorkerAuth, FixedCache
     DEF LoadErrors, Validate

LEMMA Repairable ==
    ASSUME env \in Envs
    PROVE  FixedInTwoRounds
  <1> SUFFICES ASSUME NEW D \in SUBSET (DOMAIN Demanding \cap Named(env))
               PROVE  /\ LoadErrors(Repair(env, D)) \subseteq {Required[m] : m \in D}
                      /\ LoadErrors(Repair(Repair(env, D), D)) = {}
    BY DEF FixedInTwoRounds
  <1> DEFINE once == Repair(env, D)
  <1>1. DOMAIN env = EnvVars
    BY EnvsAssumption
  <1>2. DOMAIN once = EnvVars
    BY <1>1 DEF Repair
  <1>3. D \in SUBSET DOMAIN Demanding
    OBVIOUS
  <1>4. LoadErrors(once) \subseteq {Required[m] : m \in D}
    BY <1>1, <1>3, OneRound DEF Asks
  <1> HIDE DEF once
  <1>5. \A m \in DOMAIN Demanding : Required[m] \cap DOMAIN Demanding = {}
    BY DEF Demanding, Required
  <1>6. D \cap Named(once) = {}
    BY <1>3, <1>4, <1>5 DEF Named
  <1>7. Asks(once, D) = {}
    BY <1>6 DEF Asks
  <1>8. LoadErrors(Repair(once, D)) = {}
    BY <1>2, <1>3, <1>7, OneRound
  <1> QED
    BY <1>4, <1>8 DEF once

\* Nothing changes the environment.
LEMMA EnvStays == [Next]_vars => UNCHANGED env
  BY DEF Next, vars, RunSteps, LoadConfig, BuildAuthenticator, DialUpstream, NewLocalCache,
     PrepareValkey, ValkeyConnects, ConnectFails, PingAnswered, PingFails, Listen, Notify,
     ServeStarts, AcceptFails, ServeReturns, Signal, SelectSignal, DoorCloses,
     GracefulStopReturns, SelectServeErr, RunDeferred, Exit, CallArrives, CallSteps, Over

(* FixedInTwoRounds: after the first round of setting right what the message *)
(* of a refused start names, only what mistyped modes require can be left,   *)
(* and after the second nothing, whatever was wrong with the environment.    *)
THEOREM TwoRounds == Spec => []FixedInTwoRounds
  <1>1. Init => env \in Envs
    BY DEF Init
  <1>2. env \in Envs /\ [Next]_vars => (env \in Envs)'
    BY EnvStays
  <1> QED
    BY <1>1, <1>2, Repairable, PTL DEF Spec
=============================================================================
