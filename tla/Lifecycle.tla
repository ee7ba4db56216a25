----------------------------- MODULE Lifecycle ------------------------------
(***************************************************************************)
(* cmd/temporal-proxy/main.go with internal/upstream's Dial: one process    *)
(* from its start to its exit.                                              *)
(*                                                                         *)
(* run() is one goroutine; the goroutine that serves, the calls in flight   *)
(* and the signals of the operating system run beside it.  A call uses the  *)
(* token store, the upstream connection, and the store again, which run()   *)
(* closes when it returns.                                                  *)
(*                                                                         *)
(* From grpc-go (external): Serve returns when accepting fails, while open  *)
(* connections go on; GracefulStop lets clients know, accepts their calls   *)
(* until they have heard, and waits for every call.                         *)
(***************************************************************************)
EXTENDS Config, Sequences

CONSTANTS Envs,   \* environments to start in
          Disk,   \* files: a function from paths to contents
          Calls,  \* bound: calls in flight at once
          None

ASSUME EnvsAssumption == \A e \in Envs : DOMAIN e = EnvVars

\* None is no text.
ASSUME NoneAssumption ==
    None \notin {"config", "argument", "file", "library", "network", "serve", "signal",
                 "success", "failure", "killed"}

A == INSTANCE Auth WITH Empty <- ""

VARIABLES
    env,
    pc,        \* where run() is
    built,     \* what run() chose to build, see Nothing
    conn,      \* the upstream connection
    cache,     \* the token store
    defers,    \* run()'s deferred functions, last one first
    why,       \* why run() returns
    status,    \* how the process ends
    armed,     \* NotifyContext catches signals
    ctxDone,   \* the signal context is done
    serve,     \* the serving goroutine
    serveErr,  \* its channel
    door,      \* whether calls are let in
    call,      \* call[c]: what the call in slot c does next
    cut,       \* history: some call lost what it was using
    requested  \* history: a signal was caught

vars == <<env, pc, built, conn, cache, defers, why, status, armed, ctxDone,
          serve, serveErr, door, call, cut, requested>>
-----------------------------------------------------------------------------
Resource == {"none", "open", "closed"}
Nothing  == [auth |-> None, upstream |-> None, verify |-> None, key |-> None, store |-> None,
             storeTLS |-> None, listener |-> None]

Init ==
    /\ env \in Envs
    /\ pc = "load"
    /\ built = Nothing
    /\ conn = "none" /\ cache = "none"
    /\ defers = <<>>
    /\ why = None /\ status = None
    /\ armed = FALSE /\ ctxDone = FALSE
    /\ serve = "none" /\ serveErr = "empty"
    /\ door = "shut"
    /\ call = [c \in Calls |-> "idle"]
    /\ cut = FALSE
    /\ requested = FALSE

cfg == Filled(env)

Active == {c \in Calls : call[c] # "idle"}

serving == <<serve, serveErr, door, call, cut>>
signals == <<armed, ctxDone, requested>>

\* run() goes on to the next step.
Proceed(next) == pc' = next /\ UNCHANGED <<why, status>>

\* run() returns an error; what is left are its deferred functions.
Return(reason) == pc' = "unwind" /\ why' = reason /\ status' = "failure"

\* A file that holds certificates.
HasCertificates(path) == path \in DOMAIN Disk /\ Disk[path].pem

\* loadAuthFile and buildIdentities accept the file.
AuthFileLoads(path, section) ==
    path \in DOMAIN Disk /\ Disk[path].json /\ A!SectionLoads(Disk[path][section])
-----------------------------------------------------------------------------
\* config.Load.
LoadConfig ==
    /\ pc = "load"
    /\ IF LoadErrors(env) = {} THEN Proceed("authenticator") ELSE Return("config")
    /\ UNCHANGED <<env, built, conn, cache, defers, signals, serving>>

(* NewJWTAuthenticatorFromFile, whose idtoken.NewValidator may fail, or, by   *)
(* default, NewStaticAuthenticatorFromFile.                                  *)
BuildAuthenticator ==
    /\ pc = "authenticator"
    /\ IF cfg.workerAuth = "jwt"
       THEN /\ built' = [built EXCEPT !.auth = "jwt"]
            /\ CASE cfg.jwtAudience = "" -> Return("argument")
                 [] cfg.jwtAudience # "" /\ ~AuthFileLoads(cfg.staticAuthFile, "emails") -> Return("file")
                 [] OTHER -> Proceed("dial") \/ Return("library")
       ELSE /\ built' = [built EXCEPT !.auth = "static"]
            /\ IF AuthFileLoads(cfg.staticAuthFile, "keys") THEN Proceed("dial") ELSE Return("file")
    /\ UNCHANGED <<env, conn, cache, defers, signals, serving>>

\* transportCredentials: everything but plaintext is TLS.
TransportCredentials == IF cfg.upstreamTLS = "plaintext" THEN "plaintext" ELSE "tls"

(* upstream.Dial and defer upstreamConn.Close.  grpc.NewClient does not       *)
(* connect yet, but refuses an address it cannot parse, which Load lets by.  *)
DialUpstream ==
    /\ pc = "dial"
    /\ IF TransportCredentials = "tls" /\ cfg.upstreamCA # "" /\ ~HasCertificates(cfg.upstreamCA)
       THEN Return("file") /\ UNCHANGED <<built, conn, defers>>
       ELSE \/ Return("library") /\ UNCHANGED <<built, conn, defers>>
            \/ /\ built' = [built EXCEPT !.upstream = TransportCredentials,
                                         !.verify = ~cfg.skipVerify,
                                         !.key = cfg.upstreamAuth = "api-key"]
               /\ conn' = "open"
               /\ defers' = <<"conn">> \o defers
               /\ Proceed("cache")
    /\ UNCHANGED <<env, cache, signals, serving>>

\* buildTokenCache's default: tokencache.New, and defer cache.Close.
NewLocalCache ==
    /\ pc = "cache" /\ cfg.backend # "valkey"
    /\ built' = [built EXCEPT !.store = "local"]
    /\ cache' = "open"
    /\ defers' = <<"cache">> \o defers
    /\ Proceed("listen")
    /\ UNCHANGED <<env, conn, signals, serving>>

\* valkeyTLSConfig: everything but plaintext is TLS.
ValkeyTLS == IF cfg.valkeyTLS = "plaintext" THEN "plaintext" ELSE "tls"

\* valkeyTLSConfig and what newValkeyGoClient asks of its options.
PrepareValkey ==
    /\ pc = "cache" /\ cfg.backend = "valkey"
    /\ built' = [built EXCEPT !.store = "valkey", !.storeTLS = ValkeyTLS]
    /\ CASE ValkeyTLS = "tls" /\ cfg.valkeyCA # "" /\ ~HasCertificates(cfg.valkeyCA) -> Return("file")
         [] ~(ValkeyTLS = "tls" /\ cfg.valkeyCA # "" /\ ~HasCertificates(cfg.valkeyCA))
            /\ (cfg.addrs = {} \/ cfg.ttl <= 0) -> Return("argument")
         [] OTHER -> Proceed("connect")
    /\ UNCHANGED <<env, conn, cache, defers, signals, serving>>

\* valkey.NewClient connects.
ValkeyConnects ==
    /\ pc = "connect"
    /\ cache' = "open"
    /\ Proceed("ping")
    /\ UNCHANGED <<env, built, conn, defers, signals, serving>>

\* Mutant of ConnectFails: it tries again.
ConnectRetried ==
    /\ pc = "connect"
    /\ Proceed("connect")
    /\ UNCHANGED <<env, built, conn, cache, defers, signals, serving>>

(* valkey.NewClient is refused or takes too long: the dial is bounded by the *)
(* dialer's timeout, the handshake by ConnWriteTimeout, and the library has  *)
(* defaults for both.                                                        *)
ConnectFails ==
    /\ pc = "connect"
    /\ Return("network")
    /\ UNCHANGED <<env, built, conn, cache, defers, signals, serving>>

\* NewValkeyStore's ping is answered; defer cache.Close.
PingAnswered ==
    /\ pc = "ping"
    /\ defers' = <<"cache">> \o defers
    /\ Proceed("listen")
    /\ UNCHANGED <<env, built, conn, cache, signals, serving>>

\* Mutant of PingFails: the client is left open.
PingFailsUnclosed ==
    /\ pc = "ping"
    /\ Return("network")
    /\ UNCHANGED <<env, built, conn, cache, defers, signals, serving>>

(* The ping fails or is given up; pingCtx always has a deadline, as         *)
(* context.WithTimeout is called whatever the timeouts are.                  *)
PingFails ==
    /\ pc = "ping"
    /\ cache' = "closed"
    /\ Return("network")
    /\ UNCHANGED <<env, built, conn, defers, signals, serving>>

\* The downstream credentials and net.Listen, which may fail.
Listen ==
    /\ pc = "listen"
    /\ built' = [built EXCEPT !.listener = IF cfg.downstreamTLS = "tls" THEN "tls" ELSE "plaintext"]
    /\ IF cfg.downstreamTLS = "tls" /\ ~(HasCertificates(cfg.certFile) /\ HasCertificates(cfg.keyFile))
       THEN Return("file")
       ELSE Proceed("notify") \/ Return("network")
    /\ UNCHANGED <<env, conn, cache, defers, signals, serving>>

\* signal.NotifyContext, defer stop, and go Serve.
Notify ==
    /\ pc = "notify"
    /\ armed' = TRUE
    /\ defers' = <<"stop">> \o defers
    /\ serve' = "ready"
    /\ Proceed("select")
    /\ UNCHANGED <<env, built, conn, cache, ctxDone, serveErr, door, call, cut, requested>>
-----------------------------------------------------------------------------
(* The serving goroutine (grpc-go is external). *)

\* Serve opens the door, or finds the server stopped already.
ServeStarts ==
    /\ pc # "exited" /\ serve = "ready"
    /\ IF door = "shut"
       THEN serve' = "running" /\ door' = "open" /\ UNCHANGED serveErr
       ELSE serve' = "done" /\ serveErr' = "stopped" /\ UNCHANGED door
    /\ UNCHANGED <<env, pc, built, conn, cache, defers, why, status, signals, call, cut>>

\* Accepting fails for good.  Open connections stay.
AcceptFails ==
    /\ pc # "exited" /\ serve = "running" /\ door = "open"
    /\ serve' = "done" /\ serveErr' = "failed"
    /\ UNCHANGED <<env, pc, built, conn, cache, defers, why, status, signals, door, call, cut>>

\* Serve returns nil after GracefulStop.
ServeReturns ==
    /\ pc # "exited" /\ serve = "running" /\ door = "closed" /\ Active = {}
    /\ serve' = "done" /\ serveErr' = "nil"
    /\ UNCHANGED <<env, pc, built, conn, cache, defers, why, status, signals, door, call, cut>>

(* The first signal ends the context, further ones do nothing.  Without      *)
(* NotifyContext a signal ends the process.                                  *)
Signal ==
    /\ pc # "exited"
    /\ IF armed
       THEN ctxDone' = TRUE /\ requested' = TRUE /\ UNCHANGED <<pc, status, call, cut>>
       ELSE /\ pc' = "exited" /\ status' = "killed"
            /\ call' = [c \in Calls |-> "idle"]
            /\ cut' = (cut \/ Active # {})
            /\ UNCHANGED <<ctxDone, requested>>
    /\ UNCHANGED <<env, built, conn, cache, defers, why, armed, serve, serveErr, door>>
-----------------------------------------------------------------------------
\* Mutant of SelectSignal: it waits for the calls without telling anyone.
WaitForQuiet ==
    /\ pc = "select" /\ ctxDone
    /\ Proceed("graceful")
    /\ UNCHANGED <<env, built, conn, cache, defers, signals, serving>>

\* select, case <-ctx.Done(): GracefulStop tells everyone.
SelectSignal ==
    /\ pc = "select" /\ ctxDone
    /\ door' = IF door = "open" THEN "closing" ELSE "closed"
    /\ Proceed("graceful")
    /\ UNCHANGED <<env, built, conn, cache, defers, signals, serve, serveErr, call, cut>>

\* The last client has heard; no call is let in any more.
DoorCloses ==
    /\ pc # "exited" /\ door = "closing"
    /\ door' = "closed"
    /\ UNCHANGED <<env, pc, built, conn, cache, defers, why, status, signals, serve, serveErr, call, cut>>

\* Mutant of GracefulStopReturns: Stop, which does not wait.
StopReturns ==
    /\ pc = "graceful"
    /\ pc' = "unwind" /\ why' = "signal" /\ status' = "success"
    /\ UNCHANGED <<env, built, conn, cache, defers, signals, serving>>

\* GracefulStop has waited for every call; run() returns nil.
GracefulStopReturns ==
    /\ pc = "graceful"
    /\ door = "closed" /\ Active = {}
    /\ pc' = "unwind" /\ why' = "signal" /\ status' = "success"
    /\ UNCHANGED <<env, built, conn, cache, defers, signals, serving>>

\* Mutant of SelectServeErr: the error is not returned.
ServeErrDropped ==
    /\ pc = "select" /\ serveErr # "empty"
    /\ pc' = "unwind" /\ why' = "serve" /\ status' = "success"
    /\ serveErr' = "empty"
    /\ UNCHANGED <<env, built, conn, cache, defers, signals, serve, door, call, cut>>

\* select, case err := <-serveErr.
SelectServeErr ==
    /\ pc = "select" /\ serveErr # "empty"
    /\ pc' = "unwind" /\ why' = "serve"
    /\ status' = IF serveErr = "nil" THEN "success" ELSE "failure"
    /\ serveErr' = "empty"
    /\ UNCHANGED <<env, built, conn, cache, defers, signals, serve, door, call, cut>>

\* The next deferred function: stop, cache.Close or upstreamConn.Close.
RunDeferred ==
    /\ pc = "unwind" /\ defers # <<>>
    /\ defers' = Tail(defers)
    /\ armed' = (armed /\ Head(defers) # "stop")
    /\ ctxDone' = (ctxDone \/ Head(defers) = "stop")
    /\ cache' = IF Head(defers) = "cache" THEN "closed" ELSE cache
    /\ conn' = IF Head(defers) = "conn" THEN "closed" ELSE conn
    /\ UNCHANGED <<env, pc, built, why, status, requested, serving>>

\* main returns or calls os.Exit(1); calls still running go with it.
Exit ==
    /\ pc = "unwind" /\ defers = <<>>
    /\ pc' = "exited"
    /\ call' = [c \in Calls |-> "idle"]
    /\ cut' = (cut \/ Active # {})
    /\ UNCHANGED <<env, built, conn, cache, defers, why, status, signals, serve, serveErr, door>>
-----------------------------------------------------------------------------
(* A call, in the order in which the interceptor uses its resources. *)

CallArrives(c) ==
    /\ pc # "exited" /\ door \in {"open", "closing"}
    /\ call[c] = "idle"
    /\ call' = [call EXCEPT ![c] = "lookup"]
    /\ UNCHANGED <<env, pc, built, conn, cache, defers, why, status, signals, serve, serveErr, door, cut>>

\* A closed Valkey client refuses commands; the local cache works on.
StoreUsable == cache = "open" \/ built.store = "local"

\* What a call does next; the last step also answers it.
AfterStep == [lookup |-> "upstream", upstream |-> "record", record |-> "idle"]
Usable(step) == IF step = "upstream" THEN conn = "open" ELSE StoreUsable

(* The call takes its next step, or ends there: it was denied, it failed,    *)
(* the worker left, or what it needs was closed under it.                    *)
CallSteps(c) ==
    /\ c \in Active
    /\ IF Usable(call[c])
       THEN /\ \E next \in {AfterStep[call[c]], "idle"} : call' = [call EXCEPT ![c] = next]
            /\ UNCHANGED cut
       ELSE call' = [call EXCEPT ![c] = "idle"] /\ cut' = TRUE
    /\ UNCHANGED <<env, pc, built, conn, cache, defers, why, status, signals, serve, serveErr, door>>
-----------------------------------------------------------------------------
\* The process is gone.
Over == pc = "exited" /\ UNCHANGED vars

\* Steps of run() that wait for nobody but itself, or have a deadline.
RunSteps ==
    \/ LoadConfig \/ BuildAuthenticator \/ DialUpstream \/ NewLocalCache \/ PrepareValkey
    \/ ConnectFails \/ PingFails \/ Listen \/ Notify
    \/ SelectSignal \/ SelectServeErr \/ GracefulStopReturns \/ RunDeferred \/ Exit

Next ==
    \/ RunSteps \/ ValkeyConnects \/ PingAnswered
    \/ ServeStarts \/ AcceptFails \/ ServeReturns \/ Signal \/ DoorCloses
    \/ \E c \in Calls : CallArrives(c) \/ CallSteps(c)
    \/ Over

Spec == Init /\ [][Next]_vars

(* Goroutines are scheduled and deadlines pass; clients hear of the          *)
(* shutdown; every call ends (the server answers a long poll in the end,     *)
(* store calls have timeouts).  Nobody need call, signal, or answer a dial.  *)
FairSpec ==
    /\ Spec
    /\ WF_vars(RunSteps) /\ WF_vars(ServeStarts) /\ WF_vars(DoorCloses)
    /\ \A c \in Calls : WF_vars(CallSteps(c))
-----------------------------------------------------------------------------
\* The files that the modes asked for read can be used.
FilesUsable ==
    LET Asked(v, def) == GetEnv(env, v, def)
        IfNamed(v)    == env[v] \notin {Unset, ""} => HasCertificates(env[v])
    IN /\ AuthFileLoads(Asked("STATIC_AUTH_FILE", DefaultStaticAuthFile(env)),
                        IF Asked("AUTH_MODE", "static") = "jwt" THEN "emails" ELSE "keys")
       /\ Asked("UPSTREAM_TLS_MODE", "plaintext") = "tls" => IfNamed("UPSTREAM_TLS_CA_FILE")
       /\ Asked("DOWNSTREAM_TLS_MODE", "plaintext") = "tls" =>
             IfNamed("DOWNSTREAM_TLS_CERT_FILE") /\ IfNamed("DOWNSTREAM_TLS_KEY_FILE")
       /\ Asked("TOKEN_CACHE_BACKEND", "local") = "valkey" /\ Asked("VALKEY_TLS_MODE", "tls") = "tls" =>
             IfNamed("VALKEY_TLS_CA_FILE")

(* After Load has accepted the environment run() gives up for something      *)
(* outside of it: a library refuses, the network does, or a file of a mode   *)
(* in use is not usable.  It never gives up for an argument that the proxy's *)
(* own constructors check and validate let by, nor for a file of a mode that *)
(* is off; and it does not serve before every file it needs was read.        *)
StartFailsForCause ==
    /\ why # "argument"
    /\ why = "file" => ~FilesUsable
    /\ door # "shut" => FilesUsable

(* A proxy that lets calls in was built as the environment says.  The        *)
(* switches in run, buildTokenCache, valkeyTLSConfig and transportCredentials *)
(* take any other text for one of their modes, so a mistyped mode would      *)
(* silently become another one if validate let it through.                   *)
ServesAsConfigured ==
    LET Asked(v, def) == GetEnv(env, v, def) IN
    door # "shut" =>
        /\ built.auth = Asked("AUTH_MODE", "static")
        /\ built.upstream = Asked("UPSTREAM_TLS_MODE", "plaintext")
        /\ ~built.verify => env["UPSTREAM_TLS_SKIP_VERIFY"] = "true"
        /\ built.key <=> (Asked("UPSTREAM_AUTH_MODE", "none") # "none")
        /\ built.listener = Asked("DOWNSTREAM_TLS_MODE", "plaintext")
        /\ built.store = Asked("TOKEN_CACHE_BACKEND", "local")
        /\ built.store = "valkey" => built.storeTLS = Asked("VALKEY_TLS_MODE", "tls")

\* The modes that require other variables: the text that does, and what it requires.
Demanding ==
    [UPSTREAM_AUTH_MODE |-> "api-key", DOWNSTREAM_TLS_MODE |-> "tls",
     AUTH_MODE |-> "jwt", TOKEN_CACHE_BACKEND |-> "valkey"]
Required ==
    [UPSTREAM_AUTH_MODE |-> {"UPSTREAM_API_KEY"},
     DOWNSTREAM_TLS_MODE |-> {"DOWNSTREAM_TLS_CERT_FILE", "DOWNSTREAM_TLS_KEY_FILE"},
     AUTH_MODE |-> {"JWT_AUDIENCE"}, TOKEN_CACHE_BACKEND |-> {"VALKEY_ADDRS"}]

\* A valid text for variable v; the modes in D are the demanding ones.
Repaired(v, D) ==
    IF v \in D THEN Demanding[v] ELSE
    CASE v \in NumericVars -> "two"
      [] v = "UPSTREAM_AUTH_MODE" -> "none"
      [] v = "AUTH_MODE" -> "static"
      [] v = "TOKEN_CACHE_BACKEND" -> "local"
      [] v = "UPSTREAM_TLS_SKIP_VERIFY" -> "false"
      [] v \in {"UPSTREAM_TLS_MODE", "DOWNSTREAM_TLS_MODE", "VALKEY_TLS_MODE"} -> "plaintext"
      [] OTHER -> "something"

\* The variables an error message names, and the environment with these set right.
Named(e) == UNION LoadErrors(e)
Repair(e, D) ==
    LET named == Named(e)
    IN  [v \in DOMAIN e |-> IF v \in named THEN Repaired(v, D) ELSE e[v]]

(* "All problems are collected and returned together": whichever modes the   *)
(* operator meant, setting right what the message of a refused start names   *)
(* leaves only what a mode that was itself mistyped turns out to require;    *)
(* the second message names all of that.                                     *)
FixedInTwoRounds ==
    why = "config" => \A D \in SUBSET (DOMAIN Demanding \cap Named(env)) :
        LET once == Repair(env, D) IN
        /\ LoadErrors(once) \subseteq {Required[m] : m \in D}
        /\ LoadErrors(Repair(once, D)) = {}

(* No call finds the store or the connection closed, or is cut off by the    *)
(* exit, when the proxy stops for a signal, however late the call came.      *)
(* Only a failed listener takes calls down with it.                          *)
CallsKeepTheirResources == cut => why = "serve"

(* Exit status 0 means that a signal asked for the stop and all calls were   *)
(* finished.  A listener that fails shows in the status, also when no call   *)
(* is open and when a signal comes at the same time.                         *)
SuccessMeansStopped ==
    pc = "exited" /\ status = "success" => requested /\ why = "signal" /\ ~cut

(* Whatever run() opened is closed when it returns, on every error path      *)
(* too; only a signal that kills the process leaves things open.             *)
NothingLeftOpen ==
    pc = "exited" /\ status # "killed" => conn # "open" /\ cache # "open" /\ ~armed

(* The process either comes to serve or exits: an unreachable Valkey cannot  *)
(* hang the start.                                                           *)
StartupEnds == <>(pc \in {"select", "graceful", "unwind", "exited"})

(* A signal ends the process, with calls in flight, with calls that still    *)
(* arrive, before Serve has started, and if Serve fails at the same time.    *)
SignalEndsProcess == requested ~> pc = "exited"
=============================================================================
