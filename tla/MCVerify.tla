------------------------------ MODULE MCVerify ------------------------------
(***************************************************************************)
(* Verify with the repository's testdata/static-auth.json, in deployments   *)
(* that differ from a working one in up to two settings.                    *)
(***************************************************************************)
EXTENDS Verify, TLC

A == INSTANCE Auth

Fleet(q) == [ns |-> "default", queues |-> <<q>>]

KeySection   == "testkey123" :> Fleet("proxy-test-queue") @@ "testkey-wrong-queue" :> Fleet("other-queue")
EmailSection == "worker-fleet-a" :> Fleet("proxy-test-queue")

ASSUME SectionAssumption == A!SectionLoads(KeySection) /\ A!SectionLoads(EmailSection)

\* Only the identity token is a valid JWT.
Claims(credential) ==
    IF credential = "identity token" THEN [verified |-> TRUE, email |-> "worker-fleet-a"]
    ELSE A!NoClaims

Authenticator(mode, credential) ==
    IF mode = "static" THEN A!StaticAuthenticate(KeySection, credential)
    ELSE A!JWTAuthenticate(EmailSection, Claims(credential))

Unset == [ns |-> "", queue |-> "", tls |-> "", skip |-> "", ca |-> ""]

WorkerTexts ==
    [mode     |-> {"", "static", "jwt", "mistyped"},
     key      |-> {"", "testkey123", "testkey-wrong-queue", "unknown"},
     metadata |-> {"unreachable", "unreadable", "not OK", "", "identity token"},
     ns       |-> {"", "other-namespace"},
     queue    |-> {"", "other-queue"}]
TLSTexts ==
    [tls  |-> {"", "plaintext", "tls", "mistyped"},
     skip |-> {"", "true", "false", "mistyped"},
     ca   |-> {"", "certificates", "text", "missing"}]
Endpoints == {"plaintext", "public", "private", "stranger"}

Local ==
    [lang |-> "go", route |-> "proxy", auth |-> "static",
     endpoint |-> "plaintext", upstream |-> "plaintext", c |-> Unset,
     w |-> Unset @@ [mode |-> "", key |-> "testkey123", metadata |-> "unreachable"]]

CloudRun ==
    [Local EXCEPT !.auth = "jwt", !.endpoint = "public", !.upstream = "private",
                  !.c.tls = "tls", !.c.ca = "certificates",
                  !.w.mode = "jwt", !.w.tls = "tls", !.w.metadata = "identity token"]

Changed(D) ==
    {[d EXCEPT !.lang = x] : d \in D, x \in {"go", "ts"}}
    \cup {[d EXCEPT !.route = x] : d \in D, x \in {"proxy", "upstream"}}
    \cup {[d EXCEPT !.endpoint = x] : d \in D, x \in Endpoints}
    \cup {[d EXCEPT !.upstream = x] : d \in D, x \in Endpoints}
    \cup {[d EXCEPT !.c.ns = x] : d \in D, x \in WorkerTexts.ns}
    \cup {[d EXCEPT !.c.queue = x] : d \in D, x \in WorkerTexts.queue}
    \cup UNION {{[d EXCEPT !.w[v] = x] : d \in D, x \in WorkerTexts[v]} : v \in DOMAIN WorkerTexts}
    \cup UNION {{[d EXCEPT !.w[v] = x] : d \in D, x \in TLSTexts[v]} : v \in DOMAIN TLSTexts}
    \cup UNION {{[d EXCEPT !.c[v] = x] : d \in D, x \in TLSTexts[v]} : v \in DOMAIN TLSTexts}

TwoChanges == Changed(Changed({Local, CloudRun}))
OnlyLocal  == {Local}
=============================================================================
