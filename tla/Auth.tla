-------------------------------- MODULE Auth --------------------------------
(***************************************************************************)
(* internal/auth: the two implementations of the Authenticator interface.   *)
(* Both look an identity up in a table built once from the auth file.       *)
(*                                                                         *)
(* An auth-file section is a function from lookup keys to entries           *)
(* [ns, queues] with queues a sequence; a bearer token's claims are         *)
(* [verified, email], or NoClaims when Google's validator rejects it.       *)
(***************************************************************************)
EXTENDS Naturals, Sequences

CONSTANTS Empty

\* The zero Identity.
NoIdentity == [valid |-> FALSE, ns |-> Empty, queues |-> {}]

NoClaims == [verified |-> FALSE, email |-> Empty]

\* sha256 is taken to be injective: the digest of k is k under a tag.
HashKey(k) == <<"sha256", k>>

\* buildIdentities and validateTaskQueues accept the section.
SectionLoads(section) ==
    \A k \in DOMAIN section :
        /\ section[k].ns # Empty
        /\ Len(section[k].queues) > 0
        /\ \A i \in 1..Len(section[k].queues) : section[k].queues[i] # Empty

IdentityOf(entry) ==
    [valid |-> TRUE, ns |-> entry.ns,
     queues |-> {entry.queues[i] : i \in 1..Len(entry.queues)}]

\* The table of StaticAuthenticator, keyed by digest.
HashedIdentities(section) ==
    [d \in {HashKey(k) : k \in DOMAIN section} |-> IdentityOf(section[d[2]])]

\* StaticAuthenticator.Authenticate.
StaticAuthenticate(section, apiKey) ==
    LET identities == HashedIdentities(section) IN
    IF HashKey(apiKey) \in DOMAIN identities THEN identities[HashKey(apiKey)]
    ELSE NoIdentity

\* googleTokenValidator: the verified email of a token, or Empty.
VerifiedEmail(claims) == IF claims.verified THEN claims.email ELSE Empty

\* JWTAuthenticator.Authenticate, for a token with these claims.
JWTAuthenticate(section, claims) ==
    LET email == VerifiedEmail(claims) IN
    IF email # Empty /\ email \in DOMAIN section THEN IdentityOf(section[email])
    ELSE NoIdentity
=============================================================================
