------------------------------ MODULE KeyCache ------------------------------
(***************************************************************************)
(* The identity provider's signing keys as AOS sees them: jwksCache        *)
(* (auth/oidc.go).  Every request with a token asks the cache for the key  *)
(* named in it; the cache fetches the provider's key set when it is too    *)
(* old or does not have the key, and holds its mutex while it does.        *)
(*                                                                         *)
(* The provider publishes a key, and later retires it for ever.  What a    *)
(* fetch brings is the set the provider served at some moment of it.       *)
(***************************************************************************)
EXTENDS Naturals

CONSTANTS
    Kids,       \* key ids
    Requests,   \* requests in flight
    MaxAge,     \* jwksMaxAge
    MinRefresh, \* jwksMinRefresh
    Timeout,    \* of the HTTP client of one fetch
    MaxTime,    \* bound on the clock
    Never       \* not fetched, not published, not retired

ASSUME KeyCacheAssumption ==
    /\ MaxAge \in Nat \ {0}
    /\ MinRefresh \in Nat
    /\ Timeout \in Nat
    /\ MaxTime \in Nat
    /\ Never \notin Nat \cup Requests

VARIABLES
    now,
    published, \* when the provider published each key
    retired,   \* when it retired it
    keys,      \* the key ids in the cache
    fetched,   \* when the last fetch succeeded
    mu,        \* the request that holds the mutex, or Never
    request    \* the requests

providerVars == <<published, retired>>
cacheVars == <<keys, fetched>>
vars == <<now, providerVars, cacheVars, mu, request>>

(***************************************************************************)
(* Where a request is in key(kid): not there, waiting for the mutex, in a  *)
(* fetch because the keys are stale or because its key is missing, or done.*)
(***************************************************************************)
Pcs == {"idle", "lock", "stale", "missing", "verified", "refused"}

Fetching(r) == request[r].pc \in {"stale", "missing"}

(***************************************************************************)
(* kid, when the fetch in progress began and what the provider answered to *)
(* it, whether a fetch of this request failed, and whether the cache had   *)
(* the key, still published, when the request arrived.                     *)
(***************************************************************************)
Idle == [pc |-> "idle", kid |-> Never, began |-> 0, answered |-> FALSE, served |-> {},
         failed |-> FALSE, known |-> FALSE]

Request == [pc : Pcs, kid : Kids \cup {Never}, began : Nat, answered : BOOLEAN,
            served : SUBSET Kids, failed : BOOLEAN, known : BOOLEAN]

TypeOK ==
    /\ now \in Nat
    /\ published \in [Kids -> Nat \cup {Never}]
    /\ retired \in [Kids -> Nat \cup {Never}]
    /\ keys \in SUBSET Kids
    /\ fetched \in Nat \cup {Never}
    /\ mu \in Requests \cup {Never}
    /\ request \in [Requests -> Request]
    /\ \A r \in Requests : request[r].pc # "idle" => request[r].kid \in Kids

(***************************************************************************)
(* The keys the provider serves now.                                       *)
(***************************************************************************)
Serves == {k \in Kids : published[k] # Never /\ retired[k] = Never}

Init ==
    /\ now = 0
    /\ published \in [Kids -> {0, Never}]
    /\ retired = [k \in Kids |-> Never]
    /\ keys = {} /\ fetched = Never
    /\ mu = Never
    /\ request = [r \in Requests |-> Idle]
-----------------------------------------------------------------------------
(***************************************************************************)
(* The provider, and time.  A fetch never lasts longer than its timeout.   *)
(***************************************************************************)
Publish(k) ==
    /\ published[k] = Never
    /\ published' = [published EXCEPT ![k] = now]
    /\ UNCHANGED <<now, retired, cacheVars, mu, request>>

Retire(k) ==
    /\ k \in Serves
    /\ retired' = [retired EXCEPT ![k] = now]
    /\ UNCHANGED <<now, published, cacheVars, mu, request>>

Tick ==
    /\ now < MaxTime
    /\ \A r \in Requests : Fetching(r) => now < request[r].began + Timeout
    /\ now' = now + 1
    /\ UNCHANGED <<providerVars, cacheVars, mu, request>>
-----------------------------------------------------------------------------
(***************************************************************************)
(* Mutant of rsaKeyfunc: a token that names no key is looked up as well.   *)
(***************************************************************************)
rsaKeyfuncNoKid(r, kid) ==
    /\ request[r].pc = "idle"
    /\ request' = [request EXCEPT ![r] = [Idle EXCEPT !.pc = "lock"]]
    /\ UNCHANGED <<now, providerVars, cacheVars, mu>>

(***************************************************************************)
(* A token arrives: rsaKeyfunc finds RS256 and a kid, and asks the cache.  *)
(***************************************************************************)
rsaKeyfunc(r, kid) ==
    /\ request[r].pc = "idle"
    /\ request' = [request EXCEPT ![r] =
          [Idle EXCEPT !.pc = "lock", !.kid = kid, !.known = (kid \in keys \cap Serves)]]
    /\ UNCHANGED <<now, providerVars, cacheVars, mu>>

Move(r, pc, failed) ==
    request' = [request EXCEPT ![r] =
        [pc |-> pc, kid |-> request[r].kid, answered |-> FALSE, served |-> {},
         began |-> IF pc \in {"stale", "missing"} THEN now ELSE 0,
         failed |-> failed, known |-> request[r].known]]

(***************************************************************************)
(* Mutant of Recent: an unknown key is refused as long as there are keys.  *)
(***************************************************************************)
RecentForever(found, since) == found # {}

(***************************************************************************)
(* key with the keys there are: it returns the key asked for, refuses an   *)
(* unknown one soon after a fetch, and fetches otherwise.  The mutex is    *)
(* given back unless it fetches.                                           *)
(***************************************************************************)
Recent(found, since) == found # {} /\ now < since + MinRefresh

Lookup(r, found, since, failed) ==
    \/ /\ request[r].kid \in found
       /\ Move(r, "verified", failed)
       /\ mu' = Never
    \/ /\ request[r].kid \notin found
       /\ Recent(found, since)
       /\ Move(r, "refused", failed)
       /\ mu' = Never
    \/ /\ request[r].kid \notin found
       /\ ~Recent(found, since)
       /\ Move(r, "missing", failed)
       /\ mu' = r

(***************************************************************************)
(* Mutant of Stale: keys are fetched once.                                 *)
(***************************************************************************)
NeverStale == FALSE

Stale == keys # {} /\ now >= fetched + MaxAge

(***************************************************************************)
(* Mutant of Free: key does not take the mutex.                            *)
(***************************************************************************)
AlwaysFree == TRUE

Free == mu = Never

key(r) ==
    /\ request[r].pc = "lock"
    /\ Free
    /\ IF Stale THEN Move(r, "stale", FALSE) /\ mu' = r
                ELSE Lookup(r, keys, fetched, FALSE)
    /\ UNCHANGED <<now, providerVars, cacheVars>>

(***************************************************************************)
(* The provider's answer to a fetch is of the moment it is sent.           *)
(***************************************************************************)
Serve(r) ==
    /\ Fetching(r)
    /\ ~request[r].answered
    /\ request' = [request EXCEPT ![r] =
          [request[r] EXCEPT !.answered = TRUE, !.served = Serves]]
    /\ UNCHANGED <<now, providerVars, cacheVars, mu>>

(***************************************************************************)
(* refreshLocked succeeds: the answer replaces the keys.                   *)
(***************************************************************************)
refreshLocked(r) ==
    /\ Fetching(r)
    /\ request[r].answered
    /\ keys' = request[r].served
    /\ fetched' = now
    /\ IF request[r].pc = "stale"
       THEN Lookup(r, keys', now, FALSE)
       ELSE /\ Move(r, IF request[r].kid \in keys' THEN "verified" ELSE "refused",
                    request[r].failed)
            /\ mu' = Never
    /\ UNCHANGED <<now, providerVars>>

(***************************************************************************)
(* Mutant of refreshFails: an error page is taken for a key set.           *)
(***************************************************************************)
refreshClears(r) ==
    /\ Fetching(r)
    /\ keys' = {}
    /\ fetched' = fetched
    /\ IF request[r].pc = "stale"
       THEN Lookup(r, keys', fetched, TRUE)
       ELSE Move(r, "refused", TRUE) /\ mu' = Never
    /\ UNCHANGED <<now, providerVars>>

(***************************************************************************)
(* refreshLocked fails, on an error, an error page, JSON that is none or   *)
(* its timeout: the keys stay, and so does the time of the last success.   *)
(* A stale cache then answers with what it has.                            *)
(***************************************************************************)
refreshFails(r) ==
    /\ Fetching(r)
    /\ IF request[r].pc = "stale"
       THEN Lookup(r, keys, fetched, TRUE)
       ELSE Move(r, "refused", TRUE) /\ mu' = Never
    /\ UNCHANGED <<now, providerVars, cacheVars>>

(***************************************************************************)
(* The request goes on, or is answered 401; the next one takes its place.  *)
(***************************************************************************)
Leave(r) ==
    /\ request[r].pc \in {"verified", "refused"}
    /\ request' = [request EXCEPT ![r] = Idle]
    /\ UNCHANGED <<now, providerVars, cacheVars, mu>>

Next ==
    \/ \E k \in Kids : Publish(k) \/ Retire(k)
    \/ Tick
    \/ \E r \in Requests :
          \/ \E kid \in Kids : rsaKeyfunc(r, kid)
          \/ key(r) \/ Serve(r) \/ refreshLocked(r) \/ refreshFails(r) \/ Leave(r)

Spec == Init /\ [][Next]_vars
-----------------------------------------------------------------------------
(***************************************************************************)
(* "a key the provider retires ... stops verifying tokens within this      *)
(* window" (oidc.go:41-43), the window being jwksMaxAge and the time one   *)
(* fetch may take.  The exception is the one the code makes: the provider  *)
(* could not be asked.                                                     *)
(***************************************************************************)
RetiredKeyStops ==
    [][ \A r \in Requests :
          request[r].pc # "verified" /\ request'[r].pc = "verified"
          => LET kid == request[r].kid
             IN \/ retired[kid] = Never
                \/ now < retired[kid] + Timeout + MaxAge
                \/ request'[r].failed ]_vars

(***************************************************************************)
(* A rotation: jwksMinRefresh and one fetch after the provider has         *)
(* published a key, only a failing provider or its retirement keeps a      *)
(* token signed with it out.                                               *)
(***************************************************************************)
NewKeyWorks ==
    [][ \A r \in Requests :
          request[r].pc # "refused" /\ request'[r].pc = "refused"
          => LET kid == request[r].kid
             IN \/ published[kid] = Never \/ retired[kid] # Never
                \/ now <= published[kid] + Timeout + MinRefresh
                \/ request'[r].failed ]_vars

(***************************************************************************)
(* "an outage must not sign everyone out" (oidc.go:61-62), nor may another *)
(* request's fetch: a key the cache had when the request arrived, and that *)
(* the provider still publishes, verifies it.                              *)
(***************************************************************************)
OutageSignsNobodyOut ==
    [][ \A r \in Requests :
          request[r].known /\ request[r].pc # "refused" /\ request'[r].pc = "refused"
          => retired[request[r].kid] # Never ]_vars
=============================================================================
