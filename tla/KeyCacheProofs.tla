--------------------------- MODULE KeyCacheProofs ---------------------------
(***************************************************************************)
(* Proofs about KeyCache, for any keys, any number of concurrent requests  *)
(* and any ages and timeouts.                                              *)
(***************************************************************************)
EXTENDS KeyCache, TLAPS

(***************************************************************************)
(* What becomes of a request that moves on.                                *)
(***************************************************************************)
Moved(r, pc, failed) ==
    [pc |-> pc, kid |-> request[r].kid, answered |-> FALSE, served |-> {},
     began |-> IF pc \in {"stale", "missing"} THEN now ELSE 0,
     failed |-> failed, known |-> request[r].known]

LEMMA MoveSets ==
    ASSUME TypeOK, NEW r \in Requests, NEW pc \in Pcs \ {"idle"}, NEW failed \in BOOLEAN,
           request[r].pc # "idle", Move(r, pc, failed)
    PROVE  /\ Moved(r, pc, failed) \in Request
           /\ request'[r] = Moved(r, pc, failed)
           /\ \A q \in Requests \ {r} : request'[q] = request[q]
           /\ request' \in [Requests -> Request]
           /\ \A q \in Requests : request'[q].pc # "idle" => request'[q].kid \in Kids
<1>1. request[r] \in Request /\ request[r].kid \in Kids /\ now \in Nat
  BY DEF TypeOK
<1>2. Moved(r, pc, failed) \in Request /\ Moved(r, pc, failed).kid = request[r].kid
  BY <1>1 DEF Moved, Request
<1>3. request' = [request EXCEPT ![r] = Moved(r, pc, failed)]
  BY DEF Move, Moved
<1>4. request'[r] = Moved(r, pc, failed) /\ \A q \in Requests \ {r} : request'[q] = request[q]
  BY <1>3 DEF TypeOK
<1>5. request' \in [Requests -> Request]
  BY <1>2, <1>3 DEF TypeOK
<1>6. \A q \in Requests : request'[q].pc # "idle" => request'[q].kid \in Kids
  BY <1>1, <1>2, <1>4 DEF TypeOK
<1> QED BY <1>2, <1>4, <1>5, <1>6

(***************************************************************************)
(* What key decides with the keys it has.                                  *)
(***************************************************************************)
LEMMA LookupMoves ==
    ASSUME NEW r, NEW found, NEW since, NEW failed, Lookup(r, found, since, failed)
    PROVE  \E pc \in {"verified", "refused", "missing"} :
              /\ Move(r, pc, failed)
              /\ mu' = IF pc = "missing" THEN r ELSE Never
              /\ pc = "verified" <=> request[r].kid \in found
              /\ pc = "refused" => Recent(found, since)
BY DEF Lookup

(***************************************************************************)
(* The variables keep their types.                                         *)
(***************************************************************************)
LEMMA InitType == Init => TypeOK
BY DEF Init, TypeOK, Idle, Request, Pcs

LEMMA NextType == TypeOK /\ [Next]_vars => TypeOK'
<1> SUFFICES ASSUME TypeOK, [Next]_vars PROVE TypeOK'
  OBVIOUS
<1> USE DEF providerVars, cacheVars
<1>1. ASSUME NEW k \in Kids, Publish(k) \/ Retire(k) PROVE TypeOK'
  BY <1>1 DEF Publish, Retire, TypeOK
<1>2. CASE Tick
  BY <1>2, KeyCacheAssumption DEF Tick, TypeOK
<1>3. ASSUME NEW r \in Requests, NEW kid \in Kids, rsaKeyfunc(r, kid) PROVE TypeOK'
  <2> DEFINE rec == [Idle EXCEPT !.pc = "lock", !.kid = kid, !.known = (kid \in keys \cap Serves)]
  <2>0. (kid \in keys \cap Serves) \in BOOLEAN
    OBVIOUS
  <2>1. rec \in Request /\ rec.kid \in Kids
    BY <2>0 DEF Idle, Request, Pcs
  <2>2. request' = [request EXCEPT ![r] = rec]
    BY <1>3 DEF rsaKeyfunc
  <2> HIDE DEF rec
  <2> QED BY <1>3, <2>1, <2>2 DEF rsaKeyfunc, TypeOK
<1>4. ASSUME NEW r \in Requests, key(r) PROVE TypeOK'
  <2>1. PICK pc \in {"stale", "verified", "refused", "missing"} :
           Move(r, pc, FALSE) /\ mu' \in {r, Never}
    <3>1. CASE Stale
      BY <1>4, <3>1, Zenon DEF key
    <3>2. CASE ~Stale
      <4>1. Lookup(r, keys, fetched, FALSE)
        BY <1>4, <3>2 DEF key
      <4>2. PICK pc \in {"verified", "refused", "missing"} :
               Move(r, pc, FALSE) /\ mu' = IF pc = "missing" THEN r ELSE Never
        BY <4>1 DEF Lookup
      <4>3. mu' \in {r, Never}
        BY <4>2
      <4> QED BY <4>2, <4>3
    <3> QED BY <3>1, <3>2
  <2> QED BY <1>4, <2>1, MoveSets DEF key, TypeOK, Pcs
<1>5. ASSUME NEW r \in Requests, Serve(r) PROVE TypeOK'
  <2> DEFINE rec == [request[r] EXCEPT !.answered = TRUE, !.served = Serves]
  <2>1. rec \in Request /\ rec.kid = request[r].kid /\ rec.pc = request[r].pc
    BY DEF TypeOK, Request, Serves
  <2>2. request' = [request EXCEPT ![r] = rec]
    BY <1>5 DEF Serve
  <2> HIDE DEF rec
  <2> QED BY <1>5, <2>1, <2>2 DEF Serve, TypeOK
<1>6. ASSUME NEW r \in Requests, refreshLocked(r) \/ refreshFails(r) PROVE TypeOK'
  <2>1. request[r].failed \in BOOLEAN /\ request[r].served \in SUBSET Kids /\ request[r].pc # "idle"
    BY <1>6 DEF TypeOK, Request, refreshLocked, refreshFails, Fetching
  <2>2. PICK pc \in {"verified", "refused", "missing"}, failed \in BOOLEAN :
           Move(r, pc, failed) /\ mu' \in {r, Never}
    <3>1. CASE \E found, since : \E failed \in BOOLEAN : Lookup(r, found, since, failed)
      BY <3>1, LookupMoves
    <3>2. CASE ~\E found, since : \E failed \in BOOLEAN : Lookup(r, found, since, failed)
      <4>1. request[r].pc # "stale"
        <5>1. FALSE \in BOOLEAN /\ TRUE \in BOOLEAN
          OBVIOUS
        <5> QED BY <1>6, <3>2, <5>1, Zenon DEF refreshLocked, refreshFails
      <4>2. CASE refreshLocked(r)
        BY <2>1, <4>1, <4>2 DEF refreshLocked
      <4>3. CASE refreshFails(r)
        BY <4>1, <4>3 DEF refreshFails
      <4> QED BY <1>6, <4>2, <4>3
    <3> QED BY <3>1, <3>2
  <2>3. keys' \in SUBSET Kids /\ fetched' \in Nat \cup {Never} /\ UNCHANGED <<now, providerVars>>
    BY <1>6, <2>1 DEF refreshLocked, refreshFails, TypeOK
  <2> QED BY <2>1, <2>2, <2>3, MoveSets DEF TypeOK, Pcs
<1>7. ASSUME NEW r \in Requests, Leave(r) PROVE TypeOK'
  <2>1. Idle \in Request /\ Idle.pc = "idle"
    BY DEF Idle, Request, Pcs
  <2> QED BY <1>7, <2>1 DEF Leave, TypeOK
<1>8. CASE UNCHANGED vars
  BY <1>8 DEF vars, TypeOK
<1> QED BY <1>1, <1>2, <1>3, <1>4, <1>5, <1>6, <1>7, <1>8 DEF Next

(***************************************************************************)
(* Type correctness of the key cache.                                      *)
(***************************************************************************)
THEOREM KeyCacheTypeCorrect == Spec => []TypeOK
BY InitType, NextType, PTL DEF Spec

(***************************************************************************)
(* The inductive invariant.  The provider's life of a key: published, and  *)
(* retired no earlier.                                                     *)
(***************************************************************************)
Provider ==
    \A k \in Kids :
        /\ published[k] # Never => published[k] <= now
        /\ retired[k] # Never
            => retired[k] <= now /\ published[k] # Never /\ published[k] <= retired[k]

(***************************************************************************)
(* What the cache holds was served within Timeout of its time stamp: a key *)
(* in it was not retired before that, one that is not in it not published. *)
(***************************************************************************)
Cached ==
    /\ keys # {} => fetched # Never
    /\ fetched # Never => fetched <= now
    /\ \A k \in keys :
          /\ published[k] # Never
          /\ retired[k] # Never => fetched <= retired[k] + Timeout
    /\ \A k \in Kids \ keys :
          fetched # Never /\ published[k] # Never /\ retired[k] = Never
              => fetched <= published[k] + Timeout

(***************************************************************************)
(* A fetch holds the mutex and is younger than its timeout; its answer is  *)
(* of a moment since it began, and has every key of the cache that the     *)
(* provider still serves.                                                  *)
(***************************************************************************)
InTime(r) ==
    /\ mu = r
    /\ request[r].began <= now /\ now <= request[r].began + Timeout
    /\ request[r].pc = "missing" => request[r].kid \notin keys

Answered(r) ==
    request[r].answered
        => /\ \A k \in request[r].served :
                 /\ published[k] # Never
                 /\ retired[k] # Never => request[r].began <= retired[k]
           /\ \A k \in Kids \ request[r].served :
                 /\ published[k] # Never /\ retired[k] = Never => request[r].began <= published[k]
                 /\ k \in keys => retired[k] # Never

(***************************************************************************)
(* A key the cache had when the request arrived stays in it until the      *)
(* provider retires it.                                                    *)
(***************************************************************************)
Known(r) ==
    /\ request[r].known
    /\ request[r].pc \in {"lock", "stale", "missing"}
    /\ retired[request[r].kid] = Never
    => request[r].kid \in keys

IInv ==
    /\ TypeOK
    /\ Provider
    /\ Cached
    /\ \A r \in Requests : (Fetching(r) => InTime(r) /\ Answered(r)) /\ Known(r)

LEMMA InitInv == Init => IInv
<1> SUFFICES ASSUME Init PROVE IInv
  OBVIOUS
<1>1. TypeOK
  BY InitType
<1>2. Provider /\ Cached
  BY DEF Init, Provider, Cached
<1>3. \A r \in Requests : ~Fetching(r) /\ Known(r)
  BY DEF Init, Fetching, Known, Idle
<1> QED BY <1>1, <1>2, <1>3 DEF IInv

(***************************************************************************)
(* A step of key: the request that holds the mutex, or takes it, moves on, *)
(* and no key that is still published leaves the cache.                    *)
(***************************************************************************)
LEMMA Advances ==
    ASSUME IInv, TypeOK', NEW r \in Requests,
           NEW pc \in {"stale", "missing", "verified", "refused"}, NEW failed \in BOOLEAN,
           Move(r, pc, failed),
           request[r].pc \in {"lock", "stale", "missing"},
           UNCHANGED <<now, published, retired>>,
           \A q \in Requests \ {r} : ~Fetching(q),
           Cached',
           \A k \in keys : retired[k] = Never => k \in keys',
           pc \in {"stale", "missing"} => mu' = r,
           pc = "missing" => request[r].kid \notin keys'
    PROVE  IInv'
<1>1. TypeOK /\ now \in Nat /\ Timeout \in Nat
  BY KeyCacheAssumption DEF IInv, TypeOK
<1>2. request'[r] = Moved(r, pc, failed) /\ \A q \in Requests \ {r} : request'[q] = request[q]
  BY <1>1, MoveSets DEF Pcs
<1>3. Provider'
  BY DEF IInv, Provider
<1>4. ASSUME NEW q \in Requests \ {r} PROVE ~Fetching(q)' /\ Known(q)'
  <2>1. request'[q] = request[q] /\ request[q].pc \notin {"stale", "missing"}
    BY <1>2, <1>4 DEF Fetching
  <2>2. Known(q)
    BY DEF IInv
  <2>3. Known(q)'
    BY <2>1, <2>2 DEF Known
  <2>4. ~Fetching(q)'
    BY <2>1 DEF Fetching
  <2> QED BY <2>3, <2>4
<1>5. Fetching(r)' => InTime(r)' /\ Answered(r)'
  BY <1>1, <1>2 DEF Fetching, Moved, InTime, Answered
<1>6. Known(r)'
  <2>1. Known(r) /\ request[r].kid = request'[r].kid /\ request[r].known = request'[r].known
    BY <1>2 DEF IInv, Moved
  <2> QED BY <2>1 DEF Known
<1> QED BY <1>3, <1>4, <1>5, <1>6 DEF IInv

(***************************************************************************)
(* key asks nobody, or has the mutex: the cache stays.                     *)
(***************************************************************************)
LEMMA Alone ==
    ASSUME IInv, NEW r \in Requests, mu = Never \/ Fetching(r)
    PROVE  \A q \in Requests \ {r} : ~Fetching(q)
<1>1. \A q \in Requests : Fetching(q) => mu = q
  BY DEF IInv, InTime
<1> QED BY <1>1, KeyCacheAssumption

(***************************************************************************)
(* A fetch that succeeds: its answer is sound as a cache.                  *)
(***************************************************************************)
LEMMA AnswerCached ==
    ASSUME IInv, TypeOK', NEW r \in Requests, refreshLocked(r)
    PROVE  Cached' /\ \A k \in keys : retired[k] = Never => k \in keys'
<1>1. TypeOK /\ now \in Nat /\ Timeout \in Nat /\ Never \notin Nat
  BY KeyCacheAssumption DEF IInv, TypeOK
<1>2. /\ keys' = request[r].served /\ fetched' = now
      /\ UNCHANGED <<now, published, retired>> /\ request[r].answered /\ Fetching(r)
  BY DEF refreshLocked, providerVars
<1>3. InTime(r) /\ Answered(r)
  BY <1>2 DEF IInv
<1>4. request[r].began \in Nat /\ request[r].served \in SUBSET Kids
  BY <1>1 DEF TypeOK, Request
<1>5. now <= request[r].began + Timeout
  BY <1>3 DEF InTime
<1>6. \A k \in keys' :
         /\ published[k] # Never
         /\ retired[k] # Never => now <= retired[k] + Timeout
  <2> TAKE k \in keys'
  <2>1. k \in request[r].served /\ k \in Kids
    BY <1>2, <1>4
  <2>2. published[k] # Never /\ (retired[k] # Never => request[r].began <= retired[k])
    BY <1>2, <1>3, <2>1 DEF Answered
  <2>3. retired[k] \in Nat \cup {Never}
    BY <1>1, <2>1 DEF TypeOK
  <2> QED BY <1>1, <1>4, <1>5, <2>2, <2>3
<1>7. \A k \in Kids \ keys' :
         published[k] # Never /\ retired[k] = Never => now <= published[k] + Timeout
  <2> TAKE k \in Kids \ keys'
  <2>1. published[k] # Never /\ retired[k] = Never => request[r].began <= published[k]
    BY <1>2, <1>3 DEF Answered
  <2>2. published[k] \in Nat \cup {Never}
    BY <1>1 DEF TypeOK
  <2> QED BY <1>1, <1>4, <1>5, <2>1, <2>2
<1>8. Cached'
  BY <1>1, <1>2, <1>6, <1>7 DEF Cached
<1>9. \A k \in keys : retired[k] = Never => k \in keys'
  BY <1>1, <1>2, <1>3 DEF Answered, TypeOK
<1> QED BY <1>8, <1>9

LEMMA NextInv == IInv /\ [Next]_vars => IInv'
<1> SUFFICES ASSUME IInv, [Next]_vars PROVE IInv'
  OBVIOUS
<1>0. TypeOK /\ TypeOK' /\ now \in Nat /\ Timeout \in Nat /\ Never \notin Nat
  BY NextType, KeyCacheAssumption DEF IInv, TypeOK
<1> USE DEF providerVars, cacheVars
<1>1. ASSUME NEW k \in Kids, Publish(k) PROVE IInv'
  <2>1. /\ published[k] = Never /\ published' = [published EXCEPT ![k] = now]
        /\ UNCHANGED <<now, retired, keys, fetched, mu, request>>
    BY <1>1 DEF Publish
  <2>2. published'[k] = now /\ \A x \in Kids \ {k} : published'[x] = published[x]
    BY <1>0, <2>1 DEF TypeOK
  <2>3. Provider /\ Cached /\ k \notin keys /\ retired[k] = Never
    BY <2>1 DEF IInv, Provider, Cached
  <2>4. Provider'
    BY <1>0, <2>1, <2>2, <2>3 DEF Provider
  <2>5. Cached'
    <3>1. fetched # Never => fetched \in Nat /\ fetched <= now
      BY <1>0, <2>3 DEF Cached, TypeOK
    <3>2. fetched # Never => fetched <= now + Timeout
      BY <1>0, <3>1
    <3>3. \A x \in keys : x # k /\ x \in Kids
      BY <1>0, <2>3 DEF TypeOK
    <3> QED BY <1>0, <2>1, <2>2, <2>3, <3>2, <3>3 DEF Cached
  <2>6. ASSUME NEW r \in Requests
        PROVE  (Fetching(r)' => InTime(r)' /\ Answered(r)') /\ Known(r)'
    <3>1. (Fetching(r) => InTime(r) /\ Answered(r)) /\ Known(r)
      BY DEF IInv
    <3>2. Fetching(r) => request[r].began <= now
      BY <3>1 DEF InTime
    <3>3. request[r].served \in SUBSET Kids
      BY <1>0 DEF TypeOK, Request
    <3>4. Fetching(r) => Answered(r)'
      BY <2>1, <2>2, <2>3, <3>1, <3>2, <3>3 DEF Answered
    <3>5. Fetching(r)' = Fetching(r) /\ (InTime(r) => InTime(r)')
      BY <2>1 DEF Fetching, InTime
    <3>6. Known(r)'
      BY <2>1, <3>1 DEF Known
    <3> QED BY <3>1, <3>4, <3>5, <3>6
  <2> QED BY <1>0, <2>4, <2>5, <2>6 DEF IInv
<1>2. ASSUME NEW k \in Kids, Retire(k) PROVE IInv'
  <2>1. /\ published[k] # Never /\ retired[k] = Never /\ retired' = [retired EXCEPT ![k] = now]
        /\ UNCHANGED <<now, published, keys, fetched, mu, request>>
    BY <1>2 DEF Retire, Serves
  <2>2. retired'[k] = now /\ \A x \in Kids \ {k} : retired'[x] = retired[x]
    BY <1>0, <2>1 DEF TypeOK
  <2>3. Provider /\ Cached
    BY DEF IInv
  <2>4. Provider'
    BY <1>0, <2>1, <2>2, <2>3 DEF Provider
  <2>5. Cached'
    <3>1. fetched # Never => fetched \in Nat /\ fetched <= now
      BY <1>0, <2>3 DEF Cached, TypeOK
    <3>2. fetched # Never => fetched <= now + Timeout
      BY <1>0, <3>1
    <3>3. keys \in SUBSET Kids
      BY <1>0 DEF TypeOK
    <3>4. \A x \in keys : retired'[x] # Never => fetched <= retired'[x] + Timeout
      BY <2>2, <2>3, <3>2, <3>3 DEF Cached
    <3>5. \A x \in Kids : retired'[x] = Never => retired[x] = Never
      BY <1>0, <2>2
    <3> QED BY <2>1, <2>3, <3>3, <3>4, <3>5 DEF Cached
  <2>6. ASSUME NEW r \in Requests
        PROVE  (Fetching(r)' => InTime(r)' /\ Answered(r)') /\ Known(r)'
    <3>1. (Fetching(r) => InTime(r) /\ Answered(r)) /\ Known(r)
      BY DEF IInv
    <3>2. Fetching(r) => request[r].began <= now
      BY <3>1 DEF InTime
    <3>3. request[r].served \in SUBSET Kids
      BY <1>0 DEF TypeOK, Request
    <3>4. \A x \in Kids : retired'[x] = Never => retired[x] = Never
      BY <1>0, <2>2
    <3>5. \A x \in Kids : retired[x] # Never => retired'[x] # Never /\ retired'[x] = retired[x]
      BY <2>1, <2>2
    <3>6. ASSUME Fetching(r), request[r].answered PROVE Answered(r)'
      <4>1. \A x \in request[r].served : retired'[x] # Never => request[r].began <= retired'[x]
        BY <2>2, <3>1, <3>2, <3>3, <3>6 DEF Answered
      <4>2. \A x \in Kids \ request[r].served : x \in keys => retired'[x] # Never
        BY <3>1, <3>5, <3>6 DEF Answered
      <4> QED BY <2>1, <3>1, <3>3, <3>4, <3>6, <4>1, <4>2 DEF Answered
    <3>7. Fetching(r) => Answered(r)'
      BY <2>1, <3>6 DEF Answered
    <3>8. Fetching(r)' = Fetching(r) /\ (InTime(r) => InTime(r)')
      BY <2>1 DEF Fetching, InTime
    <3>9. Known(r)'
      <4>1. request[r].pc # "idle" => request[r].kid \in Kids
        BY <1>0 DEF TypeOK
      <4> QED BY <2>1, <3>1, <3>4, <4>1 DEF Known
    <3> QED BY <3>1, <3>7, <3>8, <3>9
  <2> QED BY <1>0, <2>4, <2>5, <2>6 DEF IInv
<1>3. CASE Tick
  <2>1. /\ now' = now + 1 /\ UNCHANGED <<published, retired, keys, fetched, mu, request>>
        /\ \A r \in Requests : Fetching(r) => now < request[r].began + Timeout
    BY <1>3 DEF Tick
  <2>2. \A k \in Kids : published[k] \in Nat \cup {Never} /\ retired[k] \in Nat \cup {Never}
    BY <1>0 DEF TypeOK
  <2>3. fetched \in Nat \cup {Never} /\ \A r \in Requests : request[r].began \in Nat
    BY <1>0 DEF TypeOK, Request
  <2>4. Provider'
    BY <1>0, <2>1, <2>2 DEF IInv, Provider
  <2>5. Cached'
    BY <1>0, <2>1, <2>3 DEF IInv, Cached
  <2>6. ASSUME NEW r \in Requests
        PROVE  (Fetching(r)' => InTime(r)' /\ Answered(r)') /\ Known(r)'
    <3>1. (Fetching(r) => InTime(r) /\ Answered(r)) /\ Known(r)
      BY DEF IInv
    <3>2. Fetching(r)' = Fetching(r) /\ (Answered(r) => Answered(r)') /\ (Known(r) => Known(r)')
      BY <2>1 DEF Fetching, Answered, Known
    <3>3. Fetching(r) => InTime(r)'
      BY <1>0, <2>1, <2>3, <3>1 DEF InTime
    <3> QED BY <3>1, <3>2, <3>3
  <2> QED BY <1>0, <2>4, <2>5, <2>6 DEF IInv
<1>4. ASSUME NEW r \in Requests, NEW kid \in Kids, rsaKeyfunc(r, kid) PROVE IInv'
  <2> DEFINE rec == [Idle EXCEPT !.pc = "lock", !.kid = kid, !.known = (kid \in keys \cap Serves)]
  <2>1. /\ request' = [request EXCEPT ![r] = rec]
        /\ UNCHANGED <<now, published, retired, keys, fetched, mu>>
    BY <1>4 DEF rsaKeyfunc
  <2>2. rec.pc = "lock" /\ rec.kid = kid /\ (rec.known => kid \in keys)
    BY DEF Idle
  <2>3. request'[r] = rec /\ \A q \in Requests \ {r} : request'[q] = request[q]
    BY <1>0, <2>1 DEF TypeOK
  <2> HIDE DEF rec
  <2>4. Provider' /\ Cached'
    BY <2>1 DEF IInv, Provider, Cached
  <2>5. ASSUME NEW q \in Requests \ {r}
        PROVE  (Fetching(q)' => InTime(q)' /\ Answered(q)') /\ Known(q)'
    BY <2>1, <2>3 DEF IInv, Fetching, InTime, Answered, Known
  <2>6. ~Fetching(r)' /\ Known(r)'
    BY <2>1, <2>2, <2>3 DEF Fetching, Known
  <2> QED BY <1>0, <2>4, <2>5, <2>6 DEF IInv
<1>5. ASSUME NEW r \in Requests, key(r) PROVE IInv'
  <2>1. mu = Never /\ request[r].pc = "lock" /\ UNCHANGED <<now, published, retired, keys, fetched>>
    BY <1>5 DEF key, Free
  <2>2. PICK pc \in {"stale", "verified", "refused", "missing"} :
           /\ Move(r, pc, FALSE)
           /\ pc \in {"stale", "missing"} => mu' = r
           /\ pc = "missing" => request[r].kid \notin keys
    <3>1. CASE Stale
      BY <1>5, <3>1 DEF key
    <3>2. CASE ~Stale
      BY <1>5, <3>2 DEF key, Lookup
    <3> QED BY <3>1, <3>2
  <2>3. Cached'
    BY <2>1 DEF IInv, Cached
  <2>4. \A q \in Requests \ {r} : ~Fetching(q)
    BY <2>1, Alone
  <2> QED BY <1>0, <2>1, <2>2, <2>3, <2>4, Advances
<1>6. ASSUME NEW r \in Requests, Serve(r) PROVE IInv'
  <2> DEFINE rec == [request[r] EXCEPT !.answered = TRUE, !.served = Serves]
  <2>1. /\ request' = [request EXCEPT ![r] = rec] /\ Fetching(r)
        /\ UNCHANGED <<now, published, retired, keys, fetched, mu>>
    BY <1>6 DEF Serve
  <2>2. request[r] \in Request
    BY <1>0 DEF TypeOK
  <2>3. /\ rec.pc = request[r].pc /\ rec.kid = request[r].kid /\ rec.known = request[r].known
        /\ rec.began = request[r].began /\ rec.served = Serves
    BY <2>2 DEF Request
  <2>4. request'[r] = rec /\ \A q \in Requests \ {r} : request'[q] = request[q]
    BY <1>0, <2>1 DEF TypeOK
  <2> HIDE DEF rec
  <2>5. Provider' /\ Cached'
    BY <2>1 DEF IInv, Provider, Cached
  <2>6. ASSUME NEW q \in Requests \ {r}
        PROVE  (Fetching(q)' => InTime(q)' /\ Answered(q)') /\ Known(q)'
    BY <2>1, <2>4 DEF IInv, Fetching, InTime, Answered, Known
  <2>7. InTime(r)' /\ Known(r)'
    BY <2>1, <2>3, <2>4 DEF IInv, Fetching, InTime, Known
  <2>8. Answered(r)'
    <3>1. \A k \in Serves : published[k] # Never /\ retired[k] = Never
      BY DEF Serves
    <3>2. \A k \in Kids \ Serves : published[k] # Never => retired[k] # Never
      BY DEF Serves
    <3>3. \A k \in keys : published[k] # Never
      BY DEF IInv, Cached
    <3>4. Serves' = Serves
      BY <2>1 DEF Serves
    <3> QED BY <2>1, <2>3, <2>4, <3>1, <3>2, <3>3, <3>4 DEF Answered
  <2> QED BY <1>0, <2>5, <2>6, <2>7, <2>8 DEF IInv
<1>7. ASSUME NEW r \in Requests, refreshLocked(r) PROVE IInv'
  <2>1. /\ Fetching(r) /\ UNCHANGED <<now, published, retired>>
    BY <1>7 DEF refreshLocked
  <2>2. PICK pc \in {"verified", "refused", "missing"}, failed \in BOOLEAN :
           /\ Move(r, pc, failed)
           /\ pc = "missing" => mu' = r /\ request[r].kid \notin keys'
    <3>1. CASE request[r].pc = "stale"
      <4>1. Lookup(r, keys', now, FALSE)
        BY <1>7, <3>1 DEF refreshLocked
      <4> QED BY <4>1 DEF Lookup
    <3>2. CASE request[r].pc # "stale"
      <4>1. request[r].failed \in BOOLEAN
        BY <1>0 DEF TypeOK, Request
      <4>2. Move(r, IF request[r].kid \in keys' THEN "verified" ELSE "refused", request[r].failed)
        BY <1>7, <3>2 DEF refreshLocked
      <4> QED BY <4>1, <4>2
    <3> QED BY <3>1, <3>2
  <2>3. Cached' /\ \A k \in keys : retired[k] = Never => k \in keys'
    BY <1>0, <1>7, AnswerCached
  <2>4. \A q \in Requests \ {r} : ~Fetching(q)
    BY <2>1, Alone
  <2>5. request[r].pc \in {"lock", "stale", "missing"}
    BY <2>1 DEF Fetching
  <2> QED BY <1>0, <2>1, <2>2, <2>3, <2>4, <2>5, Advances
<1>8. ASSUME NEW r \in Requests, refreshFails(r) PROVE IInv'
  <2>1. Fetching(r) /\ UNCHANGED <<now, published, retired, keys, fetched>>
    BY <1>8 DEF refreshFails
  <2>2. PICK pc \in {"verified", "refused", "missing"} :
           /\ Move(r, pc, TRUE)
           /\ pc = "missing" => mu' = r /\ request[r].kid \notin keys
    <3>1. CASE request[r].pc = "stale"
      <4>1. Lookup(r, keys, fetched, TRUE)
        BY <1>8, <3>1 DEF refreshFails
      <4> QED BY <4>1 DEF Lookup
    <3>2. CASE request[r].pc # "stale"
      BY <1>8, <3>2 DEF refreshFails
    <3> QED BY <3>1, <3>2
  <2>3. Cached'
    BY <2>1 DEF IInv, Cached
  <2>4. \A q \in Requests \ {r} : ~Fetching(q)
    BY <2>1, Alone
  <2>5. request[r].pc \in {"lock", "stale", "missing"}
    BY <2>1 DEF Fetching
  <2> QED BY <1>0, <2>1, <2>2, <2>3, <2>4, <2>5, Advances
<1>9. ASSUME NEW r \in Requests, Leave(r) PROVE IInv'
  <2>1. /\ request' = [request EXCEPT ![r] = Idle]
        /\ UNCHANGED <<now, published, retired, keys, fetched, mu>>
    BY <1>9 DEF Leave
  <2>2. request'[r] = Idle /\ \A q \in Requests \ {r} : request'[q] = request[q]
    BY <1>0, <2>1 DEF TypeOK
  <2>3. Provider' /\ Cached'
    BY <2>1 DEF IInv, Provider, Cached
  <2>4. ASSUME NEW q \in Requests \ {r}
        PROVE  (Fetching(q)' => InTime(q)' /\ Answered(q)') /\ Known(q)'
    BY <2>1, <2>2 DEF IInv, Fetching, InTime, Answered, Known
  <2>5. ~Fetching(r)' /\ Known(r)'
    BY <2>1, <2>2 DEF Fetching, Known, Idle
  <2> QED BY <1>0, <2>3, <2>4, <2>5 DEF IInv
<1>10. CASE UNCHANGED vars
  BY <1>0, <1>10 DEF vars, IInv, Provider, Cached, Fetching, InTime, Answered, Known
<1> QED BY <1>1, <1>2, <1>3, <1>4, <1>5, <1>6, <1>7, <1>8, <1>9, <1>10 DEF Next

LEMMA InvAlways == Spec => []IInv
BY InitInv, NextInv, PTL DEF Spec

(***************************************************************************)
(* Only key and its fetches decide about a request.                        *)
(***************************************************************************)
LEMMA Decided ==
    ASSUME IInv, [Next]_vars, NEW r \in Requests,
           request'[r].pc \in {"verified", "refused"}, request'[r].pc # request[r].pc
    PROVE  (key(r) /\ ~Stale) \/ refreshLocked(r) \/ refreshFails(r)
<1>0. TypeOK
  BY DEF IInv
<1>1. ASSUME NEW q \in Requests, NEW rec, request' = [request EXCEPT ![q] = rec]
      PROVE  request'[q] = rec /\ (q # r => request'[r] = request[r])
  BY <1>0, <1>1 DEF TypeOK
<1>2. request' # request
  OBVIOUS
<1>3. ASSUME NEW q \in Requests, NEW kid \in Kids, rsaKeyfunc(q, kid) PROVE FALSE
  <2> DEFINE rec == [Idle EXCEPT !.pc = "lock", !.kid = kid, !.known = (kid \in keys \cap Serves)]
  <2>1. request' = [request EXCEPT ![q] = rec] /\ rec.pc = "lock"
    BY <1>3 DEF rsaKeyfunc, Idle
  <2> HIDE DEF rec
  <2>2. request'[q] = rec /\ (q # r => request'[r] = request[r])
    BY <1>0, <2>1 DEF TypeOK
  <2> QED BY <2>1, <2>2
<1>4. ASSUME NEW q \in Requests, Serve(q) PROVE FALSE
  <2> DEFINE rec == [request[q] EXCEPT !.answered = TRUE, !.served = Serves]
  <2>1. request' = [request EXCEPT ![q] = rec] /\ rec.pc = request[q].pc
    BY <1>0, <1>4 DEF Serve, TypeOK, Request
  <2> HIDE DEF rec
  <2>2. request'[q] = rec /\ (q # r => request'[r] = request[r])
    BY <1>0, <2>1 DEF TypeOK
  <2> QED BY <2>1, <2>2
<1>5. ASSUME NEW q \in Requests, Leave(q) PROVE FALSE
  <2>1. request' = [request EXCEPT ![q] = Idle] /\ Idle.pc = "idle"
    BY <1>5 DEF Leave, Idle
  <2>2. request'[q] = Idle /\ (q # r => request'[r] = request[r])
    BY <1>0, <2>1 DEF TypeOK
  <2> QED BY <2>1, <2>2
<1>6. ASSUME NEW q \in Requests, key(q) \/ refreshLocked(q) \/ refreshFails(q) PROVE q = r
  <2>1. PICK rec : request' = [request EXCEPT ![q] = rec]
    <3>1. \E pc, failed : Move(q, pc, failed)
      <4>1. CASE key(q)
        BY <4>1 DEF key, Lookup
      <4>2. CASE refreshLocked(q)
        BY <4>2 DEF refreshLocked, Lookup
      <4>3. CASE refreshFails(q)
        BY <4>3 DEF refreshFails, Lookup
      <4> QED BY <1>6, <4>1, <4>2, <4>3
    <3> QED BY <3>1 DEF Move
  <2> QED BY <1>0, <2>1 DEF TypeOK
<1>7. ASSUME key(r) PROVE ~Stale
  <2> SUFFICES ASSUME Stale PROVE FALSE
    OBVIOUS
  <2>1. Move(r, "stale", FALSE) /\ request[r].pc = "lock"
    BY <1>7 DEF key
  <2>2. request'[r] = Moved(r, "stale", FALSE)
    BY <1>0, <2>1, MoveSets DEF Pcs
  <2> QED BY <2>2 DEF Moved
<1>8. \A k \in Kids : ~Publish(k) /\ ~Retire(k)
  BY <1>2 DEF Publish, Retire
<1>9. ~Tick /\ ~UNCHANGED vars
  BY <1>2 DEF Tick, vars
<1> QED BY <1>3, <1>4, <1>5, <1>6, <1>7, <1>8, <1>9 DEF Next

(***************************************************************************)
(* What is decided, on which keys: those of the cache, those the fetch     *)
(* brought, or, when the fetch failed, those there were.                   *)
(***************************************************************************)
LEMMA Grounds ==
    ASSUME IInv, [Next]_vars, NEW r \in Requests,
           request'[r].pc \in {"verified", "refused"}, request'[r].pc # request[r].pc
    PROVE  /\ request[r].pc \in {"lock", "stale", "missing"}
           /\ \/ /\ key(r) /\ ~Stale
                 /\ request'[r].pc = "verified" <=> request[r].kid \in keys
                 /\ request'[r].pc = "refused" => Recent(keys, fetched)
              \/ /\ refreshLocked(r)
                 /\ request'[r].pc = "verified" <=> request[r].kid \in request[r].served
              \/ /\ refreshFails(r) /\ request'[r].failed
                 /\ request[r].pc = "stale" /\ request[r].kid \in keys
                       => request'[r].pc = "verified"
<1>0. TypeOK /\ request[r].failed \in BOOLEAN
  BY DEF IInv, TypeOK, Request
<1>1. \A pc \in Pcs \ {"idle"} : \A failed \in BOOLEAN :
         request[r].pc # "idle" /\ Move(r, pc, failed)
             => request'[r].pc = pc /\ request'[r].failed = failed
  <2> TAKE pc \in Pcs \ {"idle"}
  <2> TAKE failed \in BOOLEAN
  <2> HAVE request[r].pc # "idle" /\ Move(r, pc, failed)
  <2>1. request'[r] = Moved(r, pc, failed)
    BY <1>0, MoveSets
  <2> QED BY <2>1 DEF Moved
<1>2. CASE key(r) /\ ~Stale
  <2>1. request[r].pc = "lock" /\ Lookup(r, keys, fetched, FALSE)
    BY <1>2 DEF key
  <2>2. PICK pc \in {"verified", "refused", "missing"} :
           /\ Move(r, pc, FALSE)
           /\ pc = "verified" <=> request[r].kid \in keys
           /\ pc = "refused" => Recent(keys, fetched)
    BY <2>1 DEF Lookup
  <2>3. request'[r].pc = pc
    BY <1>1, <2>1, <2>2 DEF Pcs
  <2> QED BY <1>2, <2>1, <2>2, <2>3
<1>3. CASE refreshLocked(r)
  <2>1. request[r].pc \in {"stale", "missing"} /\ keys' = request[r].served
    BY <1>3 DEF refreshLocked, Fetching
  <2>2. PICK pc \in {"verified", "refused", "missing"}, failed \in BOOLEAN :
           Move(r, pc, failed) /\ (pc = "verified" <=> request[r].kid \in keys')
    <3>1. CASE request[r].pc = "stale"
      <4>1. Lookup(r, keys', now, FALSE)
        BY <1>3, <3>1 DEF refreshLocked
      <4> QED BY <4>1 DEF Lookup
    <3>2. CASE request[r].pc # "stale"
      <4>1. Move(r, IF request[r].kid \in keys' THEN "verified" ELSE "refused", request[r].failed)
        BY <1>3, <3>2 DEF refreshLocked
      <4> QED BY <1>0, <4>1
    <3> QED BY <3>1, <3>2
  <2>3. request'[r].pc = pc
    BY <1>1, <2>1, <2>2 DEF Pcs
  <2> QED BY <1>3, <2>1, <2>2, <2>3
<1>4. CASE refreshFails(r)
  <2>1. request[r].pc \in {"stale", "missing"}
    BY <1>4 DEF refreshFails, Fetching
  <2>2. PICK pc \in {"verified", "refused", "missing"} :
           /\ Move(r, pc, TRUE)
           /\ request[r].pc = "stale" /\ request[r].kid \in keys => pc = "verified"
    <3>1. CASE request[r].pc = "stale"
      <4>1. Lookup(r, keys, fetched, TRUE)
        BY <1>4, <3>1 DEF refreshFails
      <4> QED BY <4>1 DEF Lookup
    <3>2. CASE request[r].pc # "stale"
      BY <1>4, <3>2 DEF refreshFails
    <3> QED BY <3>1, <3>2
  <2>3. request'[r].pc = pc /\ request'[r].failed = TRUE
    BY <1>1, <2>1, <2>2 DEF Pcs
  <2> QED BY <1>4, <2>1, <2>2, <2>3
<1> QED BY <1>2, <1>3, <1>4, Decided

(***************************************************************************)
(* A retired key stops verifying tokens within jwksMaxAge and the timeout  *)
(* of a fetch, unless the provider could not be asked.                     *)
(***************************************************************************)
THEOREM RetiredKeysStop == Spec => RetiredKeyStops
<1>1. ASSUME IInv, [Next]_vars, NEW r \in Requests,
             request[r].pc # "verified", request'[r].pc = "verified",
             retired[request[r].kid] # Never, ~request'[r].failed
      PROVE  now < retired[request[r].kid] + Timeout + MaxAge
  <2> DEFINE kid == request[r].kid
  <2>1. /\ TypeOK /\ now \in Nat /\ Timeout \in Nat /\ MaxAge \in Nat \ {0} /\ Never \notin Nat
        /\ request[r].began \in Nat /\ fetched \in Nat \cup {Never}
    BY <1>1, KeyCacheAssumption DEF IInv, TypeOK, Request
  <2>2. request[r].pc \in {"lock", "stale", "missing"}
    BY <1>1, Grounds
  <2>3. kid \in Kids /\ retired[kid] \in Nat
    BY <1>1, <2>1, <2>2 DEF TypeOK
  <2>4. CASE ~Stale /\ kid \in keys
    <3>1. fetched \in Nat /\ now < fetched + MaxAge /\ fetched <= retired[kid] + Timeout
      BY <1>1, <2>1, <2>4 DEF IInv, Cached, Stale
    <3> QED BY <2>1, <2>3, <3>1
  <2>5. CASE refreshLocked(r) /\ kid \in request[r].served
    <3>1. Answered(r) /\ InTime(r) /\ request[r].answered
      BY <1>1, <2>5 DEF IInv, refreshLocked
    <3>2. request[r].began <= retired[kid] /\ now <= request[r].began + Timeout
      BY <1>1, <2>5, <3>1 DEF Answered, InTime
    <3> QED BY <2>1, <2>3, <3>2
  <2> QED BY <1>1, <2>4, <2>5, Grounds
<1>2. IInv /\ [Next]_vars
      => [ \A r \in Requests :
             request[r].pc # "verified" /\ request'[r].pc = "verified"
             => LET kid == request[r].kid
                IN \/ retired[kid] = Never
                   \/ now < retired[kid] + Timeout + MaxAge
                   \/ request'[r].failed ]_vars
  BY <1>1
<1> QED BY <1>2, InvAlways, PTL DEF Spec, RetiredKeyStops

(***************************************************************************)
(* A new key works within jwksMinRefresh and the timeout of a fetch.       *)
(***************************************************************************)
THEOREM NewKeysWork == Spec => NewKeyWorks
<1>1. ASSUME IInv, [Next]_vars, NEW r \in Requests,
             request[r].pc # "refused", request'[r].pc = "refused",
             published[request[r].kid] # Never, retired[request[r].kid] = Never,
             ~request'[r].failed
      PROVE  now <= published[request[r].kid] + Timeout + MinRefresh
  <2> DEFINE kid == request[r].kid
  <2>1. /\ TypeOK /\ now \in Nat /\ Timeout \in Nat /\ MinRefresh \in Nat /\ Never \notin Nat
        /\ request[r].began \in Nat /\ fetched \in Nat \cup {Never}
    BY <1>1, KeyCacheAssumption DEF IInv, TypeOK, Request
  <2>2. request[r].pc \in {"lock", "stale", "missing"}
    BY <1>1, Grounds
  <2>3. kid \in Kids /\ published[kid] \in Nat
    BY <1>1, <2>1, <2>2 DEF TypeOK
  <2>4. CASE kid \notin keys /\ Recent(keys, fetched)
    <3>1. fetched \in Nat /\ now < fetched + MinRefresh /\ fetched <= published[kid] + Timeout
      BY <1>1, <2>1, <2>3, <2>4 DEF IInv, Cached, Recent
    <3> QED BY <2>1, <2>3, <3>1
  <2>5. CASE refreshLocked(r) /\ kid \notin request[r].served
    <3>1. Answered(r) /\ InTime(r) /\ request[r].answered
      BY <1>1, <2>5 DEF IInv, refreshLocked
    <3>2. request[r].began <= published[kid] /\ now <= request[r].began + Timeout
      BY <1>1, <2>3, <2>5, <3>1 DEF Answered, InTime
    <3> QED BY <2>1, <2>3, <3>2
  <2>6. "refused" # "verified"
    OBVIOUS
  <2> QED BY <1>1, <2>4, <2>5, <2>6, Grounds
<1>2. IInv /\ [Next]_vars
      => [ \A r \in Requests :
             request[r].pc # "refused" /\ request'[r].pc = "refused"
             => LET kid == request[r].kid
                IN \/ published[kid] = Never \/ retired[kid] # Never
                   \/ now <= published[kid] + Timeout + MinRefresh
                   \/ request'[r].failed ]_vars
  BY <1>1
<1> QED BY <1>2, InvAlways, PTL DEF Spec, NewKeyWorks

(***************************************************************************)
(* Neither an outage of the provider nor another request's fetch refuses a *)
(* key the cache had and the provider still publishes.                     *)
(***************************************************************************)
THEOREM OutageIsSurvived == Spec => OutageSignsNobodyOut
<1>1. ASSUME IInv, [Next]_vars, NEW r \in Requests,
             request[r].known, request[r].pc # "refused", request'[r].pc = "refused",
             retired[request[r].kid] = Never
      PROVE  FALSE
  <2>1. request[r].pc \in {"lock", "stale", "missing"}
    BY <1>1, Grounds
  <2>2. request[r].kid \in keys /\ request[r].kid \in Kids
    BY <1>1, <2>1 DEF IInv, Known, TypeOK
  <2>3. CASE refreshLocked(r) /\ request[r].kid \notin request[r].served
    <3>1. Answered(r) /\ request[r].answered
      BY <1>1, <2>3 DEF IInv, refreshLocked
    <3> QED BY <1>1, <2>2, <2>3, <3>1 DEF Answered
  <2>4. CASE refreshFails(r) /\ ~(request[r].pc = "stale" /\ request[r].kid \in keys)
    <3>1. Fetching(r) /\ request[r].pc = "missing"
      BY <2>2, <2>4 DEF refreshFails, Fetching
    <3> QED BY <1>1, <2>2, <3>1 DEF IInv, InTime
  <2> QED BY <1>1, <2>2, <2>3, <2>4, Grounds
<1>2. IInv /\ [Next]_vars
      => [ \A r \in Requests :
             request[r].known /\ request[r].pc # "refused" /\ request'[r].pc = "refused"
             => retired[request[r].kid] # Never ]_vars
  BY <1>1
<1> QED BY <1>2, InvAlways, PTL DEF Spec, OutageSignsNobodyOut
=============================================================================
