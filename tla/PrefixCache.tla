---------------------------- MODULE PrefixCache ----------------------------
(***************************************************************************)
(* The prefix cache of engine/prefix_cache.cpp: token sequences with the   *)
(* ids of the KV blocks that hold them, and two time stamps.  find_prefix  *)
(* ages an entry by created_at, eviction and cleanup by last_access.       *)
(*                                                                         *)
(* Every operation runs under mutex_ and is one step.  The hash map's      *)
(* order decides between equals.  The KV cache is external: it owns the    *)
(* blocks, and nothing tells the prefix cache when it gives them to        *)
(* another sequence; TTL is all that bounds how long it hands them out.    *)
(***************************************************************************)
EXTENDS Integers, Sequences, FiniteSets, FiniteSetsExt, SequencesExt

CONSTANTS
  Prompts,          \* the token sequences that callers use
  KVBlockSize,      \* tokens in a block of the KV cache
  MinTokens, MaxEntries, TTL,      \* config_
  ThresholdNum, ThresholdDen,      \* config_.similarity_threshold
  MaxStores, MaxTime               \* bounds: store_prefix calls, seconds

ASSUME PromptsAssumption == Prompts \subseteq Seq(Nat) \ {<<>>}
ASSUME CacheSizesAssumption ==
  /\ KVBlockSize \in Nat \ {0} /\ MinTokens \in Nat \ {0} /\ MaxEntries \in Nat \ {0} /\ TTL \in Nat
  /\ ThresholdNum \in Nat \ {0} /\ ThresholdDen \in Nat \ {0}
ASSUME CacheBoundsAssumption == MaxStores \in Nat /\ MaxTime \in Nat

VARIABLES
  cache,    \* cache_: a set of entries, the hash table flattened
  stores,   \* entries made so far: gives each its id
  now,      \* the clock, in seconds
  match     \* history: the last hit, what find_prefix returned, of which entry and when

cacheVars == <<cache, stores, now, match>>

NoMatch == [length |-> 0, blocks |-> 0, id |-> 0, created |-> 0, at |-> 0]

CacheInit == cache = {} /\ stores = 0 /\ now = 0 /\ match = NoMatch

---------------------------------------------------------------------------
BlocksFor(n) == (n + KVBlockSize - 1) \div KVBlockSize

\* find_lcp(a, b).
Lcp(a, b) == Max({n \in 0..Min({Len(a), Len(b)}) : SubSeq(a, 1, n) = SubSeq(b, 1, n)})

\* Slip: the entry is aged by its last hit.
LiveByAccess(e) == now - e.used <= TTL

Live(e) == now - e.created <= TTL

Significant(e, tokens) ==
  LET n == Lcp(tokens, e.tokens) IN
    n >= MinTokens /\ n * ThresholdDen >= ThresholdNum * Len(e.tokens)

\* The entries that find_prefix may choose: the longest match, the first that it meets.
Best(tokens) ==
  LET C == {e \in cache : Live(e) /\ Significant(e, tokens)} IN
    {e \in C : \A d \in C : Lcp(tokens, d.tokens) <= Lcp(tokens, e.tokens)}

\* Slip: whole blocks only.
ReusableWhole(e, n) == Min({n \div KVBlockSize, e.blocks})

\* How many of the entry's blocks a match of n tokens reuses.
Reusable(e, n) == Min({BlocksFor(n), e.blocks})

\* Slip: a hit does not count as a use.
HitUncounted(e, tokens) ==
  LET n == Lcp(tokens, e.tokens) IN
    /\ match' = [length |-> n, blocks |-> Reusable(e, n), id |-> e.id, created |-> e.created,
                  at |-> now]
    /\ UNCHANGED <<cache, stores, now>>

Hit(e, tokens) ==
  LET n == Lcp(tokens, e.tokens) IN
    /\ match' = [length |-> n, blocks |-> Reusable(e, n), id |-> e.id, created |-> e.created,
                  at |-> now]
    /\ cache' = (cache \ {e}) \cup {[e EXCEPT !.used = now]}
    /\ UNCHANGED <<stores, now>>

\* find_prefix() that hits; a miss changes nothing.
FindPrefix(tokens) ==
  /\ Len(tokens) >= MinTokens
  /\ \E e \in Best(tokens) : Hit(e, tokens)

\* What store_prefix may remove when the cache is full.
Idlest == {e \in cache : \A d \in cache : e.used <= d.used}

\* Slip: room is made only when there is one too many already.
KeptAfterTheLimit ==
  IF Cardinality(cache) <= MaxEntries THEN {cache} ELSE {cache \ {e} : e \in Idlest}

\* What is left of the cache before a store: one entry goes when it is full.
Kept == IF Cardinality(cache) < MaxEntries THEN {cache} ELSE {cache \ {e} : e \in Idlest}

\* store_prefix(): no look-up, so a prefix may be stored twice.  The caller passes the
\* blocks that hold the tokens.
StorePrefix(tokens) ==
  /\ Len(tokens) >= MinTokens /\ stores < MaxStores /\ stores' = stores + 1
  /\ \E K \in Kept :
       cache' = K \cup {[id |-> stores', tokens |-> tokens, blocks |-> BlocksFor(Len(tokens)),
                         created |-> now, used |-> now]}
  /\ UNCHANGED <<now, match>>

Invalidate ==
  /\ cache # {} /\ cache' = {}
  /\ UNCHANGED <<stores, now, match>>

\* Slip: an entry goes in its last second.
StaleEarly(e) == now - e.used >= TTL

\* cleanup_expired().
Stale(e) == now - e.used > TTL

CleanupExpired ==
  /\ cache' = {e \in cache : ~Stale(e)} /\ cache' # cache
  /\ UNCHANGED <<stores, now, match>>

Tick == now < MaxTime /\ now' = now + 1 /\ UNCHANGED <<cache, stores, match>>

CacheNext == \/ \E p \in Prompts : FindPrefix(p) \/ StorePrefix(p)
        \/ Invalidate \/ CleanupExpired \/ Tick

CacheSpec == CacheInit /\ [][CacheNext]_cacheVars

---------------------------------------------------------------------------
\* The shape of the state; the cache keeps to max_entries.
CacheTypeOK ==
  /\ cache \subseteq [id : 1..stores, tokens : Prompts, blocks : Nat, created : 0..now, used : 0..now]
  /\ \A d, e \in cache : d.id = e.id => d = e
  /\ Cardinality(cache) <= MaxEntries
  /\ stores \in 0..MaxStores /\ now \in 0..MaxTime
  /\ match \in [length : Nat, blocks : Nat, id : 0..stores, created : 0..now, at : 0..now]

\* A hit hands out block ids that their owner gave at most TTL ago, however often the entry
\* was hit in between: a block that was freed and reused is not handed out for ever.
HitIsYoung == match.at - match.created <= TTL

\* The blocks of a hit are just enough for the tokens it reports, also when the match ends
\* inside a block or inside the entry.
HitIsCovered ==
  /\ match.length <= match.blocks * KVBlockSize
  /\ match.length > 0 => (match.blocks - 1) * KVBlockSize < match.length

\* What find_prefix hands out: block ids no older than the TTL, and just enough of them.
HitIsSound == CacheTypeOK /\ HitIsYoung /\ HitIsCovered

\* cleanup_expired, which looks at last_access, removes nothing that find_prefix, which looks
\* at created_at, could still return.
CleanupSparesLive == [][CleanupExpired => \A e \in cache \ cache' : ~Live(e)]_cacheVars

\* A full cache gives up the entry that was hit last only if all others were stored or hit
\* no earlier than that.
EvictionSparesTheHit ==
  [][stores' > stores /\ (\E e \in cache \ cache' : e.id = match.id)
       => \A d \in cache : d.used >= match.at]_cacheVars

\* Three orders in one cache, created_at for hits, last_access for the cleanup and for the
\* eviction: none of them removes what another would still use.
RemovalSparesTheLive == CleanupSparesLive /\ EvictionSparesTheHit
===========================================================================
