------------------------- MODULE PolicyConfigCache -------------------------
(***************************************************************************)
(* How the policy file of a base branch is read and cached                 *)
(* (server/handler/policy_config_cache.go, fetcher.go).  Callers, which    *)
(* are webhook workers and HTTP handlers, look a branch up in a cache that *)
(* is bounded in bytes, expires its entries and shares one load between    *)
(* all the callers that miss the same branch; the load is a goroutine of   *)
(* its own that reads GitHub with retries.                                 *)
(*                                                                         *)
(* The mutex of the cache makes each of its critical sections one action.  *)
(***************************************************************************)
EXTENDS Integers, Sequences, FiniteSets

CONSTANTS
  Callers,      \* goroutines that look a policy up
  Keys,         \* the SeenPolicyKeys: owner, repository and base branch
  Loads,        \* identities of policyConfigLoad objects
  Policies,     \* policy files GitHub can hold for a branch
  Undefined,    \* the appconfig.Config of a branch with no policy file
  NoEntry,      \* absent from the entries map
  NoLoad,       \* absent from the inFlight map
  EntrySize,    \* policyConfigCacheEntrySize of a key and a config
  TTL,          \* ttl, in clock ticks
  MaxSize,      \* maxSize
  MaxRetries,   \* 3 in loadConfigWithRetries
  Edited,       \* bound: the branches whose policy changes while we watch
  MaxTime       \* bound of the clock

Configs == Policies \union {Undefined}

VARIABLES
  off,          \* the cache is disabled: no ttl or no maxSize is configured
  remote,       \* the policy GitHub holds for each branch
  replacedAt,   \* history: when a branch last stopped holding a config
  clock,        \* the server's clock, read through c.now()
  entries,      \* c.entries, a map from keys to elements of the list
  lru,          \* c.lru, least recently used first
  recency,      \* history: the keys used so far, least recently used first
  size,         \* c.size
  inFlight,     \* c.inFlight
  load,         \* the policyConfigLoad objects and the goroutines that fill them
  caller        \* where each caller stands

cacheVars == <<entries, lru, recency, size, inFlight>>
vars == <<off, remote, replacedAt, clock, entries, lru, recency, size, inFlight, load,
          caller>>

(* What a loader returns: a config, or an error. *)
Err == [ok |-> FALSE, config |-> Undefined]
Ok(config) == [ok |-> TRUE, config |-> config]
Results == {Err} \union {Ok(config) : config \in Configs}

(* A cached entry; the times its load began and ended are history. *)
Elements == [key : Keys, config : Configs, expiresAt : Nat, startedAt : Nat,
             storedAt : Nat]

ASSUME ConstantsAssumption ==
  /\ Undefined \notin Policies
  /\ Keys # {}
  /\ EntrySize \in [Keys \X Configs -> Nat \ {0}]
  /\ TTL \in Nat \ {0} /\ MaxSize \in Nat \ {0} /\ MaxRetries \in Nat /\ MaxTime \in Nat
  /\ Edited \subseteq Keys
  /\ NoLoad \notin Loads
  /\ NoEntry \notin Elements

Idle == [pc |-> "idle"]
Waiting(k, l) == [pc |-> "waiting", key |-> k, load |-> l]
Returning(k, result) == [pc |-> "returning", key |-> k, result |-> result]

CallerStates ==
  {Idle} \union {Waiting(k, l) : k \in Keys, l \in Loads}
         \union {Returning(k, r) : k \in Keys, r \in Results}

LoadStates == [state : {"unused", "running", "loaded", "done"}, key : Keys,
               retries : Nat, result : Results, startedAt : Nat]

UnusedLoad == [state |-> "unused", key |-> CHOOSE k \in Keys : TRUE, retries |-> 0,
               result |-> Err, startedAt |-> 0]

(* A load object no map and no goroutine refers to is garbage: its identity *)
(* becomes free for another load.                                           *)
Collected(loads, registered, waiters) ==
  [l \in Loads |->
     IF \/ \E k \in Keys : registered[k] = l
        \/ \E c \in Callers : waiters[c].pc = "waiting" /\ waiters[c].load = l
     THEN loads[l] ELSE UnusedLoad]

(* Mistaken: an entry never expires. *)
FreshForever(k) == entries[k] # NoEntry

Fresh(k) == entries[k] # NoEntry /\ clock < entries[k].expiresAt

(***************************************************************************)
(* The list operations the cache uses.                                     *)
(***************************************************************************)
Without(s, e) ==
  LET at == CHOOSE i \in 1..Len(s) : s[i] = e
  IN  [i \in 1..(Len(s) - 1) |-> IF i < at THEN s[i] ELSE s[i + 1]]

DropFront(s, n) == [i \in 1..(Len(s) - n) |-> s[i + n]]

Used(k) ==
  LET others == IF \E i \in 1..Len(recency) : recency[i] = k THEN Without(recency, k) ELSE recency
  IN  Append(others, k)

SizeOf(element) == EntrySize[<<element.key, element.config>>]

(* SizeOfFirst(s)[n] is the size of the n least recently used elements. *)
SizeOfFirst(s) ==
  LET sum[n \in 0..Len(s)] == IF n = 0 THEN 0 ELSE sum[n - 1] + SizeOf(s[n])
  IN  sum

(* The loop "for c.size > c.maxSize" removes n elements. *)
Evicts(n, s, total) ==
  LET fits(m) == total - SizeOfFirst(s)[m] <= MaxSize
  IN  fits(n) /\ \A m \in 0..(n - 1) : ~fits(m)

-----------------------------------------------------------------------------
Init ==
  /\ off \in BOOLEAN
  /\ remote \in [Keys -> Configs]
  /\ replacedAt = [k \in Keys |-> [config \in Configs |-> 0]]
  /\ clock = 0
  /\ entries = [k \in Keys |-> NoEntry]
  /\ lru = <<>>
  /\ recency = <<>>
  /\ size = 0
  /\ inFlight = [k \in Keys |-> NoLoad]
  /\ load = [l \in Loads |-> UnusedLoad]
  /\ caller = [c \in Callers |-> Idle]

(* Mistaken: a hit does not move its element to the back. *)
HitInPlace(c, k) ==
  /\ ~off
  /\ caller[c] = Idle
  /\ Fresh(k)
  /\ recency' = Used(k)
  /\ caller' = [caller EXCEPT ![c] = Returning(k, Ok(entries[k].config))]
  /\ UNCHANGED <<off, remote, replacedAt, clock, entries, lru, size, inFlight, load>>

(* load: the entry is there and has not expired. *)
Hit(c, k) ==
  /\ ~off
  /\ caller[c] = Idle
  /\ Fresh(k)
  /\ lru' = Append(Without(lru, entries[k]), entries[k])
  /\ recency' = Used(k)
  /\ caller' = [caller EXCEPT ![c] = Returning(k, Ok(entries[k].config))]
  /\ UNCHANGED <<off, remote, replacedAt, clock, entries, size, inFlight, load>>

(* Mistaken: the list keeps an expired element; the size keeps its bytes;   *)
(* an expired entry stays until it is overwritten.                          *)
RemoveFromMap(k) ==
  IF entries[k] = NoEntry
    THEN UNCHANGED <<entries, lru, size>>
    ELSE /\ entries' = [entries EXCEPT ![k] = NoEntry]
         /\ size' = size - SizeOf(entries[k])
         /\ UNCHANGED lru

RemoveButCount(k) ==
  IF entries[k] = NoEntry
    THEN UNCHANGED <<entries, lru, size>>
    ELSE /\ entries' = [entries EXCEPT ![k] = NoEntry]
         /\ lru' = Without(lru, entries[k])
         /\ UNCHANGED size

RemoveLater(k) == UNCHANGED <<entries, lru, size>>

(* removeElement, for an expired entry. *)
RemoveExpired(k) ==
  IF entries[k] = NoEntry
    THEN UNCHANGED <<entries, lru, size>>
    ELSE /\ entries' = [entries EXCEPT ![k] = NoEntry]
         /\ lru' = Without(lru, entries[k])
         /\ size' = size - SizeOf(entries[k])

(* Mistaken: the first attempt counts as a retry to come. *)
StartedBelowZero(k) ==
  [state |-> "running", key |-> k, retries |-> -1, result |-> Err, startedAt |-> clock]

StartedLoad(k) ==
  [state |-> "running", key |-> k, retries |-> 0, result |-> Err, startedAt |-> clock]

(* Mistaken: the load in flight of any branch will do. *)
JoinAnyLoad(c, k) ==
  /\ ~off
  /\ caller[c] = Idle
  /\ ~Fresh(k)
  /\ RemoveExpired(k)
  /\ \E j \in Keys :
       /\ inFlight[j] # NoLoad
       /\ caller' = [caller EXCEPT ![c] = Waiting(k, inFlight[j])]
  /\ UNCHANGED <<off, remote, replacedAt, clock, recency, inFlight, load>>

(* load: a miss while another caller's load is in flight joins that load. *)
JoinLoad(c, k) ==
  /\ ~off
  /\ caller[c] = Idle
  /\ ~Fresh(k)
  /\ inFlight[k] # NoLoad
  /\ RemoveExpired(k)
  /\ caller' = [caller EXCEPT ![c] = Waiting(k, inFlight[k])]
  /\ UNCHANGED <<off, remote, replacedAt, clock, recency, inFlight, load>>

(* Mistaken: every miss starts a load. *)
StartLoadAlways(c, k) ==
  /\ ~off
  /\ caller[c] = Idle
  /\ ~Fresh(k)
  /\ RemoveExpired(k)
  /\ \E l \in Loads :
       /\ load[l] = UnusedLoad
       /\ inFlight' = [inFlight EXCEPT ![k] = l]
       /\ load' = [load EXCEPT ![l] = StartedLoad(k)]
       /\ caller' = [caller EXCEPT ![c] = Waiting(k, l)]
  /\ UNCHANGED <<off, remote, replacedAt, clock, recency>>

(* load: a miss with nothing in flight starts a load and waits for it. *)
StartLoad(c, k) ==
  /\ ~off
  /\ caller[c] = Idle
  /\ ~Fresh(k)
  /\ inFlight[k] = NoLoad
  /\ RemoveExpired(k)
  /\ \E l \in Loads :
       /\ load[l] = UnusedLoad
       /\ inFlight' = [inFlight EXCEPT ![k] = l]
       /\ load' = [load EXCEPT ![l] = StartedLoad(k)]
       /\ caller' = [caller EXCEPT ![c] = Waiting(k, l)]
  /\ UNCHANGED <<off, remote, replacedAt, clock, recency>>

(* load: with the cache off, the caller runs the loader itself. *)
LoadDirectly(c, k) ==
  /\ off
  /\ caller[c] = Idle
  /\ \E l \in Loads :
       /\ load[l] = UnusedLoad
       /\ load' = [load EXCEPT ![l] = StartedLoad(k)]
       /\ caller' = [caller EXCEPT ![c] = Waiting(k, l)]
  /\ UNCHANGED <<off, remote, replacedAt, clock, cacheVars>>

(***************************************************************************)
(* loadConfigWithRetries: one call of Loader.LoadConfig.  It returns what  *)
(* GitHub holds at that moment, fails for good, or fails with a timeout or *)
(* a server error, which is retried up to MaxRetries times.  The delay     *)
(* between two attempts is the time that passes between two such steps.    *)
(***************************************************************************)
AttemptLoad(l) ==
  /\ load[l].state = "running"
  /\ \/ load' = [load EXCEPT ![l].state = "loaded", ![l].result = Ok(remote[load[l].key])]
     \/ load' = [load EXCEPT ![l].state = "loaded", ![l].result = Err]
     \/ /\ load[l].retries < MaxRetries
        /\ load' = [load EXCEPT ![l].retries = @ + 1]
  /\ UNCHANGED <<off, remote, replacedAt, clock, cacheVars, caller>>

(* Mistaken: a load that failed does not close its done channel. *)
AnsweredIfLoaded(l) == IF load[l].result.ok THEN [load EXCEPT ![l].state = "done"] ELSE load

(* close(flight.done) *)
Answered(l) == [load EXCEPT ![l].state = "done"]

(* loadAndStore, once the loader has returned: the second critical section. *)
StoreLoad(l) ==
  LET k == load[l].key
      element == [key |-> k, config |-> load[l].result.config,
                  expiresAt |-> clock + TTL, startedAt |-> load[l].startedAt,
                  storedAt |-> clock]
      pushed == Append(lru, element)
      total == size + SizeOf(element)
  IN
  /\ ~off
  /\ load[l].state = "loaded"
  /\ inFlight' = [inFlight EXCEPT ![k] = NoLoad]
  /\ load' = Collected(Answered(l), inFlight', caller)
  /\ \/ /\ load[l].result.ok
        /\ recency' = Used(k)
        /\ \E n \in 0..Len(pushed) :
             /\ Evicts(n, pushed, total)
             /\ size' = total - SizeOfFirst(pushed)[n]
             /\ lru' = DropFront(pushed, n)
             /\ entries' = [j \in Keys |->
                  IF \E i \in 1..n : pushed[i].key = j THEN NoEntry
                  ELSE IF j = k THEN element ELSE entries[j]]
     \/ /\ ~load[l].result.ok
        /\ UNCHANGED <<entries, lru, recency, size>>
  /\ UNCHANGED <<off, remote, replacedAt, clock, caller>>

(* The done channel of the load is closed, or the direct load has returned. *)
Receive(c) ==
  /\ caller[c].pc = "waiting"
  /\ load[caller[c].load].state = IF off THEN "loaded" ELSE "done"
  /\ UNCHANGED cacheVars
  /\ caller' = [caller EXCEPT ![c] = Returning(@.key, load[@.load].result)]
  /\ load' = Collected(load, inFlight, caller')
  /\ UNCHANGED <<off, remote, replacedAt, clock>>

(* The caller's context ends first; a shared load goes on without it. *)
Cancel(c) ==
  /\ caller[c].pc = "waiting"
  /\ UNCHANGED cacheVars
  /\ caller' = [caller EXCEPT ![c] = Returning(@.key, Err)]
  /\ load' = Collected(load, inFlight, caller')
  /\ UNCHANGED <<off, remote, replacedAt, clock>>

(* load returns to ConfigForRepositoryBranch. *)
Return(c) ==
  /\ caller[c].pc = "returning"
  /\ caller' = [caller EXCEPT ![c] = Idle]
  /\ UNCHANGED <<off, remote, replacedAt, clock, cacheVars, load>>

(* Somebody pushes another policy, or none, to the base branch. *)
ChangeRemote(k) ==
  /\ k \in Edited
  /\ \E config \in Configs \ {remote[k]} : remote' = [remote EXCEPT ![k] = config]
  /\ replacedAt' = [replacedAt EXCEPT ![k][remote[k]] = clock]
  /\ UNCHANGED <<off, clock, cacheVars, load, caller>>

Tick ==
  /\ clock < MaxTime
  /\ clock' = clock + 1
  /\ UNCHANGED <<off, remote, replacedAt, cacheVars, load, caller>>

Next ==
  \/ \E c \in Callers, k \in Keys :
       Hit(c, k) \/ JoinLoad(c, k) \/ StartLoad(c, k) \/ LoadDirectly(c, k)
  \/ \E l \in Loads : AttemptLoad(l) \/ StoreLoad(l)
  \/ \E c \in Callers : Receive(c) \/ Cancel(c) \/ Return(c)
  \/ \E k \in Keys : ChangeRemote(k)
  \/ Tick

Spec == Init /\ [][Next]_vars

(***************************************************************************)
(* Go runs every runnable goroutine: a loader makes its next attempt (its  *)
(* HTTP calls return or time out), a load that has returned is stored, and *)
(* a caller whose load is done goes on.  No caller need ask again.         *)
(***************************************************************************)
Fairness ==
  /\ \A l \in Loads : WF_vars(AttemptLoad(l)) /\ WF_vars(StoreLoad(l))
  /\ \A c \in Callers : WF_vars(Receive(c)) /\ WF_vars(Return(c))

FairSpec == Spec /\ Fairness

-----------------------------------------------------------------------------
(***************************************************************************)
(* Type correctness.  What size and recency hold is part of                *)
(* SizeIsAccounted and LeastRecentlyUsedFirst.                             *)
(***************************************************************************)
TypeOK ==
  /\ off \in BOOLEAN
  /\ remote \in [Keys -> Configs]
  /\ replacedAt \in [Keys -> [Configs -> Nat]]
  /\ clock \in Nat
  /\ entries \in [Keys -> Elements \union {NoEntry}]
  /\ lru \in Seq(Elements)
  /\ inFlight \in [Keys -> Loads \union {NoLoad}]
  /\ load \in [Loads -> LoadStates]
  /\ caller \in [Callers -> CallerStates]

(***************************************************************************)
(* The map and the list describe the same entries, one per key: the        *)
(* pointers removeElement follows from one to the other never dangle.      *)
(***************************************************************************)
MapAndListAgree ==
  /\ \A i \in 1..Len(lru) : entries[lru[i].key] = lru[i]
  /\ \A i, j \in 1..Len(lru) : lru[i].key = lru[j].key => i = j
  /\ \A k \in Keys : entries[k] # NoEntry =>
       /\ entries[k].key = k
       /\ \E i \in 1..Len(lru) : lru[i] = entries[k]

(* An entry and a load of one key never coexist; loadAndStore relies on it  *)
(* when it overwrites c.entries[key] without removing an older element.     *)
LoadsOnlyWhatIsMissing ==
  \A k \in Keys : inFlight[k] # NoLoad => entries[k] = NoEntry

(* At most one loader reads GitHub for a branch at a time: every running    *)
(* load is the one registered in inFlight, and what is registered runs.     *)
SingleFlight ==
  /\ \A k \in Keys : inFlight[k] # NoLoad =>
       load[inFlight[k]].key = k /\ load[inFlight[k]].state \in {"running", "loaded"}
  /\ ~off => \A l \in Loads :
       load[l].state \in {"running", "loaded"} => inFlight[load[l].key] = l

(* A caller waits for a load of the branch it asked for, and that load is   *)
(* running or already done: no caller waits for a load that was dropped or  *)
(* reused for another branch.                                               *)
WaitersKeepTheirLoad ==
  \A c \in Callers : caller[c].pc = "waiting" =>
    /\ load[caller[c].load].key = caller[c].key
    /\ load[caller[c].load].state # "unused"

(* c.size is the size of what is cached, and within the bound whenever the  *)
(* mutex is free, so the eviction loop never runs off an empty list.        *)
SizeIsAccounted == size = SizeOfFirst(lru)[Len(lru)] /\ size <= MaxSize

(* The list is in order of use, so that evicting from its front removes the *)
(* policies that have gone unused for longest.                              *)
LeastRecentlyUsedFirst ==
  LET rank(k) == CHOOSE i \in 1..Len(recency) : recency[i] = k
  IN  \A i, j \in 1..Len(lru) : i < j => rank(lru[i].key) < rank(lru[j].key)

(* A policy served from the cache was GitHub's at most TTL, plus the time   *)
(* its load took, before it is served: an expired entry is never served.    *)
HitsAreRecent ==
  [][\A c \in Callers :
       (caller[c] = Idle /\ caller'[c] # Idle /\ caller'[c].pc = "returning") =>
         LET k == caller'[c].key
             config == caller'[c].result.config
             loadTime == entries[k].storedAt - entries[k].startedAt
         IN  \/ remote[k] = config
             \/ clock - replacedAt[k][config] < TTL + loadTime]_vars

(* Every caller that waits for a policy gets an answer: neither a failed    *)
(* load nor a cancelled first caller leaves the others waiting.             *)
EveryLookupReturns ==
  \A c \in Callers : caller[c].pc = "waiting" ~> caller[c] = Idle

(* What the proofs carry from step to step. *)
CacheInv ==
  TypeOK /\ MapAndListAgree /\ LoadsOnlyWhatIsMissing /\ SingleFlight /\ WaitersKeepTheirLoad
=============================================================================
