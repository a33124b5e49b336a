---------------------- MODULE PolicyConfigCacheProofs ----------------------
(***************************************************************************)
(* The policy cache keeps its map, its list and its in-flight loads        *)
(* consistent, for any number of callers, branches and policies.           *)
(***************************************************************************)
EXTENDS PolicyConfigCache, SequenceTheorems, WellFounded, TLAPS

(* Removing one element of a sequence shifts what follows it. *)
LEMMA WithoutProperties ==
  ASSUME NEW S, NEW s \in Seq(S), NEW p \in 1..Len(s),
         \A i, j \in 1..Len(s) : s[i] = s[j] => i = j
  PROVE  /\ Without(s, s[p]) \in Seq(S)
         /\ Len(Without(s, s[p])) = Len(s) - 1
         /\ \A i \in 1..(Len(s) - 1) :
              Without(s, s[p])[i] = IF i < p THEN s[i] ELSE s[i + 1]
<1>1. (CHOOSE i \in 1..Len(s) : s[i] = s[p]) = p
  OBVIOUS
<1>2. Without(s, s[p]) = [i \in 1..(Len(s) - 1) |-> IF i < p THEN s[i] ELSE s[i + 1]]
  BY <1>1 DEF Without
<1>3. Len(s) - 1 \in Nat
  OBVIOUS
<1>4. \A i \in 1..(Len(s) - 1) : (IF i < p THEN s[i] ELSE s[i + 1]) \in S
  OBVIOUS
<1>5. QED
  BY <1>2, <1>3, <1>4

LEMMA DropFrontProperties ==
  ASSUME NEW S, NEW s \in Seq(S), NEW n \in 0..Len(s)
  PROVE  /\ DropFront(s, n) \in Seq(S)
         /\ Len(DropFront(s, n)) = Len(s) - n
         /\ \A i \in 1..(Len(s) - n) : DropFront(s, n)[i] = s[i + n]
  BY DEF DropFront

(* Removing the expired entry of a branch leaves the map and the list in    *)
(* agreement and takes no other entry away.                                 *)
LEMMA RemoveExpiredKeepsAgreement ==
  ASSUME TypeOK, MapAndListAgree, NEW k \in Keys, RemoveExpired(k)
  PROVE  /\ entries' \in [Keys -> Elements \union {NoEntry}]
         /\ lru' \in Seq(Elements)
         /\ MapAndListAgree'
         /\ entries'[k] = NoEntry
         /\ \A j \in Keys : entries'[j] \in {entries[j], NoEntry}
<1>1. CASE entries[k] = NoEntry
  BY <1>1 DEF RemoveExpired, TypeOK, MapAndListAgree
<1>2. CASE entries[k] # NoEntry
  <2>1. PICK p \in 1..Len(lru) : lru[p] = entries[k] /\ entries[k].key = k
    BY <1>2 DEF MapAndListAgree
  <2>2. \A i, j \in 1..Len(lru) : lru[i] = lru[j] => i = j
    BY DEF MapAndListAgree
  <2>3. /\ lru' = Without(lru, lru[p])
        /\ entries' = [entries EXCEPT ![k] = NoEntry]
    BY <1>2, <2>1 DEF RemoveExpired
  <2>4. /\ lru' \in Seq(Elements)
        /\ Len(lru') = Len(lru) - 1
        /\ \A i \in 1..(Len(lru) - 1) : lru'[i] = IF i < p THEN lru[i] ELSE lru[i + 1]
    BY <2>2, <2>3, WithoutProperties DEF TypeOK
  <2>5. Len(lru) \in Nat /\ \A i \in 1..Len(lru) : lru[i] \in Elements
    BY DEF TypeOK
  <2>6. \A i \in 1..Len(lru') : lru'[i].key # k /\ entries'[lru'[i].key] = lru'[i]
    <3> SUFFICES ASSUME NEW i \in 1..Len(lru')
                 PROVE  lru'[i].key # k /\ entries'[lru'[i].key] = lru'[i]
      OBVIOUS
    <3>1. PICK q \in 1..Len(lru) : q # p /\ lru'[i] = lru[q]
      BY <2>4, <2>5
    <3>2. lru[q].key # k /\ lru[q].key \in Keys /\ entries[lru[q].key] = lru[q]
      BY <2>1, <2>5, <3>1 DEF MapAndListAgree, Elements
    <3>3. QED
      BY <2>3, <3>1, <3>2 DEF TypeOK
  <2>7. \A i, j \in 1..Len(lru') : lru'[i].key = lru'[j].key => i = j
    BY <2>4, <2>5 DEF MapAndListAgree
  <2>8. ASSUME NEW j \in Keys, entries'[j] # NoEntry
        PROVE  entries'[j].key = j /\ \E i \in 1..Len(lru') : lru'[i] = entries'[j]
    <3>1. j # k /\ entries'[j] = entries[j]
      BY <2>3, <2>8 DEF TypeOK
    <3>2. PICK q \in 1..Len(lru) : lru[q] = entries[j] /\ entries[j].key = j
      BY <2>8, <3>1 DEF MapAndListAgree
    <3>3. q # p
      BY <2>1, <3>1, <3>2
    <3>4. \E i \in 1..Len(lru') : lru'[i] = lru[q]
      <4>1. CASE q < p
        BY <2>4, <2>5, <4>1
      <4>2. CASE q > p
        <5>1. q - 1 \in 1..Len(lru') /\ ~(q - 1 < p) /\ (q - 1) + 1 = q
          BY <2>4, <2>5, <4>2
        <5>2. QED
          BY <2>4, <5>1
      <4>3. QED
        BY <3>3, <4>1, <4>2
    <3>5. QED
      BY <3>1, <3>2, <3>4
  <2>9. MapAndListAgree'
    BY <2>6, <2>7, <2>8 DEF MapAndListAgree
  <2>10. QED
    BY <2>3, <2>4, <2>9 DEF TypeOK
<1>3. QED
  BY <1>1, <1>2

LEMMA UnusedLoadIsTyped == UnusedLoad \in LoadStates /\ UnusedLoad.state = "unused"
BY ConstantsAssumption DEF UnusedLoad, LoadStates, Results

(* A caller that waits names a branch and a load.                           *)
LEMMA WaitingCaller ==
  ASSUME TypeOK, NEW c \in Callers, caller[c].pc = "waiting"
  PROVE  caller[c].key \in Keys /\ caller[c].load \in Loads
BY DEF TypeOK, CallerStates, Idle, Waiting, Returning

(* The states a caller and a load move to are well typed.                   *)
LEMMA NewStatesAreTyped ==
  /\ \A k \in Keys, l \in Loads : Waiting(k, l) \in CallerStates
  /\ \A k \in Keys, r \in Results : Returning(k, r) \in CallerStates
  /\ Idle \in CallerStates
  /\ TypeOK => \A k \in Keys : StartedLoad(k) \in LoadStates
  /\ \A config \in Configs : Ok(config) \in Results
  /\ Err \in Results
<1>1. TypeOK => \A k \in Keys : StartedLoad(k) \in LoadStates
  BY DEF StartedLoad, LoadStates, Results, TypeOK
<1>2. QED
  BY <1>1 DEF CallerStates, Results

LEMMA InitEstablishesCacheInv == Init => CacheInv
<1> SUFFICES ASSUME Init PROVE CacheInv
  OBVIOUS
<1>1. UnusedLoad \in LoadStates /\ UnusedLoad.state = "unused"
  BY UnusedLoadIsTyped
<1>2. TypeOK
  BY <1>1 DEF Init, TypeOK, CallerStates
<1>3. MapAndListAgree /\ LoadsOnlyWhatIsMissing
  BY DEF Init, MapAndListAgree, LoadsOnlyWhatIsMissing
<1>4. SingleFlight
  BY <1>1 DEF Init, SingleFlight
<1>5. WaitersKeepTheirLoad
  BY DEF Init, WaitersKeepTheirLoad, Idle
<1>6. QED
  BY <1>2, <1>3, <1>4, <1>5 DEF CacheInv

(***************************************************************************)
(* One lemma per action that touches the cache or its loads.               *)
(***************************************************************************)
LEMMA HitKeepsCacheInv ==
  ASSUME CacheInv, NEW c \in Callers, NEW k \in Keys, Hit(c, k)
  PROVE  CacheInv'
<1> USE DEF CacheInv
<1>1. entries[k] # NoEntry /\ entries[k] \in Elements /\ entries[k].key = k
  BY DEF Hit, Fresh, TypeOK, MapAndListAgree
<1>2. PICK p \in 1..Len(lru) : lru[p] = entries[k]
  BY <1>1 DEF MapAndListAgree
<1>3. \A i, j \in 1..Len(lru) : lru[i] = lru[j] => i = j
  BY DEF MapAndListAgree
<1> DEFINE rest == Without(lru, lru[p])
<1>4. /\ rest \in Seq(Elements)
      /\ Len(rest) = Len(lru) - 1
      /\ \A i \in 1..(Len(lru) - 1) : rest[i] = IF i < p THEN lru[i] ELSE lru[i + 1]
  <2>1. lru \in Seq(Elements)
    BY DEF TypeOK
  <2>2. QED
    BY <1>3, <2>1, WithoutProperties
<1>5. lru' = Append(rest, lru[p])
  BY <1>2 DEF Hit
<1> HIDE DEF rest
<1>6. /\ lru' \in Seq(Elements)
      /\ Len(lru') = Len(lru)
      /\ \A i \in 1..Len(lru') :
           lru'[i] = IF i < p THEN lru[i] ELSE IF i = Len(lru) THEN lru[p] ELSE lru[i + 1]
  <2>1. Len(lru) \in Nat /\ lru[p] \in Elements /\ p \in 1..Len(lru)
    BY DEF TypeOK
  <2>2. lru' \in Seq(Elements) /\ Len(lru') = Len(lru)
    BY <1>4, <1>5, <2>1
  <2>3. ASSUME NEW i \in 1..Len(lru)
        PROVE  lru'[i] = IF i < p THEN lru[i]
                         ELSE IF i = Len(lru) THEN lru[p] ELSE lru[i + 1]
    <3>1. CASE i = Len(lru)
      BY <1>4, <1>5, <2>1, <3>1
    <3>2. CASE i < Len(lru)
      BY <1>4, <1>5, <2>1, <3>2
    <3>3. QED
      BY <2>1, <3>1, <3>2
  <2>4. QED
    BY <2>2, <2>3
<1>7. Returning(k, Ok(entries[k].config)) \in CallerStates
  BY <1>1 DEF CallerStates, Results, Elements
<1>8. TypeOK'
  BY <1>6, <1>7 DEF TypeOK, Hit
<1>9. MapAndListAgree'
  <2> USE <1>6 DEF MapAndListAgree
  <2>1. Len(lru) \in Nat /\ entries' = entries
    BY DEF TypeOK, Hit
  <2>2. \A i \in 1..Len(lru') : \E q \in 1..Len(lru) :
           /\ lru'[i] = lru[q]
           /\ q = IF i < p THEN i ELSE IF i = Len(lru) THEN p ELSE i + 1
    BY <2>1
  <2>3. \A i \in 1..Len(lru') : entries'[lru'[i].key] = lru'[i]
    <3> SUFFICES ASSUME NEW i \in 1..Len(lru') PROVE entries'[lru'[i].key] = lru'[i]
      OBVIOUS
    <3>1. PICK q \in 1..Len(lru) : lru'[i] = lru[q]
      BY <2>2
    <3>2. entries[lru[q].key] = lru[q]
      OBVIOUS
    <3>3. QED
      BY <2>1, <3>1, <3>2
  <2>4. ASSUME NEW i \in 1..Len(lru'), NEW j \in 1..Len(lru'),
               lru'[i].key = lru'[j].key
        PROVE  i = j
    <3>1. PICK q \in 1..Len(lru) :
            lru'[i] = lru[q] /\ q = IF i < p THEN i ELSE IF i = Len(lru) THEN p ELSE i + 1
      BY <2>2
    <3>2. PICK r \in 1..Len(lru) :
            lru'[j] = lru[r] /\ r = IF j < p THEN j ELSE IF j = Len(lru) THEN p ELSE j + 1
      BY <2>2
    <3>3. q = r
      BY <2>4, <3>1, <3>2
    <3>4. QED
      BY <2>1, <3>1, <3>2, <3>3
  <2>5. ASSUME NEW j \in Keys, entries'[j] # NoEntry
        PROVE  entries'[j].key = j /\ \E i \in 1..Len(lru') : lru'[i] = entries'[j]
    <3>1. PICK q \in 1..Len(lru) : lru[q] = entries[j] /\ entries[j].key = j
      BY <2>1, <2>5
    <3>2. CASE q < p
      BY <2>1, <3>1, <3>2
    <3>3. CASE q = p
      BY <2>1, <3>1, <3>3
    <3>4. CASE q > p
      <4>1. q - 1 \in 1..Len(lru') /\ lru'[q - 1] = lru[q]
        BY <2>1, <3>4
      <4>2. QED
        BY <2>1, <3>1, <4>1
    <3>5. QED
      BY <3>2, <3>3, <3>4
  <2>6. QED
    BY <2>3, <2>4, <2>5
<1>10. LoadsOnlyWhatIsMissing' /\ SingleFlight'
  BY DEF Hit, LoadsOnlyWhatIsMissing, SingleFlight
<1>11. WaitersKeepTheirLoad'
  BY DEF Hit, WaitersKeepTheirLoad, TypeOK, Returning
<1>12. QED
  BY <1>8, <1>9, <1>10, <1>11

LEMMA JoinLoadKeepsCacheInv ==
  ASSUME CacheInv, NEW c \in Callers, NEW k \in Keys, JoinLoad(c, k)
  PROVE  CacheInv'
<1> USE DEF CacheInv
<1>1. RemoveExpired(k) /\ inFlight[k] \in Loads
  BY DEF JoinLoad, TypeOK
<1>2. /\ entries' \in [Keys -> Elements \union {NoEntry}]
      /\ lru' \in Seq(Elements)
      /\ MapAndListAgree'
      /\ \A j \in Keys : entries'[j] \in {entries[j], NoEntry}
  BY <1>1, RemoveExpiredKeepsAgreement
<1>3. TypeOK'
  <2>1. caller' \in [Callers -> CallerStates]
    BY <1>1, NewStatesAreTyped DEF JoinLoad, TypeOK
  <2>2. QED
    BY <1>2, <2>1 DEF JoinLoad, TypeOK
<1>4. LoadsOnlyWhatIsMissing'
  BY <1>2 DEF JoinLoad, LoadsOnlyWhatIsMissing
<1>5. SingleFlight'
  BY DEF JoinLoad, SingleFlight
<1>6. WaitersKeepTheirLoad'
  <2>1. load[inFlight[k]].key = k /\ load[inFlight[k]].state # "unused"
    BY DEF JoinLoad, SingleFlight
  <2>2. caller' = [caller EXCEPT ![c] = Waiting(k, inFlight[k])] /\ load' = load
    BY DEF JoinLoad
  <2>3. QED
    BY <2>1, <2>2 DEF WaitersKeepTheirLoad, TypeOK, Waiting
<1>7. QED
  BY <1>2, <1>3, <1>4, <1>5, <1>6

LEMMA StartLoadKeepsCacheInv ==
  ASSUME CacheInv, NEW c \in Callers, NEW k \in Keys, StartLoad(c, k)
  PROVE  CacheInv'
<1> USE DEF CacheInv
<1>1. PICK l \in Loads :
        /\ load[l] = UnusedLoad
        /\ inFlight' = [inFlight EXCEPT ![k] = l]
        /\ load' = [load EXCEPT ![l] = StartedLoad(k)]
        /\ caller' = [caller EXCEPT ![c] = Waiting(k, l)]
  BY DEF StartLoad
<1>2. RemoveExpired(k) /\ inFlight[k] = NoLoad
  BY DEF StartLoad
<1>3. /\ entries' \in [Keys -> Elements \union {NoEntry}]
      /\ lru' \in Seq(Elements)
      /\ MapAndListAgree'
      /\ entries'[k] = NoEntry
      /\ \A j \in Keys : entries'[j] \in {entries[j], NoEntry}
  BY <1>2, RemoveExpiredKeepsAgreement
<1>4. StartedLoad(k) \in LoadStates /\ Waiting(k, l) \in CallerStates
  BY NewStatesAreTyped
<1>5. TypeOK'
  <2>1. caller' \in [Callers -> CallerStates] /\ load' \in [Loads -> LoadStates]
    BY <1>1, <1>4 DEF TypeOK
  <2>2. inFlight' \in [Keys -> Loads \union {NoLoad}]
    BY <1>1 DEF TypeOK
  <2>3. QED
    BY <1>3, <2>1, <2>2 DEF StartLoad, TypeOK
<1>6. LoadsOnlyWhatIsMissing'
  BY <1>1, <1>3 DEF LoadsOnlyWhatIsMissing, TypeOK
<1>7. load[l].state = "unused"
  BY <1>1 DEF UnusedLoad
<1>8. SingleFlight'
  <2>1. StartedLoad(k).key = k /\ StartedLoad(k).state = "running"
    BY DEF StartedLoad
  <2>2. l # NoLoad /\ \A j \in Keys : inFlight[j] # l
    BY <1>7, ConstantsAssumption DEF SingleFlight
  <2>3. \A j \in Keys : inFlight'[j] # NoLoad =>
          load'[inFlight'[j]].key = j /\ load'[inFlight'[j]].state \in {"running", "loaded"}
    BY <1>1, <2>1, <2>2 DEF SingleFlight, TypeOK
  <2>4. ASSUME ~off, NEW m \in Loads, load'[m].state \in {"running", "loaded"}
        PROVE  inFlight'[load'[m].key] = m
    <3>1. CASE m = l
      BY <1>1, <2>1, <3>1 DEF TypeOK
    <3>2. CASE m # l
      <4>1. load'[m] = load[m] /\ inFlight[load[m].key] = m /\ load[m].key \in Keys
        BY <1>1, <2>4, <3>2 DEF SingleFlight, TypeOK, LoadStates
      <4>2. load[m].key # k
        BY <1>2, <4>1, ConstantsAssumption
      <4>3. QED
        BY <1>1, <4>1, <4>2 DEF TypeOK
    <3>3. QED
      BY <3>1, <3>2
  <2>5. off' = off
    BY DEF StartLoad
  <2>6. QED
    BY <2>3, <2>4, <2>5 DEF SingleFlight
<1>9. WaitersKeepTheirLoad'
  BY <1>1, <1>7, WaitingCaller DEF WaitersKeepTheirLoad, TypeOK, StartedLoad, Waiting
<1>10. QED
  BY <1>3, <1>5, <1>6, <1>8, <1>9

LEMMA LoadDirectlyKeepsCacheInv ==
  ASSUME CacheInv, NEW c \in Callers, NEW k \in Keys, LoadDirectly(c, k)
  PROVE  CacheInv'
<1> USE DEF CacheInv
<1>1. PICK l \in Loads :
        /\ load[l] = UnusedLoad
        /\ load' = [load EXCEPT ![l] = StartedLoad(k)]
        /\ caller' = [caller EXCEPT ![c] = Waiting(k, l)]
  BY DEF LoadDirectly
<1>2. off /\ UNCHANGED <<off, remote, replacedAt, clock, entries, lru, inFlight>>
  BY DEF LoadDirectly, cacheVars
<1>3. load[l].state = "unused"
  BY <1>1 DEF UnusedLoad
<1>4. TypeOK'
  <2>1. caller' \in [Callers -> CallerStates] /\ load' \in [Loads -> LoadStates]
    BY <1>1, NewStatesAreTyped DEF TypeOK
  <2>2. QED
    BY <1>2, <2>1 DEF TypeOK
<1>5. MapAndListAgree' /\ LoadsOnlyWhatIsMissing'
  BY <1>2 DEF MapAndListAgree, LoadsOnlyWhatIsMissing
<1>6. SingleFlight'
  BY <1>1, <1>2, <1>3 DEF SingleFlight, TypeOK
<1>7. WaitersKeepTheirLoad'
  BY <1>1, <1>3, WaitingCaller DEF WaitersKeepTheirLoad, TypeOK, StartedLoad, Waiting
<1>8. QED
  BY <1>4, <1>5, <1>6, <1>7

LEMMA AttemptLoadKeepsCacheInv ==
  ASSUME CacheInv, NEW l \in Loads, AttemptLoad(l)
  PROVE  CacheInv'
<1> USE DEF CacheInv
<1>1. UNCHANGED <<off, remote, replacedAt, clock, entries, lru, inFlight, caller>>
  BY DEF AttemptLoad, cacheVars
<1>2. load[l].state = "running" /\ load[l] \in LoadStates /\ remote[load[l].key] \in Configs
  BY DEF AttemptLoad, TypeOK, LoadStates
<1>3. /\ load' \in [Loads -> LoadStates]
      /\ \A m \in Loads : m # l => load'[m] = load[m]
      /\ load'[l].key = load[l].key
      /\ load'[l].state \in {"running", "loaded"}
  <2>1. Ok(remote[load[l].key]) \in Results /\ Err \in Results
    BY <1>2, NewStatesAreTyped
  <2>2. \E new \in LoadStates :
           /\ load' = [load EXCEPT ![l] = new]
           /\ new.key = load[l].key
           /\ new.state \in {"running", "loaded"}
    <3>1. CASE load' = [load EXCEPT ![l].state = "loaded",
                                    ![l].result = Ok(remote[load[l].key])]
      <4> DEFINE new == [load[l] EXCEPT !.state = "loaded",
                                        !.result = Ok(remote[load[l].key])]
      <4>1. load' = [load EXCEPT ![l] = new]
        BY <3>1 DEF TypeOK
      <4>2. new \in LoadStates /\ new.key = load[l].key /\ new.state = "loaded"
        BY <1>2, <2>1 DEF LoadStates
      <4>3. QED
        BY <4>1, <4>2
    <3>2. CASE load' = [load EXCEPT ![l].state = "loaded", ![l].result = Err]
      <4> DEFINE new == [load[l] EXCEPT !.state = "loaded", !.result = Err]
      <4>1. load' = [load EXCEPT ![l] = new]
        BY <3>2 DEF TypeOK
      <4>2. new \in LoadStates /\ new.key = load[l].key /\ new.state = "loaded"
        BY <1>2, <2>1 DEF LoadStates
      <4>3. QED
        BY <4>1, <4>2
    <3>3. CASE load' = [load EXCEPT ![l].retries = @ + 1]
      <4> DEFINE new == [load[l] EXCEPT !.retries = @ + 1]
      <4>1. load' = [load EXCEPT ![l] = new]
        BY <3>3 DEF TypeOK
      <4>2. new \in LoadStates /\ new.key = load[l].key /\ new.state = "running"
        BY <1>2, <2>1 DEF LoadStates
      <4>3. QED
        BY <4>1, <4>2
    <3>4. QED
      BY <3>1, <3>2, <3>3 DEF AttemptLoad
  <2>3. QED
    BY <2>2 DEF TypeOK
<1>4. TypeOK'
  BY <1>1, <1>3 DEF TypeOK
<1>5. MapAndListAgree' /\ LoadsOnlyWhatIsMissing'
  BY <1>1 DEF MapAndListAgree, LoadsOnlyWhatIsMissing
<1>6. SingleFlight'
  <2>1. \A k \in Keys : inFlight'[k] # NoLoad =>
          load'[inFlight'[k]].key = k /\ load'[inFlight'[k]].state \in {"running", "loaded"}
    <3> SUFFICES ASSUME NEW k \in Keys, inFlight[k] # NoLoad
                 PROVE  /\ load'[inFlight[k]].key = k
                        /\ load'[inFlight[k]].state \in {"running", "loaded"}
      BY <1>1
    <3>1. inFlight[k] \in Loads
      BY DEF TypeOK
    <3>2. /\ load[inFlight[k]].key = k
          /\ load[inFlight[k]].state \in {"running", "loaded"}
      BY DEF SingleFlight
    <3>3. CASE inFlight[k] = l
      BY <1>3, <3>2, <3>3
    <3>4. CASE inFlight[k] # l
      BY <1>3, <3>1, <3>2, <3>4
    <3>5. QED
      BY <3>3, <3>4
  <2>2. ~off => \A m \in Loads :
          load'[m].state \in {"running", "loaded"} => inFlight'[load'[m].key] = m
    <3> SUFFICES ASSUME ~off, NEW m \in Loads, load'[m].state \in {"running", "loaded"}
                 PROVE  inFlight'[load'[m].key] = m
      OBVIOUS
    <3>1. load[m].state \in {"running", "loaded"} /\ load'[m].key = load[m].key
      BY <1>2, <1>3
    <3>2. QED
      BY <1>1, <3>1 DEF SingleFlight
  <2>3. off' = off
    BY <1>1
  <2>4. QED
    BY <2>1, <2>2, <2>3 DEF SingleFlight
<1>7. WaitersKeepTheirLoad'
  BY <1>1, <1>2, <1>3, WaitingCaller DEF WaitersKeepTheirLoad
<1>8. QED
  BY <1>4, <1>5, <1>6, <1>7

(* The stored element joins the list, then the oldest elements leave it.    *)
LEMMA StoreKeepsAgreement ==
  ASSUME TypeOK, MapAndListAgree, NEW k \in Keys, entries[k] = NoEntry,
         NEW e \in Elements, e.key = k,
         NEW n \in 0..Len(Append(lru, e)),
         lru' = DropFront(Append(lru, e), n),
         entries' = [j \in Keys |->
           IF \E i \in 1..n : Append(lru, e)[i].key = j THEN NoEntry
           ELSE IF j = k THEN e ELSE entries[j]]
  PROVE  /\ lru' \in Seq(Elements)
         /\ entries' \in [Keys -> Elements \union {NoEntry}]
         /\ MapAndListAgree'
<1> DEFINE pushed == Append(lru, e)
<1>1. /\ Len(lru) \in Nat
      /\ \A i \in 1..Len(lru) : lru[i] \in Elements
      /\ NoEntry \notin Elements
  BY ConstantsAssumption DEF TypeOK
<1>2. /\ pushed \in Seq(Elements)
      /\ Len(pushed) = Len(lru) + 1
      /\ \A i \in 1..Len(pushed) : pushed[i] = IF i = Len(lru) + 1 THEN e ELSE lru[i]
  BY <1>1 DEF TypeOK
<1>3. \A i \in 1..Len(lru) : lru[i].key # k
  BY <1>1 DEF MapAndListAgree
<1>4. \A i, j \in 1..Len(pushed) : pushed[i].key = pushed[j].key => i = j
  <2> SUFFICES ASSUME NEW i \in 1..Len(pushed), NEW j \in 1..Len(pushed),
                      pushed[i].key = pushed[j].key
               PROVE  i = j
    OBVIOUS
  <2>1. CASE i = Len(lru) + 1 /\ j # Len(lru) + 1
    BY <1>1, <1>2, <1>3, <2>1
  <2>2. CASE i # Len(lru) + 1 /\ j = Len(lru) + 1
    BY <1>1, <1>2, <1>3, <2>2
  <2>3. CASE i # Len(lru) + 1 /\ j # Len(lru) + 1
    BY <1>1, <1>2, <2>3 DEF MapAndListAgree
  <2>4. QED
    BY <2>1, <2>2, <2>3
<1>5. \A i \in 1..Len(pushed) :
        /\ pushed[i].key \in Keys
        /\ pushed[i] = IF pushed[i].key = k THEN e ELSE entries[pushed[i].key]
  <2> SUFFICES ASSUME NEW i \in 1..Len(pushed)
               PROVE  /\ pushed[i].key \in Keys
                      /\ pushed[i] = IF pushed[i].key = k THEN e
                                     ELSE entries[pushed[i].key]
    OBVIOUS
  <2>1. CASE i = Len(lru) + 1
    BY <1>2, <2>1
  <2>2. CASE i # Len(lru) + 1
    <3>1. i \in 1..Len(lru) /\ pushed[i] = lru[i]
      BY <1>1, <1>2, <2>2
    <3>2. lru[i].key \in Keys /\ entries[lru[i].key] = lru[i]
      BY <1>1, <3>1 DEF MapAndListAgree, Elements
    <3>3. QED
      BY <1>3, <3>1, <3>2
  <2>3. QED
    BY <2>1, <2>2
<1>6. \A j \in Keys : (j = k \/ entries[j] # NoEntry) =>
        \E i \in 1..Len(pushed) :
          pushed[i].key = j /\ pushed[i] = IF j = k THEN e ELSE entries[j]
  <2> SUFFICES ASSUME NEW j \in Keys, j = k \/ entries[j] # NoEntry
               PROVE  \E i \in 1..Len(pushed) :
                        pushed[i].key = j /\ pushed[i] = IF j = k THEN e ELSE entries[j]
    OBVIOUS
  <2>1. CASE j = k
    <3>1. Len(lru) + 1 \in 1..Len(pushed) /\ pushed[Len(lru) + 1] = e
      BY <1>1, <1>2
    <3>2. QED
      BY <2>1, <3>1
  <2>2. CASE j # k
    <3>1. PICK i \in 1..Len(lru) : lru[i] = entries[j] /\ entries[j].key = j
      BY <2>2 DEF MapAndListAgree
    <3>2. i \in 1..Len(pushed) /\ pushed[i] = lru[i]
      BY <1>1, <1>2, <3>1
    <3>3. QED
      BY <2>2, <3>1, <3>2
  <2>3. QED
    BY <2>1, <2>2
<1>7. /\ lru' \in Seq(Elements)
      /\ Len(lru') = Len(pushed) - n
      /\ \A i \in 1..(Len(pushed) - n) : lru'[i] = pushed[i + n]
  BY <1>2, DropFrontProperties
<1>8. n \in Nat /\ n <= Len(pushed) /\ Len(pushed) \in Nat
  BY <1>1, <1>2
<1>9. entries' = [j \in Keys |->
        IF \E i \in 1..n : pushed[i].key = j THEN NoEntry
        ELSE IF j = k THEN e ELSE entries[j]]
  OBVIOUS
<1> HIDE DEF pushed
<1>10. entries' \in [Keys -> Elements \union {NoEntry}]
  BY <1>9 DEF TypeOK
<1>11. \A i \in 1..Len(lru') : entries'[lru'[i].key] = lru'[i]
  <2> SUFFICES ASSUME NEW i \in 1..Len(lru') PROVE entries'[lru'[i].key] = lru'[i]
    OBVIOUS
  <2>1. i + n \in 1..Len(pushed) /\ lru'[i] = pushed[i + n]
    BY <1>7, <1>8
  <2>2. ~ \E m \in 1..n : pushed[m].key = pushed[i + n].key
    BY <1>4, <1>8, <2>1
  <2>3. QED
    <3> DEFINE j == pushed[i + n].key
    <3>1. j \in Keys
      BY <1>5, <2>1
    <3>2. pushed[i + n] = IF j = k THEN e ELSE entries[j]
      BY <1>5, <2>1
    <3>3. entries'[j] = IF j = k THEN e ELSE entries[j]
      BY <1>9, <2>2, <3>1
    <3>4. QED
      BY <2>1, <3>2, <3>3
<1>12. \A i, j \in 1..Len(lru') : lru'[i].key = lru'[j].key => i = j
  <2> SUFFICES ASSUME NEW i \in 1..Len(lru'), NEW j \in 1..Len(lru'),
                      lru'[i].key = lru'[j].key
               PROVE  i = j
    OBVIOUS
  <2>1. /\ i + n \in 1..Len(pushed) /\ lru'[i] = pushed[i + n]
        /\ j + n \in 1..Len(pushed) /\ lru'[j] = pushed[j + n]
    BY <1>7, <1>8
  <2>2. i + n = j + n
    BY <1>4, <2>1
  <2>3. QED
    BY <1>8, <2>2
<1>13. ASSUME NEW j \in Keys, entries'[j] # NoEntry
       PROVE  entries'[j].key = j /\ \E i \in 1..Len(lru') : lru'[i] = entries'[j]
  <2>1. /\ ~ \E i \in 1..n : pushed[i].key = j
        /\ entries'[j] = IF j = k THEN e ELSE entries[j]
        /\ j = k \/ entries[j] # NoEntry
    BY <1>9, <1>13
  <2>2. PICK i \in 1..Len(pushed) : pushed[i].key = j /\ pushed[i] = entries'[j]
    BY <1>6, <2>1
  <2>3. i > n
    BY <1>8, <2>1, <2>2
  <2>4. i - n \in 1..Len(lru') /\ lru'[i - n] = pushed[(i - n) + n] /\ (i - n) + n = i
    BY <1>7, <1>8, <2>3
  <2>5. QED
    BY <2>2, <2>4
<1>14. QED
  BY <1>7, <1>10, <1>11, <1>12, <1>13 DEF MapAndListAgree

LEMMA StoreLoadKeepsCacheInv ==
  ASSUME CacheInv, NEW l \in Loads, StoreLoad(l)
  PROVE  CacheInv'
<1> USE DEF CacheInv
<1> DEFINE k == load[l].key
           done == [load EXCEPT ![l].state = "done"]
<1>1. /\ ~off /\ load[l].state = "loaded" /\ load[l] \in LoadStates
      /\ inFlight' = [inFlight EXCEPT ![k] = NoLoad]
      /\ load' = Collected(done, inFlight', caller)
      /\ UNCHANGED <<off, remote, replacedAt, clock, caller>>
  BY DEF StoreLoad, Answered, TypeOK
<1>2. k \in Keys /\ load[l].result \in Results
  BY <1>1 DEF LoadStates
<1>3. inFlight[k] = l /\ l # NoLoad /\ entries[k] = NoEntry
  BY <1>1, <1>2, ConstantsAssumption DEF SingleFlight, LoadsOnlyWhatIsMissing
<1>4. /\ lru' \in Seq(Elements)
      /\ entries' \in [Keys -> Elements \union {NoEntry}]
      /\ MapAndListAgree'
      /\ \A j \in Keys : j # k => entries'[j] \in {entries[j], NoEntry}
  <2>1. CASE load[l].result.ok
    <3> DEFINE e == [key |-> k, config |-> load[l].result.config,
                     expiresAt |-> clock + TTL, startedAt |-> load[l].startedAt,
                     storedAt |-> clock]
    <3>1. e \in Elements /\ e.key = k
      BY <1>1, <1>2, ConstantsAssumption
      DEF Elements, TypeOK, LoadStates, Results, Ok, Err, Configs
    <3>2. PICK n \in 0..Len(Append(lru, e)) :
            /\ lru' = DropFront(Append(lru, e), n)
            /\ entries' = [j \in Keys |->
                 IF \E i \in 1..n : Append(lru, e)[i].key = j THEN NoEntry
                 ELSE IF j = k THEN e ELSE entries[j]]
      BY <2>1 DEF StoreLoad, Answered
    <3>3. /\ lru' \in Seq(Elements)
          /\ entries' \in [Keys -> Elements \union {NoEntry}]
          /\ MapAndListAgree'
      BY <1>2, <1>3, <3>1, <3>2, StoreKeepsAgreement
    <3>4. \A j \in Keys : j # k => entries'[j] \in {entries[j], NoEntry}
      BY <3>2
    <3>5. QED
      BY <3>3, <3>4
  <2>2. CASE ~load[l].result.ok
    <3>1. entries' = entries /\ lru' = lru
      BY <2>2 DEF StoreLoad, Answered
    <3>2. QED
      BY <3>1 DEF TypeOK, MapAndListAgree
  <2>3. QED
    BY <2>1, <2>2
<1>5. /\ done \in [Loads -> LoadStates]
      /\ done[l].key = k /\ done[l].state = "done"
      /\ \A m \in Loads : m # l => done[m] = load[m]
  <2>1. [load[l] EXCEPT !.state = "done"] \in LoadStates
    BY <1>1 DEF LoadStates
  <2>2. done = [load EXCEPT ![l] = [load[l] EXCEPT !.state = "done"]]
    BY DEF TypeOK
  <2>3. [load[l] EXCEPT !.state = "done"].key = k
        /\ [load[l] EXCEPT !.state = "done"].state = "done"
    BY <1>1 DEF LoadStates
  <2>4. QED
    BY <2>1, <2>2, <2>3 DEF TypeOK
<1> HIDE DEF k, done
<1>6. /\ load' \in [Loads -> LoadStates]
      /\ \A m \in Loads : load'[m] \in {done[m], UnusedLoad}
      /\ \A j \in Keys : inFlight'[j] \in Loads => load'[inFlight'[j]] = done[inFlight'[j]]
      /\ \A c \in Callers : (caller[c].pc = "waiting" /\ caller[c].load \in Loads) =>
           load'[caller[c].load] = done[caller[c].load]
  <2>1. load' = [m \in Loads |->
           IF \/ \E j \in Keys : inFlight'[j] = m
              \/ \E c \in Callers : caller[c].pc = "waiting" /\ caller[c].load = m
           THEN done[m] ELSE UnusedLoad]
    BY <1>1 DEF Collected
  <2>2. QED
    BY <1>5, <2>1, UnusedLoadIsTyped
<1>7. inFlight' \in [Keys -> Loads \union {NoLoad}]
  BY <1>1 DEF TypeOK
<1>8. TypeOK'
  BY <1>1, <1>4, <1>6, <1>7 DEF TypeOK
<1>9. LoadsOnlyWhatIsMissing'
  BY <1>1, <1>2, <1>4 DEF LoadsOnlyWhatIsMissing, TypeOK
<1>10. UnusedLoad.state = "unused"
  BY DEF UnusedLoad
<1>11. SingleFlight'
  <2>1. ASSUME NEW j \in Keys, inFlight'[j] # NoLoad
        PROVE  /\ load'[inFlight'[j]].key = j
               /\ load'[inFlight'[j]].state \in {"running", "loaded"}
    <3>1. j # k /\ inFlight'[j] = inFlight[j] /\ inFlight[j] \in Loads
      BY <1>1, <1>2, <2>1 DEF TypeOK
    <3>2. /\ load[inFlight[j]].key = j
          /\ load[inFlight[j]].state \in {"running", "loaded"}
      BY <2>1, <3>1 DEF SingleFlight
    <3>3. inFlight[j] # l
      BY <3>1, <3>2 DEF k
    <3>4. QED
      BY <1>5, <1>6, <3>1, <3>2, <3>3
  <2>2. ASSUME NEW m \in Loads, load'[m].state \in {"running", "loaded"}
        PROVE  inFlight'[load'[m].key] = m
    <3>1. m # l /\ load'[m] = load[m]
      BY <1>5, <1>6, <1>10, <2>2
    <3>2. inFlight[load[m].key] = m /\ load[m].key \in Keys
      BY <1>1, <2>2, <3>1 DEF SingleFlight, TypeOK, LoadStates
    <3>3. load[m].key # k
      BY <1>3, <3>1, <3>2
    <3>4. QED
      BY <1>1, <3>1, <3>2, <3>3 DEF TypeOK
  <2>3. QED
    BY <2>1, <2>2 DEF SingleFlight
<1>12. WaitersKeepTheirLoad'
  <2> SUFFICES ASSUME NEW c \in Callers, caller[c].pc = "waiting"
               PROVE  /\ load'[caller[c].load].key = caller[c].key
                      /\ load'[caller[c].load].state # "unused"
    BY <1>1 DEF WaitersKeepTheirLoad
  <2>1. caller[c].load \in Loads
    BY WaitingCaller
  <2>2. load[caller[c].load].key = caller[c].key /\ load[caller[c].load].state # "unused"
    BY DEF WaitersKeepTheirLoad
  <2>3. CASE caller[c].load = l
    BY <1>5, <1>6, <2>1, <2>2, <2>3 DEF k
  <2>4. CASE caller[c].load # l
    BY <1>5, <1>6, <2>1, <2>2, <2>4
  <2>5. QED
    BY <2>3, <2>4
<1>13. QED
  BY <1>4, <1>8, <1>9, <1>11, <1>12

(* A caller stops waiting, with an answer or because its context ended.     *)
LEMMA StopWaitingKeepsCacheInv ==
  ASSUME CacheInv, NEW c \in Callers, NEW r \in Results,
         caller[c].pc = "waiting",
         caller' = [caller EXCEPT ![c] = Returning(caller[c].key, r)],
         load' = Collected(load, inFlight, caller'),
         UNCHANGED <<off, remote, replacedAt, clock, cacheVars>>
  PROVE  CacheInv'
<1> USE DEF CacheInv
<1>1. UNCHANGED <<off, remote, replacedAt, clock, entries, lru, inFlight>>
  BY DEF cacheVars
<1>2. Returning(caller[c].key, r) \in CallerStates
      /\ Returning(caller[c].key, r).pc = "returning"
  BY WaitingCaller, NewStatesAreTyped DEF Returning
<1>3. caller' \in [Callers -> CallerStates]
  BY <1>2 DEF TypeOK
<1>4. /\ load' \in [Loads -> LoadStates]
      /\ \A m \in Loads : load'[m] \in {load[m], UnusedLoad}
      /\ \A j \in Keys : inFlight[j] \in Loads => load'[inFlight[j]] = load[inFlight[j]]
      /\ \A d \in Callers : (caller'[d].pc = "waiting" /\ caller'[d].load \in Loads) =>
           load'[caller'[d].load] = load[caller'[d].load]
  <2>1. load \in [Loads -> LoadStates]
    BY DEF TypeOK
  <2>2. load' = [m \in Loads |->
           IF \/ \E j \in Keys : inFlight[j] = m
              \/ \E d \in Callers : caller'[d].pc = "waiting" /\ caller'[d].load = m
           THEN load[m] ELSE UnusedLoad]
    BY DEF Collected
  <2>3. QED
    BY <2>1, <2>2, UnusedLoadIsTyped
<1>5. TypeOK' /\ MapAndListAgree' /\ LoadsOnlyWhatIsMissing'
  BY <1>1, <1>3, <1>4, ZenonT(30) DEF TypeOK, MapAndListAgree, LoadsOnlyWhatIsMissing
<1>6. UnusedLoad.state = "unused"
  BY DEF UnusedLoad
<1>7. SingleFlight'
  <2>1. \A j \in Keys : inFlight'[j] # NoLoad =>
          load'[inFlight'[j]].key = j /\ load'[inFlight'[j]].state \in {"running", "loaded"}
    <3> SUFFICES ASSUME NEW j \in Keys, inFlight[j] # NoLoad
                 PROVE  /\ load'[inFlight[j]].key = j
                        /\ load'[inFlight[j]].state \in {"running", "loaded"}
      BY <1>1
    <3>1. inFlight[j] \in Loads
      BY DEF TypeOK
    <3>2. load'[inFlight[j]] = load[inFlight[j]]
      BY <1>4, <3>1
    <3>3. QED
      BY <3>2 DEF SingleFlight
  <2>2. ~off => \A m \in Loads :
          load'[m].state \in {"running", "loaded"} => inFlight'[load'[m].key] = m
    BY <1>1, <1>4, <1>6, ZenonT(30) DEF SingleFlight
  <2>3. QED
    BY <2>1, <2>2 DEF SingleFlight
<1>8. WaitersKeepTheirLoad'
  <2> SUFFICES ASSUME NEW d \in Callers, caller'[d].pc = "waiting"
               PROVE  /\ load'[caller'[d].load].key = caller'[d].key
                      /\ load'[caller'[d].load].state # "unused"
    BY DEF WaitersKeepTheirLoad
  <2>1. d # c /\ caller'[d] = caller[d]
    BY <1>2 DEF TypeOK
  <2>2. QED
    <3>1. caller[d].pc = "waiting" /\ caller[d].load \in Loads
      BY <2>1, WaitingCaller
    <3>2. load'[caller[d].load] = load[caller[d].load]
      BY <1>4, <2>1, <3>1
    <3>3. QED
      BY <2>1, <3>1, <3>2 DEF WaitersKeepTheirLoad
<1>9. QED
  BY <1>5, <1>7, <1>8

LEMMA ReceiveKeepsCacheInv ==
  ASSUME CacheInv, NEW c \in Callers, Receive(c)
  PROVE  CacheInv'
<1>1. caller[c].pc = "waiting" /\ caller[c].load \in Loads /\ caller \in [Callers -> CallerStates]
  BY WaitingCaller DEF Receive, CacheInv, TypeOK
<1>2. load[caller[c].load].result \in Results
  BY <1>1 DEF CacheInv, TypeOK, LoadStates
<1>3. caller' = [caller EXCEPT ![c] = Returning(caller[c].key, load[caller[c].load].result)]
  BY <1>1 DEF Receive
<1>4. /\ load' = Collected(load, inFlight, caller')
      /\ UNCHANGED <<off, remote, replacedAt, clock, cacheVars>>
  BY DEF Receive
<1>5. QED
  BY <1>1, <1>2, <1>3, <1>4, StopWaitingKeepsCacheInv

LEMMA CancelKeepsCacheInv ==
  ASSUME CacheInv, NEW c \in Callers, Cancel(c)
  PROVE  CacheInv'
<1>1. caller[c].pc = "waiting" /\ caller \in [Callers -> CallerStates]
  BY DEF Cancel, CacheInv, TypeOK
<1>2. caller' = [caller EXCEPT ![c] = Returning(caller[c].key, Err)] /\ Err \in Results
  BY <1>1, NewStatesAreTyped DEF Cancel
<1>3. /\ load' = Collected(load, inFlight, caller')
      /\ UNCHANGED <<off, remote, replacedAt, clock, cacheVars>>
  BY DEF Cancel
<1>4. QED
  BY <1>1, <1>2, <1>3, StopWaitingKeepsCacheInv

(* The steps that leave the cache and its loads alone.                      *)
LEMMA OtherStepsKeepCacheInv ==
  ASSUME CacheInv,
         (\E c \in Callers : Return(c)) \/ (\E k \in Keys : ChangeRemote(k)) \/ Tick
           \/ UNCHANGED vars
  PROVE  CacheInv'
<1> USE DEF CacheInv
<1>1. UNCHANGED <<off, entries, lru, inFlight, load>>
  BY DEF Return, ChangeRemote, Tick, vars, cacheVars
<1>2. MapAndListAgree' /\ LoadsOnlyWhatIsMissing' /\ SingleFlight'
  BY <1>1 DEF MapAndListAgree, LoadsOnlyWhatIsMissing, SingleFlight
<1>3. CASE UNCHANGED caller
  <2>1. /\ remote' \in [Keys -> Configs]
        /\ replacedAt' \in [Keys -> [Configs -> Nat]]
        /\ clock' \in Nat
    <3>1. CASE \E k \in Keys : ChangeRemote(k)
      <4>1. PICK k \in Keys : ChangeRemote(k)
        BY <3>1
      <4>2. remote' \in [Keys -> Configs] /\ clock' \in Nat
        BY <4>1 DEF TypeOK, ChangeRemote
      <4>3. remote[k] \in Configs /\ replacedAt[k] \in [Configs -> Nat] /\ clock \in Nat
        BY DEF TypeOK
      <4>4. [replacedAt[k] EXCEPT ![remote[k]] = clock] \in [Configs -> Nat]
        BY <4>3
      <4>5. replacedAt' = [replacedAt EXCEPT ![k] = [replacedAt[k] EXCEPT ![remote[k]] = clock]]
        BY <4>1 DEF TypeOK, ChangeRemote
      <4>6. QED
        BY <4>2, <4>4, <4>5 DEF TypeOK
    <3>2. CASE (\E c \in Callers : Return(c)) \/ Tick \/ UNCHANGED vars
      BY <3>2 DEF TypeOK, Return, Tick, vars
    <3>3. QED
      BY <3>1, <3>2
  <2>2. QED
    BY <1>1, <1>2, <1>3, <2>1 DEF TypeOK, WaitersKeepTheirLoad
<1>4. CASE \E c \in Callers : Return(c)
  <2>1. PICK c \in Callers : caller' = [caller EXCEPT ![c] = Idle]
    BY <1>4 DEF Return
  <2>2. caller' \in [Callers -> CallerStates] /\ Idle.pc = "idle"
    BY <2>1, NewStatesAreTyped DEF TypeOK, Idle
  <2>3. TypeOK'
    BY <1>1, <1>4, <2>2 DEF TypeOK, Return
  <2>4. WaitersKeepTheirLoad'
    BY <1>1, <2>1, <2>2 DEF TypeOK, WaitersKeepTheirLoad
  <2>5. QED
    BY <1>2, <2>3, <2>4
<1>5. QED
  BY <1>3, <1>4 DEF ChangeRemote, Tick, vars

(* In every reachable state the map and the list of the cache agree, what   *)
(* is being loaded is not cached, each branch is loaded at most once at a   *)
(* time, and each waiting caller waits for a load of its own branch.        *)
THEOREM CacheStaysConsistent == Spec => []CacheInv
<1>1. CacheInv /\ [Next]_vars => CacheInv'
  <2> SUFFICES ASSUME CacheInv, [Next]_vars PROVE CacheInv'
    OBVIOUS
  <2>1. ASSUME NEW c \in Callers, NEW k \in Keys,
               Hit(c, k) \/ JoinLoad(c, k) \/ StartLoad(c, k) \/ LoadDirectly(c, k)
        PROVE  CacheInv'
    BY <2>1, HitKeepsCacheInv, JoinLoadKeepsCacheInv, StartLoadKeepsCacheInv,
       LoadDirectlyKeepsCacheInv
  <2>2. ASSUME NEW l \in Loads, AttemptLoad(l) \/ StoreLoad(l)
        PROVE  CacheInv'
    BY <2>2, AttemptLoadKeepsCacheInv, StoreLoadKeepsCacheInv
  <2>3. ASSUME NEW c \in Callers, Receive(c) \/ Cancel(c)
        PROVE  CacheInv'
    BY <2>3, ReceiveKeepsCacheInv, CancelKeepsCacheInv
  <2>4. CASE (\E c \in Callers : Return(c)) \/ (\E k \in Keys : ChangeRemote(k)) \/ Tick
               \/ UNCHANGED vars
    BY <2>4, OtherStepsKeepCacheInv
  <2>5. QED
    BY <2>1, <2>2, <2>3, <2>4 DEF Next
<1>2. QED
  BY <1>1, InitEstablishesCacheInv, PTL DEF Spec

(* The state of the cache is well typed.                                    *)
THEOREM CacheIsTyped == Spec => []TypeOK
BY CacheStaysConsistent, PTL DEF CacheInv

(* removeElement always finds the element it removes in both structures.    *)
THEOREM MapAndListAlwaysAgree == Spec => []MapAndListAgree
BY CacheStaysConsistent, PTL DEF CacheInv

(* Concurrent misses of one branch share one read of GitHub.                *)
THEOREM LoadsAreShared == Spec => []SingleFlight
BY CacheStaysConsistent, PTL DEF CacheInv

(* loadAndStore never overwrites a live entry, which would leak its size.   *)
THEOREM NothingIsLoadedTwice == Spec => []LoadsOnlyWhatIsMissing
BY CacheStaysConsistent, PTL DEF CacheInv

(* A caller is only ever answered with the policy of its own branch.        *)
THEOREM WaitersGetTheirBranch == Spec => []WaitersKeepTheirLoad
BY CacheStaysConsistent, PTL DEF CacheInv

-----------------------------------------------------------------------------
(***************************************************************************)
(* The age of what the cache serves.  What a load reads was GitHub's when  *)
(* the load began or later, and an entry keeps that moment.                *)
(***************************************************************************)
(* GitHub has held this policy for the branch at or after this time.        *)
HeldSince(k, config, time) == remote[k] = config \/ replacedAt[k][config] >= time

LoadsAreRecent ==
  \A l \in Loads :
    /\ load[l].startedAt <= clock
    /\ load[l].state = "loaded" /\ load[l].result.ok =>
         HeldSince(load[l].key, load[l].result.config, load[l].startedAt)

EntriesAreRecent ==
  \A k \in Keys : entries[k] # NoEntry =>
    /\ HeldSince(k, entries[k].config, entries[k].startedAt)
    /\ entries[k].startedAt <= clock
    /\ entries[k].expiresAt = entries[k].storedAt + TTL

RecentInv == CacheInv /\ LoadsAreRecent /\ EntriesAreRecent

LEMMA InitIsRecent == Init => RecentInv
<1> SUFFICES ASSUME Init PROVE RecentInv
  OBVIOUS
<1>1. UnusedLoad.state = "unused" /\ UnusedLoad.startedAt = 0
  BY DEF UnusedLoad
<1>2. LoadsAreRecent /\ EntriesAreRecent
  BY <1>1 DEF Init, LoadsAreRecent, EntriesAreRecent
<1>3. QED
  BY <1>2, InitEstablishesCacheInv DEF RecentInv

(* A policy that GitHub has held is, when it is replaced, replaced now.     *)
LEMMA HeldStays ==
  ASSUME TypeOK, NEW k \in Keys, NEW config \in Configs, NEW time \in Nat, time <= clock,
         HeldSince(k, config, time),
         UNCHANGED <<remote, replacedAt>> \/ \E j \in Keys : ChangeRemote(j)
  PROVE  HeldSince(k, config, time)'
<1>1. CASE UNCHANGED <<remote, replacedAt>>
  BY <1>1 DEF HeldSince
<1>2. ASSUME NEW j \in Keys, ChangeRemote(j) PROVE HeldSince(k, config, time)'
  <2>1. /\ remote[j] \in Configs /\ replacedAt[j] \in [Configs -> Nat] /\ clock \in Nat
        /\ replacedAt[k][config] \in Nat
    BY DEF TypeOK
  <2>2. replacedAt' = [replacedAt EXCEPT ![j] = [replacedAt[j] EXCEPT ![remote[j]] = clock]]
    BY <1>2 DEF ChangeRemote, TypeOK
  <2>3. PICK other \in Configs : remote' = [remote EXCEPT ![j] = other]
    BY <1>2 DEF ChangeRemote
  <2>4. CASE k = j /\ config = remote[j]
    <3>1. replacedAt'[k][config] = clock
      BY <2>1, <2>2, <2>4 DEF TypeOK
    <3>2. QED
      BY <2>1, <3>1 DEF HeldSince
  <2>5. CASE k = j /\ config # remote[j]
    <3>1. replacedAt'[k][config] = replacedAt[k][config]
      BY <2>1, <2>2, <2>5 DEF TypeOK
    <3>2. QED
      BY <2>5, <3>1 DEF HeldSince
  <2>6. CASE k # j
    <3>1. remote'[k] = remote[k] /\ replacedAt'[k] = replacedAt[k]
      BY <2>2, <2>3, <2>6 DEF TypeOK
    <3>2. QED
      BY <3>1 DEF HeldSince
  <2>7. QED
    BY <2>4, <2>5, <2>6
<1>3. QED
  BY <1>1, <1>2

(* A load that succeeded has a policy as its result.                        *)
LEMMA LoadedIsConfig ==
  ASSUME TypeOK, NEW l \in Loads
  PROVE  /\ load[l].key \in Keys /\ load[l].startedAt \in Nat
         /\ load[l].result.ok => load[l].result.config \in Configs
BY DEF TypeOK, LoadStates, Results, Err, Ok

(* What a step neither loads nor stores stays recent.                       *)
LEMMA LoadStaysRecent ==
  ASSUME RecentInv, TypeOK', clock <= clock', NEW l \in Loads, load'[l] = load[l],
         UNCHANGED <<remote, replacedAt>> \/ \E j \in Keys : ChangeRemote(j)
  PROVE  /\ load'[l].startedAt <= clock'
         /\ load'[l].state = "loaded" /\ load'[l].result.ok =>
              HeldSince(load[l].key, load[l].result.config, load[l].startedAt)'
<1>1. clock \in Nat /\ clock' \in Nat
  BY DEF RecentInv, CacheInv, TypeOK
<1>2. load[l].startedAt <= clock /\ load[l].startedAt \in Nat /\ load[l].key \in Keys
  BY LoadedIsConfig DEF RecentInv, LoadsAreRecent, CacheInv
<1>3. ASSUME load[l].state = "loaded", load[l].result.ok
      PROVE  HeldSince(load[l].key, load[l].result.config, load[l].startedAt)'
  <2>1. PICK k \in Keys, config \in Configs, time \in Nat :
          k = load[l].key /\ config = load[l].result.config /\ time = load[l].startedAt
    BY <1>2, <1>3, LoadedIsConfig DEF RecentInv, CacheInv
  <2>2. HeldSince(k, config, time) /\ time <= clock
    BY <1>2, <1>3, <2>1 DEF RecentInv, LoadsAreRecent
  <2>3. HeldSince(k, config, time)'
    BY <2>2, HeldStays DEF RecentInv, CacheInv
  <2>4. QED
    BY <2>1, <2>3 DEF HeldSince
<1>4. QED
  BY <1>1, <1>2, <1>3

LEMMA EntryStaysRecent ==
  ASSUME RecentInv, TypeOK', clock <= clock', NEW k \in Keys,
         entries'[k] \in {entries[k], NoEntry}, entries'[k] # NoEntry,
         UNCHANGED <<remote, replacedAt>> \/ \E j \in Keys : ChangeRemote(j)
  PROVE  /\ HeldSince(k, entries[k].config, entries[k].startedAt)'
         /\ entries'[k].startedAt <= clock'
         /\ entries'[k].expiresAt = entries'[k].storedAt + TTL
<1>1. entries'[k] = entries[k] /\ entries[k] \in Elements
  BY DEF RecentInv, CacheInv, TypeOK
<1>2. clock \in Nat /\ clock' \in Nat /\ entries[k].startedAt <= clock
  BY <1>1 DEF RecentInv, EntriesAreRecent, CacheInv, TypeOK
<1>3. PICK config \in Configs, time \in Nat :
        config = entries[k].config /\ time = entries[k].startedAt
  BY <1>1 DEF Elements
<1>4. HeldSince(k, config, time) /\ time <= clock
  BY <1>1, <1>2, <1>3 DEF RecentInv, EntriesAreRecent
<1>5. HeldSince(k, config, time)'
  BY <1>4, HeldStays DEF RecentInv, CacheInv
<1>6. HeldSince(k, entries[k].config, entries[k].startedAt)'
  BY <1>1, <1>3, <1>5 DEF HeldSince
<1>7. QED
  BY <1>1, <1>2, <1>3, <1>6 DEF RecentInv, EntriesAreRecent

(* A step that leaves each load as it is, or not loaded, and stores nothing. *)
LEMMA RecentStays ==
  ASSUME RecentInv, CacheInv', clock <= clock',
         \A l \in Loads : \/ load'[l] = load[l]
                          \/ load'[l].startedAt <= clock' /\ load'[l].state # "loaded",
         \A k \in Keys : entries'[k] \in {entries[k], NoEntry},
         UNCHANGED <<remote, replacedAt>> \/ \E j \in Keys : ChangeRemote(j)
  PROVE  RecentInv'
<1>1. TypeOK'
  BY DEF CacheInv
<1>2. ASSUME NEW l \in Loads
      PROVE  /\ load'[l].startedAt <= clock'
             /\ load'[l].state = "loaded" /\ load'[l].result.ok =>
                  HeldSince(load[l].key, load[l].result.config, load[l].startedAt)'
  BY <1>1, LoadStaysRecent
<1>3. LoadsAreRecent'
  BY <1>2 DEF LoadsAreRecent
<1>4. ASSUME NEW k \in Keys, entries'[k] # NoEntry
      PROVE  /\ HeldSince(k, entries[k].config, entries[k].startedAt)'
             /\ entries'[k].startedAt <= clock'
             /\ entries'[k].expiresAt = entries'[k].storedAt + TTL
  BY <1>1, <1>4, EntryStaysRecent
<1>5. EntriesAreRecent'
  BY <1>4 DEF EntriesAreRecent
<1>6. QED
  BY <1>3, <1>5 DEF RecentInv

(* A load that returns a policy returns the one GitHub holds.               *)
LEMMA AttemptLoadIsRecent ==
  ASSUME RecentInv, CacheInv', NEW l \in Loads, AttemptLoad(l)
  PROVE  RecentInv'
<1>1. /\ UNCHANGED <<off, remote, replacedAt, clock, entries>>
      /\ load[l].state = "running" /\ load \in [Loads -> LoadStates]
      /\ clock \in Nat /\ clock <= clock /\ TypeOK'
  BY DEF AttemptLoad, cacheVars, RecentInv, CacheInv, TypeOK
<1>2. \A m \in Loads : m # l => load'[m] = load[m]
  BY <1>1 DEF AttemptLoad
<1>3. load[l].startedAt <= clock
  BY DEF RecentInv, LoadsAreRecent
<1>4. /\ load'[l].startedAt = load[l].startedAt /\ load'[l].key = load[l].key
      /\ load'[l].state = "loaded" => load'[l].result \in {Ok(remote[load[l].key]), Err}
  BY <1>1 DEF AttemptLoad, LoadStates
<1>5. LoadsAreRecent'
  <2>1. ASSUME NEW m \in Loads
        PROVE  /\ load'[m].startedAt <= clock'
               /\ load'[m].state = "loaded" /\ load'[m].result.ok =>
                    HeldSince(load[m].key, load[m].result.config, load[m].startedAt)'
    <3>1. CASE m = l
      BY <1>1, <1>3, <1>4, <3>1 DEF HeldSince, Ok, Err
    <3>2. CASE m # l
      BY <1>1, <1>2, <3>2, LoadStaysRecent
    <3>3. QED
      BY <3>1, <3>2
  <2>2. QED
    BY <2>1 DEF LoadsAreRecent
<1>6. EntriesAreRecent'
  BY <1>1 DEF RecentInv, EntriesAreRecent, HeldSince
<1>7. QED
  BY <1>5, <1>6 DEF RecentInv

(* What is stored is what was loaded.                                       *)
LEMMA StoreLoadIsRecent ==
  ASSUME RecentInv, CacheInv', NEW l \in Loads, StoreLoad(l)
  PROVE  RecentInv'
<1> DEFINE finished == [load EXCEPT ![l].state = "done"]
<1>1. clock \in Nat /\ TypeOK'
  BY DEF RecentInv, CacheInv, TypeOK
<1>2. UNCHANGED <<off, remote, replacedAt, clock>>
  BY DEF StoreLoad, Answered
<1>3. /\ UNCHANGED <<off, remote, replacedAt, clock>>
      /\ clock \in Nat /\ clock <= clock /\ TypeOK'
  BY <1>1, <1>2
<1>4. load[l].state = "loaded" /\ load \in [Loads -> LoadStates]
  BY DEF StoreLoad, Answered, RecentInv, CacheInv, TypeOK
<1>5. load' = Collected(finished, inFlight', caller)
  BY DEF StoreLoad, Answered
<1>6. \A m \in Loads : \/ load'[m] = load[m]
                       \/ load'[m].startedAt <= clock' /\ load'[m].state # "loaded"
  <2>1. ASSUME NEW m \in Loads
        PROVE  \/ load'[m] = load[m]
               \/ load'[m].startedAt <= clock' /\ load'[m].state # "loaded"
    <3>1. load'[m] = finished[m] \/ load'[m] = UnusedLoad
      BY <1>5 DEF Collected
    <3>2. load[m].startedAt <= clock
      BY DEF RecentInv, LoadsAreRecent
    <3>3. /\ finished[m].startedAt = load[m].startedAt
          /\ finished[m] = load[m] \/ finished[m].state = "done"
      BY <1>4 DEF LoadStates
    <3>4. UnusedLoad.startedAt = 0 /\ UnusedLoad.state = "unused"
      BY DEF UnusedLoad
    <3>5. 0 <= clock
      BY <1>3
    <3>6. CASE load'[m] = finished[m]
      <4>1. CASE finished[m] = load[m]
        BY <3>6, <4>1
      <4>2. CASE finished[m].state = "done"
        <5>1. load'[m].state = "done" /\ load'[m].startedAt = load[m].startedAt
          BY <3>3, <3>6, <4>2
        <5>2. QED
          BY <1>2, <3>2, <5>1
      <4>3. QED
        BY <3>3, <4>1, <4>2
    <3>7. CASE load'[m] = UnusedLoad
      <4>1. load'[m].state = "unused" /\ load'[m].startedAt = 0
        BY <3>4, <3>7
      <4>2. QED
        BY <1>2, <3>5, <4>1
    <3>8. QED
      BY <3>1, <3>6, <3>7
  <2>2. QED
    BY <2>1
<1>7. CASE UNCHANGED entries
  BY <1>3, <1>6, <1>7, RecentStays
<1>8. CASE load[l].result.ok /\ ~UNCHANGED entries
  <2> DEFINE k == load[l].key
             element == [key |-> k, config |-> load[l].result.config,
                         expiresAt |-> clock + TTL, startedAt |-> load[l].startedAt,
                         storedAt |-> clock]
  <2>1. \A j \in Keys : entries'[j] \in {entries[j], NoEntry} \/ (j = k /\ entries'[j] = element)
    BY <1>8 DEF StoreLoad, Answered
  <2>2. HeldSince(k, load[l].result.config, load[l].startedAt) /\ load[l].startedAt <= clock
    BY <1>4, <1>8 DEF RecentInv, LoadsAreRecent
  <2>3. ASSUME NEW j \in Keys, entries'[j] # NoEntry
        PROVE  /\ HeldSince(j, entries[j].config, entries[j].startedAt)'
               /\ entries'[j].startedAt <= clock'
               /\ entries'[j].expiresAt = entries'[j].storedAt + TTL
    <3>1. CASE entries'[j] \in {entries[j], NoEntry}
      BY <1>3, <2>3, <3>1, EntryStaysRecent
    <3>2. CASE j = k /\ entries'[j] = element
      <4>1. /\ entries'[j].config = load[l].result.config
            /\ entries'[j].startedAt = load[l].startedAt
            /\ entries'[j].expiresAt = clock + TTL /\ entries'[j].storedAt = clock
        BY <3>2
      <4>2. QED
        BY <1>3, <2>2, <3>2, <4>1 DEF HeldSince
    <3>3. QED
      BY <2>1, <3>1, <3>2
  <2>4. EntriesAreRecent'
    BY <2>3 DEF EntriesAreRecent
  <2>5. LoadsAreRecent'
    <3>1. ASSUME NEW m \in Loads
          PROVE  /\ load'[m].startedAt <= clock'
                 /\ load'[m].state = "loaded" /\ load'[m].result.ok =>
                      HeldSince(load[m].key, load[m].result.config, load[m].startedAt)'
      BY <1>3, <1>6, LoadStaysRecent
    <3>2. QED
      BY <3>1 DEF LoadsAreRecent
  <2>6. QED
    BY <2>4, <2>5 DEF RecentInv
<1>9. QED
  BY <1>7, <1>8 DEF StoreLoad, Answered

(* Lookups that start a load, and those that do not.                        *)
LEMMA LookupIsRecent ==
  ASSUME RecentInv, CacheInv', NEW c \in Callers, NEW k \in Keys,
         Hit(c, k) \/ JoinLoad(c, k) \/ StartLoad(c, k) \/ LoadDirectly(c, k)
  PROVE  RecentInv'
<1>1. /\ UNCHANGED <<off, remote, replacedAt, clock>>
      /\ clock \in Nat /\ clock <= clock' /\ load \in [Loads -> LoadStates]
      /\ entries \in [Keys -> Elements \union {NoEntry}]
  BY DEF Hit, JoinLoad, StartLoad, LoadDirectly, RecentInv, CacheInv, TypeOK
<1>2. \A j \in Keys : entries'[j] \in {entries[j], NoEntry}
  <2>1. CASE UNCHANGED entries
    BY <2>1
  <2>2. CASE entries' = [entries EXCEPT ![k] = NoEntry]
    BY <1>1, <2>2
  <2>3. QED
    BY <2>1, <2>2 DEF Hit, JoinLoad, StartLoad, LoadDirectly, RemoveExpired, cacheVars
<1>3. \A m \in Loads : \/ load'[m] = load[m]
                       \/ load'[m].startedAt <= clock' /\ load'[m].state # "loaded"
  <2>1. CASE UNCHANGED load
    BY <2>1
  <2>2. ASSUME NEW l \in Loads, load' = [load EXCEPT ![l] = StartedLoad(k)]
        PROVE  \A m \in Loads : \/ load'[m] = load[m]
                                \/ load'[m].startedAt <= clock' /\ load'[m].state # "loaded"
    <3>1. StartedLoad(k).startedAt = clock /\ StartedLoad(k).state = "running"
      BY DEF StartedLoad
    <3>2. \A m \in Loads : load'[m] = load[m] \/ load'[m] = StartedLoad(k)
      BY <1>1, <2>2
    <3>3. QED
      BY <1>1, <3>1, <3>2
  <2>3. QED
    BY <2>1, <2>2 DEF Hit, JoinLoad, StartLoad, LoadDirectly
<1>4. QED
  BY <1>1, <1>2, <1>3, RecentStays

(* Steps of callers that wait or return.                                    *)
LEMMA WaiterIsRecent ==
  ASSUME RecentInv, CacheInv', NEW c \in Callers, Receive(c) \/ Cancel(c) \/ Return(c)
  PROVE  RecentInv'
<1>1. /\ UNCHANGED <<off, remote, replacedAt, clock, entries>>
      /\ clock \in Nat /\ clock <= clock'
  BY DEF Receive, Cancel, Return, cacheVars, RecentInv, CacheInv, TypeOK
<1>2. UNCHANGED load \/ load' = Collected(load, inFlight, caller')
  BY DEF Receive, Cancel, Return
<1>3. UnusedLoad.startedAt = 0 /\ UnusedLoad.state = "unused"
  BY DEF UnusedLoad
<1>4. \A m \in Loads : load'[m] = load[m] \/ load'[m] = UnusedLoad
  BY <1>2 DEF Collected
<1>5. \A m \in Loads : \/ load'[m] = load[m]
                       \/ load'[m].startedAt <= clock' /\ load'[m].state # "loaded"
  BY <1>1, <1>3, <1>4
<1>6. QED
  BY <1>1, <1>5, RecentStays

LEMMA NextIsRecent ==
  ASSUME RecentInv, CacheInv', [Next]_vars
  PROVE  RecentInv'
<1>1. clock \in Nat
  BY DEF RecentInv, CacheInv, TypeOK
<1>2. ASSUME NEW c \in Callers, NEW k \in Keys,
             Hit(c, k) \/ JoinLoad(c, k) \/ StartLoad(c, k) \/ LoadDirectly(c, k)
      PROVE  RecentInv'
  BY <1>2, LookupIsRecent
<1>3. ASSUME NEW l \in Loads, AttemptLoad(l) \/ StoreLoad(l)
      PROVE  RecentInv'
  BY <1>3, AttemptLoadIsRecent, StoreLoadIsRecent
<1>4. ASSUME NEW c \in Callers, Receive(c) \/ Cancel(c) \/ Return(c)
      PROVE  RecentInv'
  BY <1>4, WaiterIsRecent
<1>5. ASSUME NEW k \in Keys, ChangeRemote(k)
      PROVE  RecentInv'
  <2>1. UNCHANGED <<clock, entries, load>> /\ clock <= clock'
    BY <1>1, <1>5 DEF ChangeRemote, cacheVars
  <2>2. QED
    BY <1>5, <2>1, RecentStays
<1>6. CASE Tick
  <2>1. UNCHANGED <<remote, replacedAt, entries, load>> /\ clock <= clock'
    BY <1>1, <1>6 DEF Tick, cacheVars
  <2>2. QED
    BY <2>1, RecentStays
<1>7. CASE UNCHANGED vars
  <2>1. UNCHANGED <<remote, replacedAt, entries, load>> /\ clock <= clock'
    BY <1>1, <1>7 DEF vars, cacheVars
  <2>2. QED
    BY <2>1, RecentStays
<1>8. QED
  BY <1>2, <1>3, <1>4, <1>5, <1>6, <1>7 DEF Next

(* A hit serves an entry that has not expired; all other lookups wait.      *)
LEMMA HitIsRecent ==
  ASSUME RecentInv, NEW c \in Callers, NEW k \in Keys, Hit(c, k)
  PROVE  /\ caller'[c].key = k /\ caller'[c].result.config = entries[k].config
         /\ \/ remote[k] = entries[k].config
            \/ clock - replacedAt[k][entries[k].config]
                  < TTL + (entries[k].storedAt - entries[k].startedAt)
<1>1. caller \in [Callers -> CallerStates]
  BY DEF RecentInv, CacheInv, TypeOK
<1>2. caller'[c] = Returning(k, Ok(entries[k].config))
  BY <1>1 DEF Hit
<1>3. entries[k] \in Elements /\ clock < entries[k].expiresAt /\ entries[k] # NoEntry
  BY DEF Hit, Fresh, RecentInv, CacheInv, TypeOK
<1>4. PICK config \in Configs, started \in Nat, stored \in Nat, expires \in Nat :
        /\ config = entries[k].config /\ started = entries[k].startedAt
        /\ stored = entries[k].storedAt /\ expires = entries[k].expiresAt
  BY <1>3 DEF Elements
<1>5. /\ remote[k] = config \/ replacedAt[k][config] >= started
      /\ expires = stored + TTL /\ clock < expires
  BY <1>3, <1>4 DEF RecentInv, EntriesAreRecent, HeldSince
<1>6. replacedAt[k][config] \in Nat /\ clock \in Nat /\ TTL \in Nat
  BY ConstantsAssumption DEF RecentInv, CacheInv, TypeOK, ConstantsAssumption
<1>7. remote[k] = config \/ clock - replacedAt[k][config] < TTL + (stored - started)
  BY <1>5, <1>6
<1>8. QED
  BY <1>2, <1>4, <1>7 DEF Returning, Ok

(* Only a hit brings a caller from idle to returning.                       *)
LEMMA OthersDoNotReturn ==
  ASSUME RecentInv, [Next]_vars, NEW c \in Callers,
         caller[c] = Idle, caller'[c] # Idle, caller'[c].pc = "returning"
  PROVE  \E k \in Keys : Hit(c, k)
<1>1. caller \in [Callers -> CallerStates] /\ Idle.pc = "idle"
  BY DEF RecentInv, CacheInv, TypeOK, Idle
<1>2. ~UNCHANGED caller
  OBVIOUS
<1>3. PICK d \in Callers :
        \/ \E k \in Keys : Hit(d, k) \/ JoinLoad(d, k) \/ StartLoad(d, k) \/ LoadDirectly(d, k)
        \/ Receive(d) \/ Cancel(d) \/ Return(d)
  BY <1>2 DEF Next, vars, AttemptLoad, StoreLoad, Answered, ChangeRemote, Tick
<1>4. d = c
  BY <1>1, <1>3 DEF Hit, JoinLoad, StartLoad, LoadDirectly, Receive, Cancel, Return
<1>5. ~(Receive(d) \/ Cancel(d) \/ Return(d))
  BY <1>1, <1>4 DEF Receive, Cancel, Return
<1>6. ASSUME NEW k \in Keys, JoinLoad(d, k) \/ StartLoad(d, k) \/ LoadDirectly(d, k)
      PROVE  FALSE
  <2>1. \E l \in Loads \union {NoLoad} : caller'[c] = Waiting(k, l)
    BY <1>1, <1>4, <1>6 DEF JoinLoad, StartLoad, LoadDirectly, RecentInv, CacheInv, TypeOK
  <2>2. caller'[c].pc = "waiting"
    BY <2>1 DEF Waiting
  <2>3. QED
    BY <2>2
<1>7. QED
  BY <1>3, <1>4, <1>5, <1>6

(* A policy served from the cache was GitHub's at most TTL, plus the time   *)
(* its load took, before it is served.                                      *)
THEOREM HitsAreRecentlyHeld == Spec => HitsAreRecent
<1> DEFINE Recent(c) ==
      (caller[c] = Idle /\ caller'[c] # Idle /\ caller'[c].pc = "returning") =>
        LET k == caller'[c].key
            config == caller'[c].result.config
            loadTime == entries[k].storedAt - entries[k].startedAt
        IN  \/ remote[k] = config
            \/ clock - replacedAt[k][config] < TTL + loadTime
<1>1. Init => RecentInv
  BY InitIsRecent
<1>2. RecentInv /\ CacheInv' /\ [Next]_vars => RecentInv'
  BY NextIsRecent
<1>3. RecentInv /\ [Next]_vars => \A c \in Callers : Recent(c)
  <2> SUFFICES ASSUME RecentInv, [Next]_vars, NEW c \in Callers
               PROVE  Recent(c)
    OBVIOUS
  <2>1. CASE caller[c] = Idle /\ caller'[c] # Idle /\ caller'[c].pc = "returning"
    <3>1. PICK k \in Keys : Hit(c, k)
      BY <2>1, OthersDoNotReturn
    <3>2. QED
      BY <3>1, HitIsRecent
  <2>2. QED
    BY <2>1
<1>4. RecentInv /\ [Next]_vars =>
        [\A c \in Callers : Recent(c)]_vars
  BY <1>3
<1>5. QED
  BY <1>1, <1>2, <1>4, CacheStaysConsistent, PTL DEF Spec, HitsAreRecent

-----------------------------------------------------------------------------
(***************************************************************************)
(* The size of the cache.  SizeOfFirst is defined by recursion; what it    *)
(* sums follows from WellFounded.                                          *)
(***************************************************************************)
LEMMA SizeOfIsPositive ==
  ASSUME NEW e \in Elements
  PROVE  SizeOf(e) \in Nat \ {0}
BY ConstantsAssumption DEF Elements, SizeOf

LEMMA SizeOfFirstEquation ==
  ASSUME NEW s \in Seq(Elements)
  PROVE  /\ SizeOfFirst(s) \in [0..Len(s) -> Nat]
         /\ SizeOfFirst(s)[0] = 0
         /\ \A n \in 1..Len(s) : SizeOfFirst(s)[n] = SizeOfFirst(s)[n - 1] + SizeOf(s[n])
<1> DEFINE D == 0..Len(s)
           rank == [n \in D |-> n]
           body(f, n) == IF n = 0 THEN 0 ELSE f[n - 1] + SizeOf(s[n])
           step == [n \in D |-> [f \in [D -> Nat] |-> body(f, n)]]
<1>1. Len(s) \in Nat /\ rank \in [D -> 0..Len(s)]
  OBVIOUS
<1>2. \A n \in D \ {0} : n - 1 \in D /\ SizeOf(s[n]) \in Nat
  BY <1>1, SizeOfIsPositive
<1>3. ASSUME NEW f \in [D -> Nat], NEW n \in D
      PROVE  body(f, n) \in Nat
  BY <1>2
<1>4. step \in [D -> [[D -> Nat] -> Nat]]
  BY <1>3
<1>5. LooksBelow(step, D, Nat, rank)
  <2>1. ASSUME NEW n \in D, NEW g \in [D -> Nat], NEW h \in [D -> Nat],
               \A m \in D : rank[m] < rank[n] => g[m] = h[m]
        PROVE  step[n][g] = step[n][h]
    <3>1. CASE n = 0
      BY <3>1
    <3>2. CASE n # 0
      <4>1. n - 1 \in D /\ rank[n - 1] < rank[n]
        BY <1>1, <1>2, <3>2
      <4>2. g[n - 1] = h[n - 1]
        BY <2>1, <4>1
      <4>3. QED
        BY <3>2, <4>2
    <3>3. QED
      BY <3>1, <3>2
  <2>2. QED
    BY <2>1 DEF LooksBelow
<1>6. PICK f : Solution(f, step, D, Nat)
  <2>1. IsRecursion(step, D, Nat, rank, Len(s))
    BY <1>1, <1>4, <1>5 DEF IsRecursion
  <2>2. QED
    BY <2>1, RecursionHasSolution, Zenon
<1>7. f = [n \in 0..Len(s) |-> IF n = 0 THEN 0 ELSE f[n - 1] + SizeOf(s[n])]
  BY <1>6 DEF Solution
<1>8. SizeOfFirst(s) = [n \in 0..Len(s) |->
        IF n = 0 THEN 0 ELSE SizeOfFirst(s)[n - 1] + SizeOf(s[n])]
  BY <1>7 DEF SizeOfFirst
<1> DEFINE sum == SizeOfFirst(s)
<1>9. sum = [n \in D |-> body(sum, n)]
  BY <1>8
<1>10. sum \in [D -> Nat]
  <2> DEFINE counted == {n \in D : sum[n] \in Nat}
  <2>1. sum[0] = 0 /\ \A n \in D \ {0} : sum[n] = sum[n - 1] + SizeOf(s[n])
    BY <1>1, <1>9, SMTT(30)
  <2> HIDE DEF sum
  <2>2. 0 \in counted
    BY <1>1, <2>1
  <2>3. ASSUME NEW n \in 1..Len(s), n - 1 \in counted PROVE n \in counted
    <3>1. n \in D \ {0}
      BY <1>1
    <3>2. QED
      BY <1>2, <2>1, <2>3, <3>1
  <2>4. D \subseteq counted
    BY <1>1, <2>2, <2>3, CountingUp
  <2>5. QED
    BY <1>9, <2>4
<1>11. sum[0] = 0
  BY <1>1, <1>9
<1>12. ASSUME NEW n \in 1..Len(s) PROVE sum[n] = sum[n - 1] + SizeOf(s[n])
  <2>1. n \in D /\ n # 0
    BY <1>1
  <2> HIDE DEF sum
  <2>2. QED
    BY <1>9, <2>1
<1>13. QED
  BY <1>10, <1>11, <1>12

(* The sizes of two lists agree as far as the lists do. *)
LEMMA SizesOfCommonPart ==
  ASSUME NEW s \in Seq(Elements), NEW t \in Seq(Elements), NEW N \in Nat,
         N <= Len(s), N <= Len(t), \A i \in 1..N : s[i] = t[i]
  PROVE  \A n \in 0..N : SizeOfFirst(s)[n] = SizeOfFirst(t)[n]
<1> DEFINE alike == {n \in 0..N : SizeOfFirst(s)[n] = SizeOfFirst(t)[n]}
<1>1. 0 \in alike
  BY SizeOfFirstEquation
<1>2. ASSUME NEW n \in 1..N, n - 1 \in alike PROVE n \in alike
  <2>1. n \in 1..Len(s) /\ n \in 1..Len(t) /\ s[n] = t[n]
    OBVIOUS
  <2>2. /\ SizeOfFirst(s)[n] = SizeOfFirst(s)[n - 1] + SizeOf(s[n])
        /\ SizeOfFirst(t)[n] = SizeOfFirst(t)[n - 1] + SizeOf(t[n])
    BY <2>1, SizeOfFirstEquation
  <2>3. QED
    BY <1>2, <2>1, <2>2
<1>3. 0..N \subseteq alike
  BY <1>1, <1>2, CountingUp
<1>4. QED
  BY <1>3

(* What Append, DropFront and Without do to the size of the list. *)
LEMMA SizeOfAppend ==
  ASSUME NEW s \in Seq(Elements), NEW e \in Elements
  PROVE  SizeOfFirst(Append(s, e))[Len(s) + 1] = SizeOfFirst(s)[Len(s)] + SizeOf(e)
<1> DEFINE t == Append(s, e)
<1>1. /\ t \in Seq(Elements) /\ Len(t) = Len(s) + 1 /\ Len(s) \in Nat
      /\ t[Len(s) + 1] = e /\ \A i \in 1..Len(s) : s[i] = t[i]
  OBVIOUS
<1> HIDE DEF t
<1>2. SizeOfFirst(s)[Len(s)] = SizeOfFirst(t)[Len(s)]
  BY <1>1, SizesOfCommonPart
<1>3. SizeOfFirst(t)[Len(s) + 1] = SizeOfFirst(t)[Len(s)] + SizeOf(e)
  <2>1. Len(s) + 1 \in 1..Len(t) /\ (Len(s) + 1) - 1 = Len(s)
    BY <1>1
  <2>2. QED
    BY <1>1, <2>1, SizeOfFirstEquation
<1>4. QED
  BY <1>2, <1>3 DEF t

LEMMA SizeOfDropFront ==
  ASSUME NEW s \in Seq(Elements), NEW n \in 0..Len(s)
  PROVE  SizeOfFirst(DropFront(s, n))[Len(s) - n]
           = SizeOfFirst(s)[Len(s)] - SizeOfFirst(s)[n]
<1> DEFINE t == DropFront(s, n)
           rest == Len(s) - n
           shifted == {m \in 0..rest :
                         SizeOfFirst(t)[m] = SizeOfFirst(s)[m + n] - SizeOfFirst(s)[n]}
<1>1. /\ t \in Seq(Elements) /\ Len(t) = rest /\ rest \in Nat /\ n \in Nat
      /\ \A i \in 1..rest : t[i] = s[i + n]
  BY DropFrontProperties
<1> HIDE DEF t
<1>2. 0 \in shifted
  <2>1. SizeOfFirst(t)[0] = 0 /\ SizeOfFirst(s)[n] \in Nat
    BY <1>1, SizeOfFirstEquation
  <2>2. QED
    BY <1>1, <2>1
<1>3. ASSUME NEW m \in 1..rest, m - 1 \in shifted PROVE m \in shifted
  <2>1. /\ m + n \in 1..Len(s) /\ (m + n) - 1 = (m - 1) + n /\ m \in 1..Len(t)
        /\ (m - 1) + n \in 0..Len(s)
    BY <1>1
  <2>2. /\ SizeOfFirst(t)[m] = SizeOfFirst(t)[m - 1] + SizeOf(t[m])
        /\ SizeOfFirst(s)[m + n] = SizeOfFirst(s)[(m - 1) + n] + SizeOf(s[m + n])
    BY <1>1, <2>1, SizeOfFirstEquation
  <2>3. t[m] = s[m + n] /\ s[m + n] \in Elements
    BY <1>1, <2>1
  <2>4. SizeOf(s[m + n]) \in Nat
    BY <2>3, SizeOfIsPositive
  <2>5. SizeOfFirst(s)[n] \in Nat /\ SizeOfFirst(s)[(m - 1) + n] \in Nat
    BY <2>1, SizeOfFirstEquation
  <2>6. SizeOfFirst(t)[m - 1] = SizeOfFirst(s)[(m - 1) + n] - SizeOfFirst(s)[n]
    BY <1>3
  <2>7. QED
    BY <2>2, <2>3, <2>4, <2>5, <2>6
<1>4. 0..rest \subseteq shifted
  <2> HIDE DEF shifted
  <2>1. QED
    BY <1>1, <1>2, <1>3, CountingUp
<1>5. rest \in shifted /\ rest + n = Len(s)
  BY <1>1, <1>4
<1>6. QED
  BY <1>5 DEF t

LEMMA SizeOfWithout ==
  ASSUME NEW s \in Seq(Elements), NEW p \in 1..Len(s),
         \A i, j \in 1..Len(s) : s[i] = s[j] => i = j
  PROVE  SizeOfFirst(Without(s, s[p]))[Len(s) - 1]
           = SizeOfFirst(s)[Len(s)] - SizeOf(s[p])
<1> DEFINE t == Without(s, s[p])
           rest == Len(s) - 1
           shifted == {m \in 0..rest : p <= m + 1 =>
                         SizeOfFirst(t)[m] = SizeOfFirst(s)[m + 1] - SizeOf(s[p])}
<1>1. /\ t \in Seq(Elements) /\ Len(t) = rest /\ rest \in Nat /\ p \in Nat \ {0}
      /\ \A i \in 1..rest : t[i] = IF i < p THEN s[i] ELSE s[i + 1]
  BY WithoutProperties
<1> HIDE DEF t
<1>2. SizeOf(s[p]) \in Nat
  BY SizeOfIsPositive
<1>3. SizeOfFirst(t)[p - 1] = SizeOfFirst(s)[p] - SizeOf(s[p])
  <2>1. p - 1 \in Nat /\ p - 1 <= Len(s) /\ p - 1 <= Len(t) /\ p - 1 \in 0..(p - 1)
    BY <1>1
  <2>2. \A i \in 1..(p - 1) : t[i] = s[i]
    BY <1>1
  <2>3. SizeOfFirst(t)[p - 1] = SizeOfFirst(s)[p - 1]
    BY <1>1, <2>1, <2>2, SizesOfCommonPart
  <2>4. SizeOfFirst(s)[p] = SizeOfFirst(s)[p - 1] + SizeOf(s[p])
    BY SizeOfFirstEquation
  <2>5. SizeOfFirst(s)[p - 1] \in Nat
    <3>1. p - 1 \in 0..Len(s)
      OBVIOUS
    <3>2. QED
      BY <3>1, SizeOfFirstEquation
  <2>6. QED
    BY <1>2, <2>3, <2>4, <2>5
<1>4. 0 \in shifted
  BY <1>1, <1>3
<1>5. ASSUME NEW m \in 1..rest, m - 1 \in shifted PROVE m \in shifted
  <2>1. SUFFICES ASSUME p <= m + 1
                 PROVE  SizeOfFirst(t)[m] = SizeOfFirst(s)[m + 1] - SizeOf(s[p])
    BY <1>1
  <2>2. CASE p = m + 1
    <3>1. p - 1 = m
      BY <1>1, <2>2
    <3>2. QED
      BY <1>3, <2>2, <3>1
  <2>3. CASE p <= m
    <3>1. /\ m + 1 \in 1..Len(s) /\ (m + 1) - 1 = m /\ (m - 1) + 1 = m
          /\ m \in 1..Len(t) /\ ~ (m < p) /\ m \in 0..Len(s)
      BY <1>1, <2>3
    <3>2. /\ SizeOfFirst(t)[m] = SizeOfFirst(t)[m - 1] + SizeOf(t[m])
          /\ SizeOfFirst(s)[m + 1] = SizeOfFirst(s)[m] + SizeOf(s[m + 1])
      BY <1>1, <3>1, SizeOfFirstEquation
    <3>3. t[m] = s[m + 1] /\ SizeOf(s[m + 1]) \in Nat
      <4>1. t[m] = s[m + 1] /\ s[m + 1] \in Elements
        BY <1>1, <3>1
      <4>2. QED
        BY <4>1, SizeOfIsPositive
    <3>4. SizeOfFirst(t)[m - 1] = SizeOfFirst(s)[m] - SizeOf(s[p])
      BY <1>5, <2>3, <3>1
    <3>5. SizeOfFirst(s)[m] \in Nat
      BY <3>1, SizeOfFirstEquation
    <3>6. QED
      BY <1>2, <3>2, <3>3, <3>4, <3>5
  <2>4. QED
    BY <1>1, <2>1, <2>2, <2>3
<1>6. 0..rest \subseteq shifted
  <2> HIDE DEF shifted
  <2>1. QED
    BY <1>1, <1>4, <1>5, CountingUp
<1>7. rest \in shifted /\ rest + 1 = Len(s) /\ p <= rest + 1
  BY <1>1, <1>6
<1>8. QED
  BY <1>7 DEF t

(* The steps that touch the list.  In each, the size follows the list.      *)
LEMMA HitKeepsSize ==
  ASSUME CacheInv, SizeIsAccounted, NEW c \in Callers, NEW k \in Keys, Hit(c, k)
  PROVE  SizeIsAccounted'
<1>1. /\ entries[k] \in Elements /\ lru \in Seq(Elements)
      /\ \A i, j \in 1..Len(lru) : lru[i] = lru[j] => i = j
  BY DEF Hit, Fresh, CacheInv, TypeOK, MapAndListAgree
<1>2. PICK p \in 1..Len(lru) : lru[p] = entries[k]
  BY DEF Hit, Fresh, CacheInv, MapAndListAgree
<1> DEFINE rest == Without(lru, lru[p])
<1>3. rest \in Seq(Elements) /\ Len(rest) = Len(lru) - 1
  BY <1>1, WithoutProperties
<1>4. SizeOfFirst(rest)[Len(rest)] = SizeOfFirst(lru)[Len(lru)] - SizeOf(lru[p])
  BY <1>1, <1>3, SizeOfWithout
<1>5. lru' = Append(rest, lru[p]) /\ size' = size
  BY <1>2 DEF Hit
<1> HIDE DEF rest
<1>6. Len(lru') = Len(rest) + 1
  BY <1>3, <1>5
<1>7. SizeOfFirst(lru')[Len(rest) + 1] = SizeOfFirst(rest)[Len(rest)] + SizeOf(lru[p])
  BY <1>1, <1>2, <1>3, <1>5, SizeOfAppend
<1>8. SizeOf(lru[p]) \in Nat /\ SizeOfFirst(lru)[Len(lru)] \in Nat
  <2>1. Len(lru) \in 0..Len(lru)
    BY <1>1
  <2>2. QED
    BY <1>1, <1>2, <2>1, SizeOfIsPositive, SizeOfFirstEquation
<1>9. QED
  BY <1>4, <1>5, <1>6, <1>7, <1>8 DEF SizeIsAccounted

LEMMA RemoveExpiredKeepsSize ==
  ASSUME CacheInv, SizeIsAccounted, NEW k \in Keys, RemoveExpired(k)
  PROVE  SizeIsAccounted'
<1>1. CASE entries[k] = NoEntry
  BY <1>1 DEF RemoveExpired, SizeIsAccounted
<1>2. CASE entries[k] # NoEntry
  <2>1. PICK p \in 1..Len(lru) : lru[p] = entries[k]
    BY <1>2 DEF CacheInv, MapAndListAgree
  <2>2. lru \in Seq(Elements) /\ \A i, j \in 1..Len(lru) : lru[i] = lru[j] => i = j
    BY DEF CacheInv, TypeOK, MapAndListAgree
  <2>3. lru' = Without(lru, lru[p]) /\ size' = size - SizeOf(lru[p])
    BY <1>2, <2>1 DEF RemoveExpired
  <2>4. Len(lru') = Len(lru) - 1
    BY <2>2, <2>3, WithoutProperties
  <2>5. SizeOfFirst(lru')[Len(lru')] = SizeOfFirst(lru)[Len(lru)] - SizeOf(lru[p])
    BY <2>2, <2>3, <2>4, SizeOfWithout
  <2>6. SizeOf(lru[p]) \in Nat /\ SizeOfFirst(lru)[Len(lru)] \in Nat
    <3>1. Len(lru) \in 0..Len(lru) /\ lru[p] \in Elements
      BY <2>2
    <3>2. QED
      BY <2>2, <3>1, SizeOfIsPositive, SizeOfFirstEquation
  <2>7. QED
    BY <2>3, <2>5, <2>6, ConstantsAssumption DEF SizeIsAccounted
<1>3. QED
  BY <1>1, <1>2

(* The element loadAndStore caches for a load that succeeded.               *)
Loaded(l) ==
  [key |-> load[l].key, config |-> load[l].result.config, expiresAt |-> clock + TTL,
   startedAt |-> load[l].startedAt, storedAt |-> clock]

LEMMA LoadedIsTyped ==
  ASSUME CacheInv, NEW l \in Loads, load[l].result.ok
  PROVE  Loaded(l) \in Elements
BY ConstantsAssumption
DEF CacheInv, TypeOK, Loaded, Elements, LoadStates, Results, Ok, Err, Configs

LEMMA StoreLoadKeepsSize ==
  ASSUME CacheInv, SizeIsAccounted, NEW l \in Loads, StoreLoad(l)
  PROVE  SizeIsAccounted'
<1> DEFINE pushed == Append(lru, Loaded(l))
           total == size + SizeOf(Loaded(l))
<1>1. CASE ~load[l].result.ok
  BY <1>1 DEF StoreLoad, Answered, SizeIsAccounted
<1>2. CASE load[l].result.ok
  <2>1. Loaded(l) \in Elements /\ lru \in Seq(Elements)
    BY <1>2, LoadedIsTyped DEF CacheInv, TypeOK
  <2>2. pushed \in Seq(Elements) /\ Len(pushed) = Len(lru) + 1
    BY <2>1
  <2>3. PICK n \in 0..Len(pushed) :
          /\ Evicts(n, pushed, total)
          /\ size' = total - SizeOfFirst(pushed)[n]
          /\ lru' = DropFront(pushed, n)
    BY <1>2 DEF StoreLoad, Answered, Loaded
  <2>4. total = SizeOfFirst(pushed)[Len(pushed)]
    BY <2>1, <2>2, SizeOfAppend DEF SizeIsAccounted
  <2> HIDE DEF pushed, total
  <2>5. Len(lru') = Len(pushed) - n
    BY <2>2, <2>3, DropFrontProperties
  <2>6. SizeOfFirst(lru')[Len(lru')] = total - SizeOfFirst(pushed)[n]
    BY <2>2, <2>3, <2>4, <2>5, SizeOfDropFront
  <2>7. QED
    BY <2>3, <2>6 DEF SizeIsAccounted, Evicts
<1>3. QED
  BY <1>1, <1>2

(* What c.size holds is the size of the entries in the list, and no more    *)
(* than maxSize, in every state in which the mutex is free.                 *)
THEOREM SizeIsAlwaysAccounted == Spec => []SizeIsAccounted
<1>1. Init => SizeIsAccounted
  <2> SUFFICES ASSUME Init PROVE SizeIsAccounted
    OBVIOUS
  <2>1. lru \in Seq(Elements) /\ Len(lru) = 0 /\ size = 0
    BY DEF Init
  <2>2. SizeOfFirst(lru)[0] = 0
    BY <2>1, SizeOfFirstEquation
  <2>3. QED
    BY <2>1, <2>2, ConstantsAssumption DEF SizeIsAccounted
<1>2. CacheInv /\ SizeIsAccounted /\ [Next]_vars => SizeIsAccounted'
  <2> SUFFICES ASSUME CacheInv, SizeIsAccounted, [Next]_vars PROVE SizeIsAccounted'
    OBVIOUS
  <2>1. ASSUME NEW c \in Callers, NEW k \in Keys, Hit(c, k)
        PROVE  SizeIsAccounted'
    BY <2>1, HitKeepsSize
  <2>2. ASSUME NEW c \in Callers, NEW k \in Keys, JoinLoad(c, k) \/ StartLoad(c, k)
        PROVE  SizeIsAccounted'
    BY <2>2, RemoveExpiredKeepsSize DEF JoinLoad, StartLoad
  <2>3. ASSUME NEW l \in Loads, StoreLoad(l)
        PROVE  SizeIsAccounted'
    BY <2>3, StoreLoadKeepsSize
  <2>4. CASE \/ \E c \in Callers, k \in Keys : LoadDirectly(c, k)
             \/ \E l \in Loads : AttemptLoad(l)
             \/ \E c \in Callers : Receive(c) \/ Cancel(c) \/ Return(c)
             \/ \E k \in Keys : ChangeRemote(k)
             \/ Tick
             \/ UNCHANGED vars
    <3>1. UNCHANGED <<lru, size>>
      BY <2>4 DEF LoadDirectly, AttemptLoad, Receive, Cancel, Return, ChangeRemote, Tick,
         vars, cacheVars
    <3>2. QED
      BY <3>1 DEF SizeIsAccounted
  <2>5. QED
    BY <2>1, <2>2, <2>3, <2>4 DEF Next
<1>3. QED
  BY <1>1, <1>2, CacheStaysConsistent, PTL DEF Spec

(* The loop "for c.size > c.maxSize" ends before the list is empty or when  *)
(* it is: a load that succeeded can always be stored, and c.lru.Back() is   *)
(* never nil inside the loop.                                               *)
THEOREM EvictionAlwaysEnds ==
  ASSUME CacheInv, SizeIsAccounted, NEW l \in Loads, load[l].result.ok
  PROVE  LET pushed == Append(lru, Loaded(l))
             total == size + SizeOf(Loaded(l))
         IN  \E n \in 0..Len(pushed) : Evicts(n, pushed, total)
<1> DEFINE pushed == Append(lru, Loaded(l))
           total == size + SizeOf(Loaded(l))
           enough == {n \in 0..Len(pushed) : total - SizeOfFirst(pushed)[n] <= MaxSize}
<1>1. Loaded(l) \in Elements /\ lru \in Seq(Elements)
  BY LoadedIsTyped DEF CacheInv, TypeOK
<1>2. pushed \in Seq(Elements) /\ Len(pushed) = Len(lru) + 1 /\ Len(pushed) \in Nat
  BY <1>1
<1>3. total = SizeOfFirst(pushed)[Len(pushed)]
  BY <1>1, <1>2, SizeOfAppend DEF SizeIsAccounted
<1> HIDE DEF pushed, total
<1>4. Len(pushed) \in enough
  <2>1. Len(pushed) \in 0..Len(pushed)
    BY <1>2
  <2>2. SizeOfFirst(pushed)[Len(pushed)] \in Nat
    BY <1>2, <2>1, SizeOfFirstEquation
  <2>3. QED
    BY <1>3, <2>1, <2>2, ConstantsAssumption
<1>5. PICK n \in enough : \A m \in enough : n <= m
  <2>1. enough # {} /\ enough \subseteq Nat
    BY <1>4
  <2>2. QED
    BY <2>1, LeastNumber
<1>6. Evicts(n, pushed, total)
  <2>1. \A m \in 0..(n - 1) : m \in 0..Len(pushed) /\ ~ (n <= m)
    BY <1>2
  <2>2. QED
    BY <1>5, <2>1 DEF Evicts
<1>7. QED
  BY <1>6 DEF pushed, total

-----------------------------------------------------------------------------
(***************************************************************************)
(* The order of the cache.  The history recency never repeats a key, and   *)
(* the list is in its order.                                               *)
(***************************************************************************)
Ordered(s, r) ==
  /\ \A i \in 1..Len(s) : \E a \in 1..Len(r) : r[a] = s[i].key
  /\ \A i, j \in 1..Len(s) : i < j =>
       \E a, b \in 1..Len(r) : a < b /\ r[a] = s[i].key /\ r[b] = s[j].key

RecencyInv ==
  /\ recency \in Seq(Keys)
  /\ \A a, b \in 1..Len(recency) : recency[a] = recency[b] => a = b
  /\ Ordered(lru, recency)

(* u is r with k moved, or added, to its end. *)
MovesToEnd(r, u, k) ==
  /\ u \in Seq(Keys)
  /\ Len(u) \in 1..(Len(r) + 1)
  /\ u[Len(u)] = k
  /\ \A a, b \in 1..Len(u) : u[a] = u[b] => a = b
  /\ \A a \in 1..Len(r) : r[a] # k => \E c \in 1..(Len(u) - 1) : u[c] = r[a]
  /\ \A a, b \in 1..Len(r) : a < b /\ r[a] # k /\ r[b] # k =>
       \E c, d \in 1..(Len(u) - 1) : c < d /\ u[c] = r[a] /\ u[d] = r[b]

LEMMA UsedMovesToEnd ==
  ASSUME recency \in Seq(Keys),
         \A a, b \in 1..Len(recency) : recency[a] = recency[b] => a = b,
         NEW k \in Keys
  PROVE  MovesToEnd(recency, Used(k), k)
<1> DEFINE others == IF \E i \in 1..Len(recency) : recency[i] = k THEN Without(recency, k)
                     ELSE recency
           u == Append(others, k)
           R == Len(recency)
<1>1. /\ R \in Nat
      /\ others \in Seq(Keys)
      /\ Len(others) \in 0..R
      /\ \A c \in 1..Len(others) : others[c] # k
      /\ \A c, d \in 1..Len(others) : others[c] = others[d] => c = d
      /\ \A a \in 1..R : recency[a] # k => \E c \in 1..Len(others) : others[c] = recency[a]
      /\ \A a, b \in 1..R : a < b /\ recency[a] # k /\ recency[b] # k =>
           \E c, d \in 1..Len(others) : c < d /\ others[c] = recency[a] /\ others[d] = recency[b]
  <2>1. CASE ~ \E i \in 1..Len(recency) : recency[i] = k
    <3>1. others = recency
      BY <2>1
    <3> HIDE DEF others
    <3>2. QED
      BY <2>1, <3>1
  <2>2. CASE \E i \in 1..Len(recency) : recency[i] = k
    <3>1. PICK p \in 1..R : recency[p] = k
      BY <2>2
    <3>2. others = Without(recency, recency[p])
      BY <2>2, <3>1
    <3> HIDE DEF others
    <3>3. /\ others \in Seq(Keys) /\ Len(others) = R - 1 /\ R \in Nat \ {0}
          /\ \A c \in 1..(R - 1) : others[c] = IF c < p THEN recency[c] ELSE recency[c + 1]
      <4>1. R \in Nat \ {0}
        OBVIOUS
      <4>2. /\ Without(recency, recency[p]) \in Seq(Keys)
            /\ Len(Without(recency, recency[p])) = R - 1
            /\ \A c \in 1..(R - 1) :
                 Without(recency, recency[p])[c] = IF c < p THEN recency[c] ELSE recency[c + 1]
        BY WithoutProperties
      <4>3. QED
        BY <3>2, <4>1, <4>2
    <3>4. \A c \in 1..(R - 1) : \E a \in 1..R :
             /\ a = IF c < p THEN c ELSE c + 1
             /\ others[c] = recency[a]
      BY <3>3
    <3>5. \A c \in 1..Len(others) : others[c] # k
      BY <3>1, <3>3, <3>4
    <3>6. \A c, d \in 1..Len(others) : others[c] = others[d] => c = d
      <4>1. SUFFICES ASSUME NEW c \in 1..(R - 1), NEW d \in 1..(R - 1), others[c] = others[d]
                     PROVE  c = d
        BY <3>3
      <4>2. PICK a \in 1..R : a = (IF c < p THEN c ELSE c + 1) /\ others[c] = recency[a]
        BY <3>4
      <4>3. PICK b \in 1..R : b = (IF d < p THEN d ELSE d + 1) /\ others[d] = recency[b]
        BY <3>4
      <4>4. a = b
        BY <4>1, <4>2, <4>3
      <4>5. QED
        BY <3>3, <4>2, <4>3, <4>4
    <3>7. \A a \in 1..R : recency[a] # k =>
            /\ (IF a < p THEN a ELSE a - 1) \in 1..Len(others)
            /\ others[IF a < p THEN a ELSE a - 1] = recency[a]
      <4>1. SUFFICES ASSUME NEW a \in 1..R, recency[a] # k
                     PROVE  /\ (IF a < p THEN a ELSE a - 1) \in 1..Len(others)
                            /\ others[IF a < p THEN a ELSE a - 1] = recency[a]
        OBVIOUS
      <4>2. CASE a < p
        BY <3>3, <4>2
      <4>3. CASE a > p
        <5>1. a - 1 \in 1..(R - 1) /\ ~ (a - 1 < p) /\ (a - 1) + 1 = a /\ ~ (a < p)
          BY <3>3, <4>3
        <5>2. QED
          BY <3>3, <5>1
      <4>4. QED
        BY <3>1, <4>1, <4>2, <4>3
    <3>8. \A a, b \in 1..R : a < b /\ recency[a] # k /\ recency[b] # k =>
            (IF a < p THEN a ELSE a - 1) < (IF b < p THEN b ELSE b - 1)
      BY <3>1, <3>3
    <3>9. \A a \in 1..R : recency[a] # k => \E c \in 1..Len(others) : others[c] = recency[a]
      BY <3>7
    <3>10. \A a, b \in 1..R : a < b /\ recency[a] # k /\ recency[b] # k =>
             \E c, d \in 1..Len(others) : c < d /\ others[c] = recency[a] /\ others[d] = recency[b]
      <4>1. SUFFICES ASSUME NEW a \in 1..R, NEW b \in 1..R,
                            a < b, recency[a] # k, recency[b] # k
                     PROVE  \E c, d \in 1..Len(others) :
                              c < d /\ others[c] = recency[a] /\ others[d] = recency[b]
        OBVIOUS
      <4> DEFINE c == IF a < p THEN a ELSE a - 1
                 d == IF b < p THEN b ELSE b - 1
      <4>2. c < d
        BY <3>8, <4>1
      <4>3. c \in 1..Len(others) /\ others[c] = recency[a]
        BY <3>7, <4>1
      <4>4. d \in 1..Len(others) /\ others[d] = recency[b]
        BY <3>7, <4>1
      <4> HIDE DEF c, d
      <4>5. QED
        BY <4>2, <4>3, <4>4
    <3>11. R \in Nat /\ Len(others) \in 0..R
      BY <3>3
    <3>12. QED
      BY <3>3, <3>5, <3>6, <3>9, <3>10, <3>11
  <2>3. QED
    BY <2>1, <2>2
<1>2. Used(k) = u
  BY DEF Used
<1> HIDE DEF others
<1>3. /\ u \in Seq(Keys) /\ Len(u) = Len(others) + 1 /\ u[Len(u)] = k
      /\ \A c \in 1..Len(others) : u[c] = others[c]
  BY <1>1
<1> HIDE DEF u
<1>4. \A a, b \in 1..Len(u) : u[a] = u[b] => a = b
  <2>1. SUFFICES ASSUME NEW a \in 1..Len(u), NEW b \in 1..Len(u), u[a] = u[b] PROVE a = b
    OBVIOUS
  <2>2. a \in 1..Len(others) \/ a = Len(u)
    BY <1>1, <1>3
  <2>3. b \in 1..Len(others) \/ b = Len(u)
    BY <1>1, <1>3
  <2>4. Len(others) \in Nat /\ Len(u) = Len(others) + 1
    BY <1>1, <1>3
  <2>5. CASE a \in 1..Len(others) /\ b \in 1..Len(others)
    <3>1. others[a] = others[b]
      BY <1>3, <2>1, <2>5
    <3>2. QED
      BY <1>1, <2>5, <3>1
  <2>6. CASE a = Len(u) /\ b \in 1..Len(others)
    <3>1. others[b] = k
      BY <1>3, <2>1, <2>6
    <3>2. QED
      BY <1>1, <2>6, <3>1
  <2>7. CASE a \in 1..Len(others) /\ b = Len(u)
    <3>1. others[a] = k
      BY <1>3, <2>1, <2>7
    <3>2. QED
      BY <1>1, <2>7, <3>1
  <2>8. QED
    BY <2>2, <2>3, <2>5, <2>6, <2>7
<1>5. Len(u) - 1 = Len(others) /\ Len(u) \in 1..(R + 1)
  BY <1>1, <1>3
<1>6. \A a \in 1..R : recency[a] # k => \E c \in 1..(Len(u) - 1) : u[c] = recency[a]
  BY <1>1, <1>3, <1>5
<1>7. \A a, b \in 1..R : a < b /\ recency[a] # k /\ recency[b] # k =>
        \E c, d \in 1..(Len(u) - 1) : c < d /\ u[c] = recency[a] /\ u[d] = recency[b]
  BY <1>1, <1>3, <1>5
<1>8. MovesToEnd(recency, u, k)
  BY <1>3, <1>4, <1>5, <1>6, <1>7, Zenon DEF MovesToEnd
<1>9. QED
  BY <1>2, <1>8

(* What is left of an ordered list is ordered.                              *)
LEMMA PartOfOrdered ==
  ASSUME NEW s \in Seq(Elements), NEW t \in Seq(Elements), NEW r, Ordered(s, r),
         \A i \in 1..Len(t) : \E q \in 1..Len(s) : t[i] = s[q],
         \A i, j \in 1..Len(t) : i < j =>
           \E q, w \in 1..Len(s) : q < w /\ t[i] = s[q] /\ t[j] = s[w]
  PROVE  Ordered(t, r)
<1>1. ASSUME NEW i \in 1..Len(t) PROVE \E a \in 1..Len(r) : r[a] = t[i].key
  <2>1. PICK q \in 1..Len(s) : t[i] = s[q]
    OBVIOUS
  <2>2. \E a \in 1..Len(r) : r[a] = s[q].key
    BY Zenon DEF Ordered
  <2>3. QED
    BY <2>1, <2>2
<1>2. ASSUME NEW i \in 1..Len(t), NEW j \in 1..Len(t), i < j
      PROVE  \E a, b \in 1..Len(r) : a < b /\ r[a] = t[i].key /\ r[b] = t[j].key
  <2>1. PICK q \in 1..Len(s), w \in 1..Len(s) : q < w /\ t[i] = s[q] /\ t[j] = s[w]
    BY <1>2
  <2>2. \E a, b \in 1..Len(r) : a < b /\ r[a] = s[q].key /\ r[b] = s[w].key
    BY <2>1, Zenon DEF Ordered
  <2>3. QED
    BY <2>1, <2>2
<1>3. QED
  BY <1>1, <1>2 DEF Ordered

(* The key of an element that joins the list is the last one used.          *)
LEMMA PushKeepsOrder ==
  ASSUME RecencyInv, NEW s \in Seq(Elements), Ordered(s, recency), NEW e \in Elements,
         \A i \in 1..Len(s) : s[i].key # e.key, recency' = Used(e.key)
  PROVE  /\ recency' \in Seq(Keys)
         /\ \A a, b \in 1..Len(recency') : recency'[a] = recency'[b] => a = b
         /\ Ordered(Append(s, e), recency')
<1> DEFINE k == e.key
           t == Append(s, e)
           u == recency'
<1>1. k \in Keys
  BY DEF Elements
<1>2. /\ u \in Seq(Keys)
      /\ Len(u) \in 1..(Len(recency) + 1) /\ Len(u) \in Nat /\ Len(recency) \in Nat
      /\ u[Len(u)] = k
      /\ \A a, b \in 1..Len(u) : u[a] = u[b] => a = b
      /\ \A a \in 1..Len(recency) : recency[a] # k =>
           \E c \in 1..(Len(u) - 1) : u[c] = recency[a]
      /\ \A a, b \in 1..Len(recency) : a < b /\ recency[a] # k /\ recency[b] # k =>
           \E c, d \in 1..(Len(u) - 1) : c < d /\ u[c] = recency[a] /\ u[d] = recency[b]
  <2>1. /\ recency \in Seq(Keys)
        /\ \A a, b \in 1..Len(recency) : recency[a] = recency[b] => a = b
    BY DEF RecencyInv
  <2>2. Used(k) = u
    OBVIOUS
  <2> HIDE DEF u, k
  <2>3. MovesToEnd(recency, u, k)
    BY <1>1, <2>1, <2>2, UsedMovesToEnd
  <2>4. Len(u) \in Nat /\ Len(recency) \in Nat
    BY <2>1, <2>3 DEF MovesToEnd
  <2>5. QED
    BY <2>3, <2>4 DEF MovesToEnd
<1>3. /\ Len(t) = Len(s) + 1 /\ Len(s) \in Nat /\ t[Len(t)] = e
      /\ \A i \in 1..Len(s) : t[i] = s[i]
  OBVIOUS
<1> HIDE DEF t, k, u
<1>4. \A i \in 1..Len(t) : i \in 1..Len(s) \/ i = Len(t)
  BY <1>3
<1>5. ASSUME NEW i \in 1..Len(s)
      PROVE  \E c \in 1..(Len(u) - 1) : u[c] = t[i].key
  <2>1. PICK a \in 1..Len(recency) : recency[a] = s[i].key
    BY DEF Ordered
  <2>2. recency[a] # k
    BY <2>1 DEF k
  <2>3. QED
    BY <1>2, <1>3, <2>1, <2>2
<1>6. ASSUME NEW i \in 1..Len(t) PROVE \E c \in 1..Len(u) : u[c] = t[i].key
  <2>1. CASE i \in 1..Len(s)
    BY <1>2, <1>5, <2>1
  <2>2. CASE i = Len(t)
    BY <1>2, <1>3, <2>2 DEF k
  <2>3. QED
    BY <1>4, <2>1, <2>2
<1>7. ASSUME NEW i \in 1..Len(t), NEW j \in 1..Len(t), i < j
      PROVE  \E c, d \in 1..Len(u) : c < d /\ u[c] = t[i].key /\ u[d] = t[j].key
  <2>1. i \in 1..Len(s)
    BY <1>3, <1>4, <1>7
  <2>2. CASE j = Len(t)
    <3>1. PICK c \in 1..(Len(u) - 1) : u[c] = t[i].key
      BY <1>5, <2>1
    <3>2. c \in 1..Len(u) /\ Len(u) \in 1..Len(u) /\ c < Len(u) /\ u[Len(u)] = t[j].key
      BY <1>2, <1>3, <2>2 DEF k
    <3>3. QED
      BY <3>1, <3>2
  <2>3. CASE j \in 1..Len(s)
    <3>1. PICK a \in 1..Len(recency), b \in 1..Len(recency) :
            a < b /\ recency[a] = s[i].key /\ recency[b] = s[j].key
      BY <1>7, <2>1, <2>3 DEF Ordered
    <3>2. recency[a] # k /\ recency[b] # k
      BY <2>1, <2>3, <3>1 DEF k
    <3>3. PICK c \in 1..(Len(u) - 1), d \in 1..(Len(u) - 1) :
            c < d /\ u[c] = recency[a] /\ u[d] = recency[b]
      BY <1>2, <3>1, <3>2
    <3>4. c \in 1..Len(u) /\ d \in 1..Len(u)
      BY <1>2
    <3>5. u[c] = t[i].key /\ u[d] = t[j].key
      BY <1>3, <2>1, <2>3, <3>1, <3>3
    <3>6. QED
      BY <3>3, <3>4, <3>5
  <2>4. QED
    BY <1>4, <2>2, <2>3
<1>8. Ordered(t, u)
  BY <1>6, <1>7 DEF Ordered
<1>9. QED
  BY <1>2, <1>8 DEF t, u

LEMMA WithoutKeepsOrder ==
  ASSUME NEW s \in Seq(Elements), NEW p \in 1..Len(s), NEW r, Ordered(s, r),
         \A i, j \in 1..Len(s) : s[i] = s[j] => i = j
  PROVE  /\ Ordered(Without(s, s[p]), r)
         /\ \A i \in 1..(Len(s) - 1) :
              \E q \in 1..Len(s) : q # p /\ Without(s, s[p])[i] = s[q]
<1> DEFINE t == Without(s, s[p])
           from(i) == IF i < p THEN i ELSE i + 1
<1>1. /\ t \in Seq(Elements) /\ Len(t) = Len(s) - 1 /\ Len(s) \in Nat
      /\ \A i \in 1..(Len(s) - 1) : t[i] = IF i < p THEN s[i] ELSE s[i + 1]
  BY WithoutProperties
<1> HIDE DEF t
<1>2. \A i \in 1..Len(t) : from(i) \in 1..Len(s) /\ from(i) # p /\ t[i] = s[from(i)]
  BY <1>1
<1>3. \A i, j \in 1..Len(t) : i < j => from(i) < from(j)
  BY <1>1
<1> HIDE DEF from
<1>4. \A i \in 1..Len(t) : \E q \in 1..Len(s) : t[i] = s[q]
  BY <1>2
<1>5. \A i, j \in 1..Len(t) : i < j =>
        \E q, w \in 1..Len(s) : q < w /\ t[i] = s[q] /\ t[j] = s[w]
  BY <1>2, <1>3
<1>6. Ordered(t, r)
  BY <1>1, <1>4, <1>5, PartOfOrdered
<1>7. QED
  BY <1>1, <1>2, <1>6 DEF t

LEMMA HitKeepsOrder ==
  ASSUME CacheInv, RecencyInv, NEW c \in Callers, NEW k \in Keys, Hit(c, k)
  PROVE  RecencyInv'
<1>1. /\ lru \in Seq(Elements)
      /\ \A i, j \in 1..Len(lru) : lru[i].key = lru[j].key => i = j
      /\ entries[k] \in Elements /\ entries[k].key = k
  <2>1. entries[k] # NoEntry
    BY DEF Hit, Fresh
  <2>2. QED
    BY <2>1 DEF CacheInv, TypeOK, MapAndListAgree
<1>2. PICK p \in 1..Len(lru) : lru[p] = entries[k]
  BY DEF Hit, Fresh, CacheInv, MapAndListAgree
<1> DEFINE rest == Without(lru, lru[p])
<1>3. \A i, j \in 1..Len(lru) : lru[i] = lru[j] => i = j
  BY <1>1
<1>4. rest \in Seq(Elements) /\ Len(rest) = Len(lru) - 1
  BY <1>1, <1>3, WithoutProperties
<1>5. /\ Ordered(rest, recency)
      /\ \A i \in 1..(Len(lru) - 1) : \E q \in 1..Len(lru) : q # p /\ rest[i] = lru[q]
  BY <1>1, <1>3, WithoutKeepsOrder DEF RecencyInv
<1>6. lru' = Append(rest, lru[p]) /\ recency' = Used(k)
  BY <1>2 DEF Hit
<1> HIDE DEF rest
<1>7. lru[p].key = k /\ lru[p] \in Elements
  BY <1>1, <1>2
<1>8. \A i \in 1..Len(rest) : rest[i].key # lru[p].key
  <2>1. SUFFICES ASSUME NEW i \in 1..Len(rest) PROVE rest[i].key # lru[p].key
    OBVIOUS
  <2>2. PICK q \in 1..Len(lru) : q # p /\ rest[i] = lru[q]
    BY <1>4, <1>5
  <2>3. QED
    BY <1>1, <2>2
<1>9. recency' = Used(lru[p].key)
  BY <1>6, <1>7
<1>10. /\ recency' \in Seq(Keys)
       /\ \A a, b \in 1..Len(recency') : recency'[a] = recency'[b] => a = b
       /\ Ordered(Append(rest, lru[p]), recency')
  BY <1>4, <1>5, <1>7, <1>8, <1>9, PushKeepsOrder
<1>11. QED
  BY <1>6, <1>10 DEF RecencyInv

LEMMA RemoveExpiredKeepsOrder ==
  ASSUME CacheInv, RecencyInv, NEW k \in Keys, RemoveExpired(k), UNCHANGED recency
  PROVE  RecencyInv'
<1>1. CASE entries[k] = NoEntry
  BY <1>1 DEF RemoveExpired, RecencyInv, Ordered
<1>2. CASE entries[k] # NoEntry
  <2>1. PICK p \in 1..Len(lru) : lru[p] = entries[k]
    BY <1>2 DEF CacheInv, MapAndListAgree
  <2>2. lru \in Seq(Elements) /\ \A i, j \in 1..Len(lru) : lru[i] = lru[j] => i = j
    BY DEF CacheInv, TypeOK, MapAndListAgree
  <2>3. lru' = Without(lru, lru[p])
    BY <1>2, <2>1 DEF RemoveExpired
  <2>4. Ordered(Without(lru, lru[p]), recency)
    BY <2>2, WithoutKeepsOrder DEF RecencyInv
  <2>5. QED
    BY <2>3, <2>4 DEF RecencyInv
<1>3. QED
  BY <1>1, <1>2

LEMMA StoreLoadKeepsOrder ==
  ASSUME CacheInv, RecencyInv, NEW l \in Loads, StoreLoad(l)
  PROVE  RecencyInv'
<1> DEFINE e == Loaded(l)
           pushed == Append(lru, e)
<1>1. CASE ~load[l].result.ok
  <2>1. recency' = recency /\ lru' = lru
    BY <1>1 DEF StoreLoad, Answered
  <2>2. QED
    BY <2>1 DEF RecencyInv, Ordered
<1>2. CASE load[l].result.ok
  <2>1. e \in Elements /\ lru \in Seq(Elements)
    BY <1>2, LoadedIsTyped DEF CacheInv, TypeOK
  <2>2. e.key = load[l].key /\ load[l].key \in Keys
    BY DEF Loaded, CacheInv, TypeOK, LoadStates
  <2>3. PICK n \in 0..Len(pushed) : lru' = DropFront(pushed, n) /\ recency' = Used(e.key)
    BY <1>2, <2>2 DEF StoreLoad, Answered, Loaded
  <2>4. entries[e.key] = NoEntry
    <3>1. load[l].state = "loaded" /\ ~off
      BY DEF StoreLoad, Answered
    <3>2. inFlight[load[l].key] # NoLoad
      BY <3>1, ConstantsAssumption DEF CacheInv, SingleFlight
    <3>3. QED
      BY <2>2, <3>2 DEF CacheInv, LoadsOnlyWhatIsMissing
  <2>5. \A i \in 1..Len(lru) : lru[i].key # e.key
    <3>1. \A i \in 1..Len(lru) : lru[i] \in Elements /\ entries[lru[i].key] = lru[i]
      BY <2>1 DEF CacheInv, MapAndListAgree
    <3>2. QED
      BY <2>4, <3>1, ConstantsAssumption
  <2> HIDE DEF e
  <2>6. /\ recency' \in Seq(Keys)
        /\ \A a, b \in 1..Len(recency') : recency'[a] = recency'[b] => a = b
        /\ Ordered(pushed, recency')
    <3>1. Ordered(lru, recency)
      BY DEF RecencyInv
    <3>2. QED
      BY <2>1, <2>3, <2>5, <3>1, PushKeepsOrder
  <2>7. pushed \in Seq(Elements) /\ Len(pushed) = Len(lru) + 1 /\ Len(lru) \in Nat
    BY <2>1
  <2> HIDE DEF pushed
  <2>8. /\ lru' \in Seq(Elements) /\ Len(lru') = Len(pushed) - n
        /\ \A i \in 1..(Len(pushed) - n) : lru'[i] = pushed[i + n]
    BY <2>3, <2>7, DropFrontProperties
  <2>9. /\ \A i \in 1..Len(lru') : i + n \in 1..Len(pushed) /\ lru'[i] = pushed[i + n]
        /\ \A i, j \in 1..Len(lru') : i < j => i + n < j + n
    BY <2>7, <2>8
  <2>10. \A i \in 1..Len(lru') : \E q \in 1..Len(pushed) : lru'[i] = pushed[q]
    BY <2>9
  <2>11. \A i, j \in 1..Len(lru') : i < j =>
           \E q, w \in 1..Len(pushed) : q < w /\ lru'[i] = pushed[q] /\ lru'[j] = pushed[w]
    BY <2>9
  <2>12. Ordered(lru', recency')
    BY <2>6, <2>7, <2>8, <2>10, <2>11, PartOfOrdered
  <2>13. QED
    BY <2>6, <2>12 DEF RecencyInv
<1>3. QED
  BY <1>1, <1>2

(* An ordered list evicts what has gone unused for longest.                 *)
LEMMA OrderedEvictsOldest == RecencyInv => LeastRecentlyUsedFirst
<1> SUFFICES ASSUME RecencyInv PROVE LeastRecentlyUsedFirst
  OBVIOUS
<1> DEFINE rank(k) == CHOOSE i \in 1..Len(recency) : recency[i] = k
<1>1. \A a \in 1..Len(recency) : rank(recency[a]) = a
  BY DEF RecencyInv
<1>2. ASSUME NEW i \in 1..Len(lru), NEW j \in 1..Len(lru), i < j
      PROVE  rank(lru[i].key) < rank(lru[j].key)
  <2>1. PICK a \in 1..Len(recency), b \in 1..Len(recency) :
          a < b /\ recency[a] = lru[i].key /\ recency[b] = lru[j].key
    BY <1>2 DEF RecencyInv, Ordered
  <2>2. rank(lru[i].key) = a /\ rank(lru[j].key) = b
    BY <1>1, <2>1
  <2>3. QED
    BY <2>1, <2>2
<1>3. QED
  BY <1>2 DEF LeastRecentlyUsedFirst

(* The list is in the order of the last uses of its keys, so what the cache *)
(* evicts has gone unused for longest.                                      *)
THEOREM EvictsLeastRecentlyUsed == Spec => []LeastRecentlyUsedFirst
<1>1. Init => RecencyInv
  BY DEF Init, RecencyInv, Ordered
<1>2. CacheInv /\ RecencyInv /\ [Next]_vars => RecencyInv'
  <2> SUFFICES ASSUME CacheInv, RecencyInv, [Next]_vars PROVE RecencyInv'
    OBVIOUS
  <2>1. ASSUME NEW c \in Callers, NEW k \in Keys, Hit(c, k)
        PROVE  RecencyInv'
    BY <2>1, HitKeepsOrder
  <2>2. ASSUME NEW c \in Callers, NEW k \in Keys, JoinLoad(c, k) \/ StartLoad(c, k)
        PROVE  RecencyInv'
    BY <2>2, RemoveExpiredKeepsOrder DEF JoinLoad, StartLoad
  <2>3. ASSUME NEW l \in Loads, StoreLoad(l)
        PROVE  RecencyInv'
    BY <2>3, StoreLoadKeepsOrder
  <2>4. CASE \/ \E c \in Callers, k \in Keys : LoadDirectly(c, k)
             \/ \E l \in Loads : AttemptLoad(l)
             \/ \E c \in Callers : Receive(c) \/ Cancel(c) \/ Return(c)
             \/ \E k \in Keys : ChangeRemote(k)
             \/ Tick
             \/ UNCHANGED vars
    <3>1. UNCHANGED <<lru, recency>>
      BY <2>4 DEF LoadDirectly, AttemptLoad, Receive, Cancel, Return, ChangeRemote, Tick,
         vars, cacheVars
    <3>2. lru' = lru /\ recency' = recency
      BY <3>1
    <3>3. QED
      BY <3>2 DEF RecencyInv, Ordered
  <2>5. QED
    BY <2>1, <2>2, <2>3, <2>4 DEF Next
<1>3. QED
  BY <1>1, <1>2, OrderedEvictsOldest, CacheStaysConsistent, PTL DEF Spec
=============================================================================
