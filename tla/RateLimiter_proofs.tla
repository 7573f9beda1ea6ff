------------------------- MODULE RateLimiter_proofs -------------------------
(***************************************************************************)
(* For any addresses, requests, rate and burst: types, that the sweep only *)
(* forgets full buckets, and that an address gets no more than two buckets *)
(* hold and gain.  The argument: whoever holds a bucket that is not in the *)
(* map got it before the entry that replaced it was made, and so late that *)
(* this entry cannot be swept before the request has ended.                *)
(***************************************************************************)
EXTENDS RateLimiter, TLAPS

Busy(r) == pc[r] # "idle"

\* The request holds a bucket that has been swept under its hands.
Stale(r) == Busy(r) /\ held[r] # entry[ip[r]]

Lateness(r) == IF late[r] THEN 1 ELSE 0

\* The tokens the next request of the address finds.
Left(i) == IF entry[i] = None THEN Burst ELSE tokens[entry[i]]

\* The tokens a bucket, or the bucket of an address, has been given since the tick.
Gained(l) == IF l \in due THEN beat - 1 ELSE beat

GainedBy(i) == IF entry[i] = None THEN beat ELSE Gained(entry[i])

Requests ==
    \A r \in Reqs : /\ Busy(r) => ip[r] \in Ips /\ held[r] \in Limiters
                    /\ ~Busy(r) => held[r] = None /\ ~late[r]

\* A bucket belongs to one address.
Owned ==
    /\ \A i, j \in Ips : entry[i] # None /\ entry[i] = entry[j] => i = j
    /\ \A r \in Reqs, i \in Ips : Busy(r) /\ held[r] = entry[i] => ip[r] = i
    /\ \A r, q \in Reqs : Busy(r) /\ Busy(q) /\ held[r] = held[q] => ip[r] = ip[q]

AsNew == \A l \in Unused : tokens[l] = Burst /\ age[l] = 0 /\ l \notin due

\* What a request has touched, or what replaced the bucket it holds, is young.
Young ==
    \A r \in Reqs :
        /\ pc[r] = "allow" => age[held[r]] <= Lateness(r)
        /\ Stale(r) /\ entry[ip[r]] # None => age[entry[ip[r]]] <= Lateness(r)

\* A bucket loses tokens within a tick of the last touch, and is refilled since.
Refilled == \A l \in Limiters : \/ age[l] <= 1
                              \/ tokens[l] = Burst
                              \/ tokens[l] >= Refill * (age[l] - 2) + Gained(l)

OneStale == \A r, q \in Reqs : Stale(r) /\ Stale(q) /\ ip[r] = ip[q] => held[r] = held[q]

Untouched == \A i \in Ips : entry[i] # None /\ age[entry[i]] >= 2 => admitted[i] = 0

Affords(i) ==
    /\ admitted[i] + Left(i) <= 2 * Burst + GainedBy(i) + beat
    /\ \A r \in Reqs : Stale(r) /\ ip[r] = i =>
           admitted[i] + Left(i) + tokens[held[r]] <= 2 * Burst + GainedBy(i) + Gained(held[r])

Spendable == \A i \in Ips : Affords(i)

Inv == /\ TypeOK /\ Requests /\ Owned /\ AsNew /\ Young /\ Refilled /\ OneStale
       /\ Untouched /\ Spendable

USE NoneAssumption, RateAssumption

\* An entry is not forgotten for the ticks in which a late request still spends.
LEMMA IdleIsLong == IdleTicks >= 2
  <1>1. IdleTicks = 1 => Refill * (IdleTicks - 1) = 0
    OBVIOUS
  <1> QED
    BY <1>1

LEMMA OneMoreTick ==
    ASSUME NEW a \in Nat
    PROVE  Refill * (a + 1) = Refill * a + Refill /\ Refill * a \in Nat
  OBVIOUS

LEMMA InitInv == Init => Inv
  <1> SUFFICES ASSUME Init PROVE Inv
    OBVIOUS
  <1>1. TypeOK
    BY DEF Init, TypeOK
  <1>2. Requests /\ Owned /\ AsNew /\ Young /\ Refilled /\ OneStale /\ Untouched
    BY DEF Init, Requests, Owned, AsNew, Unused, Young, Refilled, OneStale, Untouched, Busy, Stale
  <1>3. Spendable
    <2>1. \A j \in Ips : admitted[j] = 0 /\ Left(j) = Burst
      BY DEF Init, Left
    <2>0. \A j \in Ips : GainedBy(j) = 1 /\ beat = 1
      BY DEF Init, GainedBy
    <2>2. \A r \in Reqs : ~Stale(r)
      BY DEF Init, Stale, Busy
    <2> QED
      BY <2>0, <2>1, <2>2 DEF Spendable, Affords
  <1> QED
    BY <1>1, <1>2, <1>3 DEF Inv

-----------------------------------------------------------------------------
LEMMA LoadOrStoreKeepsInv ==
    ASSUME Inv, NEW r \in Reqs, NEW i \in Ips, LoadOrStore(r, i)
    PROVE  Inv'
  <1> USE DEF Inv, TypeOK, Requests, Busy
  <1>1. /\ pc[r] = "idle" /\ pc' = [pc EXCEPT ![r] = "touch"] /\ ip' = [ip EXCEPT ![r] = i]
        /\ tokens' = tokens /\ age' = age /\ late' = late /\ sweep' = sweep /\ admitted' = admitted
        /\ beat' = beat /\ due' = due
        /\ held[r] = None /\ ~late[r]
    BY DEF LoadOrStore, Arrive
  <1>2. PICK l \in Limiters :
            /\ held' = [held EXCEPT ![r] = l]
            /\ \/ entry[i] = l /\ entry' = entry
               \/ entry[i] = None /\ l \in Unused /\ entry' = [entry EXCEPT ![i] = l]
    BY DEF LoadOrStore, NewEntry, Unused
  <1>3. /\ held'[r] = l /\ entry'[i] = l /\ ip'[r] = i /\ pc'[r] = "touch"
        /\ \A q \in Reqs : q # r => held'[q] = held[q] /\ ip'[q] = ip[q] /\ pc'[q] = pc[q]
        /\ \A j \in Ips : j # i => entry'[j] = entry[j]
    BY <1>1, <1>2
  <1>4. \A q \in Reqs : Stale(q)' => q # r /\ Stale(q)
    BY <1>2, <1>3 DEF Stale, Unused
  <1>5. l \in Unused => tokens[l] = Burst /\ age[l] = 0 /\ l \notin due
    BY DEF AsNew
  <1>6. /\ \A j \in Ips : Left(j)' = Left(j) /\ GainedBy(j)' = GainedBy(j)
        /\ \A u \in Limiters : Gained(u)' = Gained(u)
    BY <1>1, <1>2, <1>3, <1>5 DEF Left, Gained, GainedBy
  <1>7. TypeOK' /\ Requests'
    BY <1>1, <1>2
  <1>8. Owned'
    BY <1>2, <1>3 DEF Owned, Unused
  <1>9. AsNew'
    <2>1. \A u \in Unused' : u \in Unused
      BY <1>1, <1>2, <1>3 DEF Unused
    <2> QED
      BY <1>1, <2>1 DEF AsNew
  <1>10. Young'
    <2>1. ASSUME NEW q \in Reqs, pc'[q] = "allow" PROVE age'[held'[q]] <= Lateness(q)'
      BY <2>1, <1>1, <1>3 DEF Young, Lateness
    <2>2. ASSUME NEW q \in Reqs, Stale(q)', entry'[ip'[q]] # None
          PROVE  age'[entry'[ip'[q]]] <= Lateness(q)'
      <3>1. q # r /\ Stale(q) /\ ip'[q] = ip[q]
        BY <2>2, <1>3, <1>4
      <3>2. CASE entry[ip[q]] = entry'[ip[q]]
        <4>1. entry[ip[q]] # None
          BY <2>2, <3>1, <3>2
        <4>2. age[entry[ip[q]]] <= Lateness(q)
          BY <3>1, <4>1 DEF Young
        <4> QED
          BY <3>1, <3>2, <4>2, <1>1 DEF Lateness
      <3>3. CASE entry[ip[q]] # entry'[ip[q]]
        <4>1. ip[q] = i /\ entry'[i] = l /\ l \in Unused
          BY <3>1, <3>3, <1>2, <1>3 DEF Stale
        <4> QED
          BY <3>1, <4>1, <1>1, <1>5 DEF Lateness
      <3> QED
        BY <3>2, <3>3
    <2> QED
      BY <2>1, <2>2 DEF Young
  <1>11. Refilled' /\ OneStale'
    BY <1>1, <1>3, <1>4, <1>6 DEF Refilled, OneStale
  <1>12. Untouched'
    BY <1>1, <1>2, <1>3, <1>5 DEF Untouched
  <1>13. Spendable'
    <2>1. ASSUME NEW q \in Reqs, Stale(q)'
          PROVE  /\ Stale(q) /\ held'[q] = held[q] /\ ip'[q] = ip[q]
                 /\ Gained(held[q])' = Gained(held[q])
      BY <2>1, <1>1, <1>3, <1>4 DEF Gained
    <2> QED
      BY <1>1, <1>6, <2>1 DEF Spendable, Affords, Gained
  <1> QED
    BY <1>7, <1>8, <1>9, <1>10, <1>11, <1>12, <1>13

LEMMA TouchKeepsInv ==
    ASSUME Inv, NEW r \in Reqs, Touch(r)
    PROVE  Inv'
  <1> USE DEF Inv, TypeOK, Requests, Busy
  <1>1. /\ pc[r] = "touch" /\ pc' = [pc EXCEPT ![r] = "allow"]
        /\ age' = [age EXCEPT ![held[r]] = 0] /\ held[r] \in Limiters
        /\ entry' = entry /\ tokens' = tokens /\ held' = held /\ ip' = ip /\ late' = late
        /\ sweep' = sweep /\ admitted' = admitted /\ beat' = beat /\ due' = due
    BY DEF Touch
  <1>2. \A l \in Limiters : age'[l] \in {0, age[l]} /\ age'[l] <= age[l]
    BY <1>1
  <1>3. /\ \A q \in Reqs : Stale(q)' <=> Stale(q)
        /\ \A j \in Ips : Left(j)' = Left(j) /\ GainedBy(j)' = GainedBy(j)
        /\ \A l \in Limiters : Gained(l)' = Gained(l)
        /\ Unused' = Unused
    BY <1>1 DEF Stale, Left, Unused, Gained, GainedBy
  <1>4. TypeOK' /\ Requests' /\ Owned' /\ OneStale'
    BY <1>1, <1>3 DEF Owned, OneStale
  <1>8. Spendable'
    <2>1. \A q \in Reqs : Gained(held[q])' = Gained(held[q])
      BY <1>1 DEF Gained
    <2> QED
      BY <1>1, <1>3, <2>1 DEF Spendable, Affords, Gained
  <1>5. AsNew' /\ Untouched'
    BY <1>1, <1>2, <1>3 DEF AsNew, Unused, Untouched
  <1>7. Refilled'
    <2>1. \A l \in Limiters : age'[l] <= 1 \/ age'[l] = age[l]
      BY <1>2
    <2> QED
      BY <1>1, <1>3, <2>1 DEF Refilled
  <1>6. Young'
    <2>1. ASSUME NEW q \in Reqs, pc'[q] = "allow" PROVE age'[held'[q]] <= Lateness(q)'
      BY <2>1, <1>1, <1>2 DEF Young, Lateness
    <2>2. ASSUME NEW q \in Reqs, Stale(q)', entry'[ip'[q]] # None
          PROVE  age'[entry'[ip'[q]]] <= Lateness(q)'
      BY <2>2, <1>1, <1>2, <1>3 DEF Young, Lateness, Stale
    <2> QED
      BY <2>1, <2>2 DEF Young
  <1> QED
    BY <1>4, <1>5, <1>6, <1>7, <1>8

LEMMA LeaveKeepsInv ==
    ASSUME Inv, NEW r \in Reqs, Allow(r) \/ Deny(r)
    PROVE  Inv'
  <1> USE DEF Inv, TypeOK, Requests, Busy
  <1>0. PICK i \in Ips, b \in Limiters : ip[r] = i /\ held[r] = b
    BY DEF Allow, Deny
  <1>1. /\ pc[r] = "allow" /\ pc' = [pc EXCEPT ![r] = "idle"] /\ held' = [held EXCEPT ![r] = None]
        /\ ip' = [ip EXCEPT ![r] = None] /\ late' = [late EXCEPT ![r] = FALSE]
        /\ entry' = entry /\ sweep' = sweep /\ age' = Recycled(age, 0)
        /\ beat' = beat /\ due' = due \ Unused'
        /\ ip[r] = i /\ held[r] = b
    BY <1>0 DEF Allow, Deny, Admit, Leave, InUse
  <1>2. PICK n \in {0, 1} :
            /\ tokens[b] - n \in 0..Burst
            /\ admitted' = [admitted EXCEPT ![i] = @ + n]
            /\ tokens' = Recycled([tokens EXCEPT ![b] = @ - n], Burst)
    <2>1. CASE Allow(r)
      <3>1. tokens[b] - 1 \in 0..Burst
        BY <1>1, <2>1 DEF Allow
      <3>2. /\ admitted' = [admitted EXCEPT ![i] = @ + 1]
            /\ tokens' = Recycled([tokens EXCEPT ![b] = @ - 1], Burst)
        BY <1>1, <2>1 DEF Allow, Admit, Leave
      <3> QED
        BY <3>1, <3>2
    <2>2. CASE Deny(r)
      <3>1. /\ tokens[b] - 0 \in 0..Burst /\ admitted' = [admitted EXCEPT ![i] = @ + 0]
            /\ tokens = [tokens EXCEPT ![b] = @ - 0] /\ tokens' = Recycled(tokens, Burst)
        BY <1>1, <2>2 DEF Deny, Leave
      <3>2. tokens' = Recycled([tokens EXCEPT ![b] = @ - 0], Burst)
        BY <3>1
      <3> QED
        BY <3>1, <3>2
    <2> QED
      BY <2>1, <2>2
  <1>3. \A l \in Limiters :
            /\ tokens'[l] = IF l \in Unused' THEN Burst ELSE IF l = b THEN tokens[b] - n ELSE tokens[l]
            /\ age'[l] = IF l \in Unused' THEN 0 ELSE age[l]
    BY <1>1, <1>2 DEF Recycled
  <1>4. /\ \A q \in Reqs : q # r => pc'[q] = pc[q] /\ held'[q] = held[q] /\ ip'[q] = ip[q]
                                    /\ late'[q] = late[q]
        /\ pc'[r] = "idle" /\ held'[r] = None /\ ~late'[r]
    BY <1>1
  <1>5. \A q \in Reqs : Stale(q)' => q # r /\ Stale(q)
    BY <1>1, <1>4 DEF Stale
  <1>6. /\ \A j \in Ips : entry[j] \notin Unused'
        /\ \A q \in Reqs : q # r /\ Busy(q) => held[q] \notin Unused'
    BY <1>1, <1>4 DEF Unused
  <1>15. /\ \A l \in Limiters : l \notin Unused' => Gained(l)' = Gained(l)
         /\ \A j \in Ips : GainedBy(j)' = GainedBy(j)
    BY <1>1, <1>6 DEF Gained, GainedBy
  <1>7. TypeOK' /\ Requests'
    <2>1. tokens' \in [Limiters -> 0..Burst] /\ age' \in [Limiters -> 0..(IdleTicks + 1)]
      <3>1. ASSUME NEW l \in Limiters PROVE tokens'[l] \in 0..Burst
        <4>1. Burst \in 0..Burst /\ tokens[l] \in 0..Burst
          OBVIOUS
        <4> HIDE DEF TypeOK
        <4> QED
          BY <1>2, <1>3, <4>1
      <3>2. \A l \in Limiters : age'[l] \in 0..(IdleTicks + 1)
        BY <1>3
      <3> QED
        BY <1>1, <1>2, <3>1, <3>2 DEF Recycled
    <2>2. admitted' \in [Ips -> Nat]
      BY <1>1, <1>2
    <2> QED
      BY <1>1, <1>4, <2>1, <2>2
  <1>8. Owned' /\ OneStale'
    BY <1>1, <1>4, <1>5 DEF Owned, OneStale
  <1>9. AsNew'
    <2>1. Unused' \subseteq Limiters
      BY DEF Unused
    <2> QED
      BY <1>1, <1>3, <2>1 DEF AsNew
  <1>10. Young'
    BY <1>1, <1>3, <1>4, <1>5, <1>6 DEF Young, Lateness, Stale
  <1>11. age[b] <= 1
    BY <1>1 DEF Young, Lateness
  <1>12. Refilled'
    <2>1. ASSUME NEW l \in Limiters, age'[l] >= 2
          PROVE  /\ age'[l] = age[l] /\ tokens'[l] = tokens[l] /\ Gained(l)' = Gained(l)
      BY <2>1, <1>3, <1>11, <1>15
    <2> QED
      BY <1>3, <2>1 DEF Refilled
  <1>13. Untouched'
    <2>1. CASE entry[i] # None
      <3>1. age[entry[i]] <= 1
        BY <1>1, <1>11, <2>1 DEF Young, Lateness, Stale
      <3> QED
        BY <1>1, <1>2, <1>3, <1>6, <3>1 DEF Untouched
    <2>2. CASE entry[i] = None
      BY <1>1, <1>2, <1>3, <1>6, <2>2 DEF Untouched
    <2> QED
      BY <2>1, <2>2
  <1>14. Spendable'
    <2>1. \A j \in Ips : j # i => admitted'[j] = admitted[j] /\ entry[j] # b
      BY <1>1, <1>2 DEF Owned
    <2>2. ASSUME NEW j \in Ips, j # i PROVE Left(j)' = Left(j)
      BY <1>1, <1>3, <1>6, <2>1, <2>2 DEF Left
    <2>0. ASSUME NEW q \in Reqs, Stale(q)'
          PROVE  /\ q # r /\ Busy(q) /\ Stale(q) /\ ip'[q] = ip[q] /\ ip[q] \in Ips
                 /\ held'[q] = held[q] /\ held[q] \in Limiters /\ held[q] \notin Unused'
                 /\ Gained(held[q])' = Gained(held[q])
      BY <2>0, <1>4, <1>5, <1>6, <1>15 DEF Stale
    <2>3. ASSUME NEW q \in Reqs, Stale(q)', ip[q] # i PROVE tokens'[held[q]] = tokens[held[q]]
      <3>1. held[q] # b
        BY <2>0, <2>3, <1>1 DEF Owned
      <3> QED
        BY <1>3, <2>0, <2>3, <3>1
    <2>4. ASSUME NEW j \in Ips, j # i
          PROVE  Affords(j)'
      BY <2>0, <2>1, <2>2, <2>3, <2>4, <1>1, <1>15 DEF Spendable, Affords, Gained
    <2>5. /\ admitted'[i] = admitted[i] + n /\ admitted[i] \in Nat /\ n \in Nat
          /\ tokens[b] \in Nat /\ Left(i) \in Nat /\ beat \in Nat
          /\ GainedBy(i) \in Nat /\ Gained(b) \in Nat /\ Gained(b) <= beat
      BY <1>1, <1>2 DEF Left, Gained, GainedBy
    <2>6. CASE entry[i] = b
      <3>1. Left(i)' = Left(i) - n
        BY <1>1, <1>3, <1>6, <2>6 DEF Left
      <3>2. ASSUME NEW q \in Reqs, Stale(q)', ip[q] = i
            PROVE  tokens'[held[q]] = tokens[held[q]]
        <4>1. held[q] # b
          BY <2>0, <3>2, <2>6 DEF Stale
        <4> QED
          BY <1>3, <2>0, <3>2, <4>1
      <3>3. admitted'[i] + Left(i)' = admitted[i] + Left(i)
        BY <2>5, <3>1
      <3>4. Affords(i)
        BY DEF Spendable
      <3>5. Affords(i)'
        BY <3>2, <3>3, <3>4, <2>0, <1>1, <1>15 DEF Affords, Gained
      <3> QED
        BY <2>4, <3>5 DEF Spendable
    <2>7. CASE entry[i] # b
      <3>1. Stale(r)
        BY <1>1, <2>7 DEF Stale
      <3>2. admitted[i] + Left(i) + tokens[b] <= 2 * Burst + GainedBy(i) + Gained(b)
        BY <3>1, <1>1 DEF Spendable, Affords
      <3>3. Left(i)' = Left(i)
        BY <1>1, <1>3, <1>6, <2>7 DEF Left
      <3>4. admitted'[i] + Left(i)' <= 2 * Burst + GainedBy(i)' + beat'
        BY <1>1, <1>2, <1>15, <2>5, <3>2, <3>3
      <3>5. ASSUME NEW q \in Reqs, Stale(q)', ip[q] = i
            PROVE  admitted'[i] + Left(i)' + tokens'[held[q]] <= 2 * Burst + GainedBy(i)' + Gained(held[q])'
        <4>1. held[q] = b
          BY <1>1, <3>1, <3>5, <2>0 DEF OneStale
        <4>2. tokens'[b] = tokens[b] - n
          BY <1>1, <1>3, <2>0, <3>5, <4>1
        <4> QED
          BY <1>1, <1>2, <1>15, <2>0, <2>5, <3>2, <3>3, <3>5, <4>1, <4>2
      <3>6. Affords(i)'
        BY <3>4, <3>5, <2>0 DEF Affords, Gained
      <3> QED
        BY <2>4, <3>6 DEF Spendable
    <2> QED
      BY <2>6, <2>7
  <1> QED
    BY <1>7, <1>8, <1>9, <1>10, <1>12, <1>13, <1>14

\* What Visit forgets is full and was used by nobody in this tick, and everyone
\* who is about to use it holds the same bucket.
LEMMA IdleFacts ==
    ASSUME Inv, NEW i \in Ips, Idle(i)
    PROVE  /\ entry[i] \in Limiters /\ tokens[entry[i]] = Burst /\ admitted[i] = 0
           /\ \A r \in Reqs : Busy(r) /\ ip[r] = i => held[r] = entry[i]
  <1> USE DEF Inv, TypeOK
  <1>1. entry[i] \in Limiters /\ age[entry[i]] = IdleTicks + 1
    BY DEF Idle
  <1>2. age[entry[i]] >= 2 /\ age[entry[i]] - 2 = IdleTicks - 1
    BY <1>1, IdleIsLong
  <1>3. tokens[entry[i]] = Burst
    <2>1. \/ tokens[entry[i]] = Burst
          \/ tokens[entry[i]] >= Refill * (IdleTicks - 1) + Gained(entry[i])
      <3>1. Refilled /\ entry[i] \in Limiters /\ ~(age[entry[i]] <= 1)
        BY <1>1, <1>2
      <3> HIDE DEF Inv, TypeOK
      <3>2. \/ tokens[entry[i]] = Burst
            \/ tokens[entry[i]] >= Refill * (age[entry[i]] - 2) + Gained(entry[i])
        BY <3>1 DEF Refilled
      <3> QED
        BY <1>2, <3>2
    <2>2. /\ tokens[entry[i]] \in 0..Burst /\ Refill * (IdleTicks - 1) \in Nat
          /\ Gained(entry[i]) \in Nat
      BY <1>1 DEF Gained
    <2> QED
      BY <2>1, <2>2
  <1>4. admitted[i] = 0
    BY <1>1, <1>2 DEF Untouched
  <1>5. ASSUME NEW r \in Reqs, Busy(r), ip[r] = i, held[r] # entry[i] PROVE FALSE
    <2>1. age[entry[i]] <= Lateness(r)
      BY <1>1, <1>5 DEF Young, Stale
    <2> QED
      BY <1>1, <1>2, <2>1 DEF Lateness
  <1> QED
    BY <1>1, <1>3, <1>4, <1>5

LEMMA VisitKeepsInv ==
    ASSUME Inv, NEW i \in Ips, Visit(i)
    PROVE  Inv'
  <1> USE DEF Inv, TypeOK, Requests, Busy
  <1>1. /\ pc' = pc /\ held' = held /\ ip' = ip /\ late' = late /\ admitted' = admitted
        /\ sweep' = sweep \ {i} /\ beat' = beat /\ due' = due \ Unused'
        /\ entry' = IF Idle(i) THEN [entry EXCEPT ![i] = None] ELSE entry
        /\ tokens' = Recycled(tokens, Burst) /\ age' = Recycled(age, 0)
    BY DEF Visit, DeleteIfIdle, InUse
  <1>2. \A l \in Limiters : /\ tokens'[l] = IF l \in Unused' THEN Burst ELSE tokens[l]
                            /\ age'[l] = IF l \in Unused' THEN 0 ELSE age[l]
    BY <1>1 DEF Recycled
  <1>3. \A j \in Ips : entry'[j] = IF j = i /\ Idle(i) THEN None ELSE entry[j]
    BY <1>1
  <1>4. /\ \A j \in Ips : entry'[j] \notin Unused'
        /\ \A q \in Reqs : Busy(q) => held[q] \notin Unused' /\ held[q] \in Limiters
    BY <1>1 DEF Unused
  <1>5. /\ \A q \in Reqs : Busy(q) => tokens'[held[q]] = tokens[held[q]] /\ age'[held[q]] = age[held[q]]
        /\ \A j \in Ips : entry'[j] # None =>
               /\ entry'[j] = entry[j] /\ entry[j] \in Limiters
               /\ tokens'[entry[j]] = tokens[entry[j]] /\ age'[entry[j]] = age[entry[j]]
    BY <1>2, <1>3, <1>4
  <1>15. /\ \A l \in Limiters : l \notin Unused' => Gained(l)' = Gained(l)
         /\ \A j \in Ips : GainedBy(j)' = IF j = i /\ Idle(i) THEN beat ELSE GainedBy(j)
    BY <1>1, <1>3, <1>4 DEF Gained, GainedBy
  <1>6. \A q \in Reqs : Stale(q)' => Busy(q) /\ (Stale(q) \/ (ip[q] = i /\ Idle(i)))
    BY <1>1, <1>3 DEF Stale
  <1>7. TypeOK' /\ Requests'
    <2>1. tokens' \in [Limiters -> 0..Burst] /\ age' \in [Limiters -> 0..(IdleTicks + 1)]
      BY <1>1 DEF Recycled
    <2> QED
      BY <1>1, <2>1
  <1>8. Owned'
    BY <1>1, <1>3, NoneAssumption DEF Owned
  <1>9. AsNew'
    <2>1. Unused' \subseteq Limiters
      BY DEF Unused
    <2> QED
      BY <1>1, <1>2, <2>1 DEF AsNew
  <1>10. Young'
    <2>1. ASSUME NEW q \in Reqs, pc'[q] = "allow" PROVE age'[held'[q]] <= Lateness(q)'
      BY <2>1, <1>1, <1>5 DEF Young, Lateness
    <2>2. ASSUME NEW q \in Reqs, Stale(q)', entry'[ip'[q]] # None
          PROVE  age'[entry'[ip'[q]]] <= Lateness(q)'
      <3>1. Busy(q) /\ ip'[q] = ip[q] /\ ip[q] \in Ips /\ Stale(q)
        BY <2>2, <1>1, <1>3, <1>6
      <3>2. entry[ip[q]] # None /\ age'[entry'[ip[q]]] = age[entry[ip[q]]]
        BY <2>2, <3>1, <1>5
      <3>3. age[entry[ip[q]]] <= Lateness(q)
        BY <3>1, <3>2 DEF Young
      <3> QED
        BY <3>1, <3>2, <3>3, <1>1 DEF Lateness
    <2> QED
      BY <2>1, <2>2 DEF Young
  <1>11. Refilled'
    <2>1. ASSUME NEW l \in Limiters, age'[l] >= 2
          PROVE  /\ age'[l] = age[l] /\ tokens'[l] = tokens[l] /\ Gained(l)' = Gained(l)
      BY <2>1, <1>2, <1>15
    <2> QED
      BY <1>2, <2>1 DEF Refilled
  <1>12. OneStale'
    BY <1>1, <1>6, IdleFacts DEF OneStale
  <1>13. Untouched'
    BY <1>1, <1>5 DEF Untouched
  <1>14. Spendable'
    <2>0. ASSUME NEW q \in Reqs, Stale(q)'
          PROVE  /\ Busy(q) /\ ip'[q] = ip[q] /\ held'[q] = held[q] /\ held[q] \in Limiters
                 /\ Gained(held[q])' = Gained(held[q]) /\ tokens'[held[q]] = tokens[held[q]]
                 /\ tokens[held[q]] \in 0..Burst
      BY <2>0, <1>1, <1>4, <1>5, <1>6, <1>15
    <2>1. ASSUME NEW j \in Ips, ~(j = i /\ Idle(i)) PROVE Affords(j)'
      <3>1. Left(j)' = Left(j) /\ GainedBy(j)' = GainedBy(j)
        BY <2>1, <1>3, <1>5, <1>15 DEF Left
      <3>2. \A q \in Reqs : Stale(q)' /\ ip'[q] = j => Stale(q) /\ ip[q] = j
        BY <2>1, <1>1, <1>6
      <3> QED
        BY <3>1, <3>2, <2>0, <1>1 DEF Spendable, Affords, Gained
    <2>2. ASSUME Idle(i) PROVE Affords(i)'
      <3>1. Left(i)' = Burst /\ admitted'[i] = 0 /\ GainedBy(i)' = beat /\ beat' = beat /\ beat >= 1
        BY <2>2, <1>1, <1>3, <1>15, IdleFacts DEF Left
      <3>2. \A q \in Reqs : Gained(held[q])' >= 0
        BY <1>1 DEF Gained
      <3> QED
        BY <3>1, <3>2, <2>0 DEF Affords, Gained
    <2> QED
      BY <2>1, <2>2 DEF Spendable
  <1> QED
    BY <1>7, <1>8, <1>9, <1>10, <1>11, <1>12, <1>13, <1>14

LEMMA GainKeepsInv ==
    ASSUME Inv, NEW l \in Limiters, Gain(l)
    PROVE  Inv'
  <1> USE DEF Inv, TypeOK, Requests, Busy
  <1>1. /\ l \in due /\ due' = due \ {l} /\ beat' = beat
        /\ tokens' = [tokens EXCEPT ![l] = IF @ < Burst THEN @ + 1 ELSE @]
        /\ entry' = entry /\ age' = age /\ pc' = pc /\ held' = held /\ ip' = ip /\ late' = late
        /\ sweep' = sweep /\ admitted' = admitted
    BY DEF Gain
  <1>2. /\ Unused' = Unused /\ l \notin Unused
        /\ \A q \in Reqs : Stale(q)' <=> Stale(q)
    BY <1>1 DEF Unused, Stale, AsNew
  <1>3. \A m \in Limiters :
            /\ tokens'[m] \in 0..Burst
            /\ Gained(m)' = IF m = l THEN Gained(m) + 1 ELSE Gained(m)
            /\ tokens'[m] = IF m = l /\ tokens[m] < Burst THEN tokens[m] + 1 ELSE tokens[m]
    BY <1>1 DEF Gained
  <1>4. TypeOK' /\ Requests'
    BY <1>1, <1>3
  <1>5. Owned' /\ AsNew' /\ Young' /\ OneStale' /\ Untouched'
    <2>1. Unused \subseteq Limiters
      BY DEF Unused
    <2> QED
      BY <1>1, <1>2, <2>1 DEF Owned, AsNew, Young, Lateness, OneStale, Untouched, Stale
  <1>6. Refilled'
    <2> SUFFICES ASSUME NEW m \in Limiters, age[m] >= 2, tokens'[m] # Burst
                 PROVE  tokens'[m] >= Refill * (age[m] - 2) + Gained(m)'
      BY <1>1 DEF Refilled
    <2>1. /\ age[m] - 2 \in Nat /\ Refill * (age[m] - 2) \in Nat
          /\ Gained(m) \in Nat /\ tokens[m] \in Nat
      BY <1>1 DEF Gained
    <2>2. tokens[m] # Burst
      BY <1>3
    <2>3. tokens[m] >= Refill * (age[m] - 2) + Gained(m)
      BY <2>2 DEF Refilled
    <2>4. tokens[m] < Burst
      BY <2>2
    <2> QED
      BY <1>3, <2>1, <2>3, <2>4
  <1>7. Spendable'
    <2> SUFFICES ASSUME NEW i \in Ips PROVE Affords(i)'
      BY DEF Spendable
    <2>0. /\ Affords(i) /\ admitted[i] \in Nat /\ Left(i) \in Nat /\ Left(i)' \in Nat
          /\ GainedBy(i) \in Nat /\ beat \in Nat
      BY <1>1, <1>3 DEF Spendable, Left, GainedBy, Gained
    <2>1. ASSUME NEW q \in Reqs, Stale(q)'
          PROVE  /\ Stale(q) /\ held[q] \in Limiters /\ held[q] # entry[ip[q]]
                 /\ tokens[held[q]] \in Nat /\ Gained(held[q]) \in Nat
      BY <2>1, <1>1, <1>2 DEF Stale, Gained
    <2>2. CASE entry[i] = l
      <3>1. Left(i)' <= Left(i) + 1 /\ GainedBy(i)' = GainedBy(i) + 1
        BY <1>1, <1>3, <2>2 DEF Left, GainedBy
      <3>2. ASSUME NEW q \in Reqs, Stale(q)', ip[q] = i
            PROVE  tokens'[held[q]] = tokens[held[q]] /\ Gained(held[q])' = Gained(held[q])
        BY <3>2, <2>1, <2>2, <1>1, <1>3 DEF Gained
      <3> QED
        BY <1>1, <2>0, <2>1, <3>1, <3>2 DEF Affords, Gained
    <2>3. CASE entry[i] # l
      <3>1. Left(i)' = Left(i) /\ GainedBy(i)' = GainedBy(i)
        BY <1>1, <1>3, <2>3 DEF Left, GainedBy
      <3>2. ASSUME NEW q \in Reqs, Stale(q)'
            PROVE  tokens'[held[q]] - tokens[held[q]] <= Gained(held[q])' - Gained(held[q])
        BY <3>2, <2>1, <1>1, <1>3 DEF Gained
      <3>3. ASSUME NEW q \in Reqs, Stale(q)', ip[q] = i
            PROVE  admitted[i] + Left(i) + tokens'[held[q]] <= 2 * Burst + GainedBy(i) + Gained(held[q])'
        <4>1. admitted[i] + Left(i) + tokens[held[q]] <= 2 * Burst + GainedBy(i) + Gained(held[q])
          BY <3>3, <2>0, <2>1 DEF Affords
        <4>2. tokens'[held[q]] \in Nat /\ Gained(held[q])' \in Nat
          BY <3>3, <2>1, <1>1, <1>3 DEF Gained
        <4> QED
          BY <4>1, <4>2, <3>2, <3>3, <2>0, <2>1
      <3>4. admitted[i] + Left(i) <= 2 * Burst + GainedBy(i) + beat
        BY <2>0 DEF Affords
      <3> QED
        BY <1>1, <3>1, <3>3, <3>4 DEF Affords, Gained
    <2> QED
      BY <2>2, <2>3
  <1> QED
    BY <1>4, <1>5, <1>6, <1>7

\* The beat of the next tokens, in this tick or the next.
LEMMA BeatKeepsInv ==
    ASSUME Inv, Beat
    PROVE  Inv'
  <1> USE DEF Inv, TypeOK, Requests, Busy
  <1>1. /\ due = {} /\ beat' = beat + 1 /\ beat' \in 1..Refill /\ due' = Limiters \ Unused
        /\ entry' = entry /\ tokens' = tokens /\ age' = age /\ pc' = pc /\ held' = held
        /\ ip' = ip /\ late' = late /\ sweep' = sweep /\ admitted' = admitted
    BY DEF Beat, InUse
  <1>2. /\ Unused' = Unused
        /\ \A q \in Reqs : Stale(q)' <=> Stale(q)
        /\ \A i \in Ips : Left(i)' = Left(i)
    BY <1>1 DEF Unused, Stale, Left
  <1>3. /\ \A l \in Limiters \ Unused : Gained(l)' = Gained(l)
        /\ \A l \in Limiters : Gained(l) = beat /\ Gained(l)' \in {beat, beat + 1}
    BY <1>1 DEF Gained
  <1>4. TypeOK' /\ Requests'
    BY <1>1
  <1>5. Owned' /\ AsNew' /\ Young' /\ OneStale' /\ Untouched'
    BY <1>1, <1>2 DEF Owned, AsNew, Unused, Young, Lateness, OneStale, Untouched, Stale
  <1>6. Refilled'
    <2>1. ASSUME NEW l \in Limiters, age[l] >= 2 PROVE Gained(l)' = Gained(l)
      BY <2>1, <1>3 DEF AsNew
    <2> QED
      BY <1>1, <2>1 DEF Refilled
  <1>7. Spendable'
    <2> SUFFICES ASSUME NEW i \in Ips PROVE Affords(i)'
      BY DEF Spendable
    <2>1. GainedBy(i)' >= GainedBy(i) /\ GainedBy(i) \in Nat /\ GainedBy(i)' \in Nat
      BY <1>1, <1>3 DEF GainedBy
    <2>2. ASSUME NEW q \in Reqs, Stale(q)'
          PROVE  /\ Stale(q) /\ tokens[held[q]] \in Nat
                 /\ Gained(held[q])' >= Gained(held[q]) /\ Gained(held[q]) \in Nat
                 /\ Gained(held[q])' \in Nat
      BY <2>2, <1>1, <1>2, <1>3 DEF Stale
    <2>3. Affords(i) /\ admitted[i] \in Nat /\ Left(i) \in Nat
      BY DEF Spendable, Left
    <2>4. admitted[i] + Left(i) <= 2 * Burst + GainedBy(i)' + beat'
      BY <1>1, <2>1, <2>3 DEF Affords
    <2>5. ASSUME NEW q \in Reqs, Stale(q)', ip[q] = i
          PROVE  admitted[i] + Left(i) + tokens[held[q]] <= 2 * Burst + GainedBy(i)' + Gained(held[q])'
      <3>1. admitted[i] + Left(i) + tokens[held[q]] <= 2 * Burst + GainedBy(i) + Gained(held[q])
        BY <2>2, <2>3, <2>5 DEF Affords
      <3> QED
        BY <3>1, <2>1, <2>2, <2>3, <2>5
    <2> QED
      BY <1>1, <1>2, <2>4, <2>5 DEF Affords, Gained
  <1> QED
    BY <1>4, <1>5, <1>6, <1>7

LEMMA TickKeepsInv ==
    ASSUME Inv, Tick
    PROVE  Inv'
  <1> USE DEF Inv, TypeOK, Requests, Busy
  <1>1. /\ entry' = entry /\ pc' = pc /\ held' = held /\ ip' = ip /\ sweep' = Ips
        /\ late' = [q \in Reqs |-> Busy(q)]
        /\ \A q \in Reqs : ~late[q] /\ late'[q] = Busy(q)
        /\ admitted' = [j \in Ips |-> 0] /\ tokens' = tokens
        /\ due = {} /\ beat = Refill /\ beat' = 1 /\ due' = Limiters \ Unused
    BY DEF Tick, InUse
  <1>2. \A l \in Limiters :
            /\ age'[l] \in {age[l], age[l] + 1} /\ age'[l] <= IdleTicks + 1
            /\ l \in Unused => age'[l] = age[l]
            /\ Gained(l) = Refill /\ Gained(l)' \in Nat
            /\ l \notin Unused => Gained(l)' = 0
    BY <1>1 DEF Tick, Gained
  <1>4. /\ Unused' = Unused
        /\ \A q \in Reqs : Stale(q)' <=> Stale(q)
    BY <1>1 DEF Unused, Stale
  <1>5. TypeOK' /\ Requests'
    <2>1. age' \in [Limiters -> 0..(IdleTicks + 1)]
      BY <1>2 DEF Tick
    <2> QED
      BY <1>1, <2>1
  <1>6. Owned' /\ OneStale'
    BY <1>1, <1>4 DEF Owned, OneStale
  <1>7. AsNew'
    <2>1. Unused \subseteq Limiters
      BY DEF Unused
    <2>2. ASSUME NEW l \in Unused PROVE tokens'[l] = Burst /\ age'[l] = 0 /\ l \notin due'
      <3>1. tokens[l] = Burst /\ age[l] = 0 /\ l \in Limiters
        BY <2>1 DEF AsNew
      <3> QED
        BY <3>1, <1>1, <1>2
    <2> QED
      BY <1>4, <2>2 DEF AsNew
  <1>8. Young'
    <2>1. ASSUME NEW q \in Reqs, pc'[q] = "allow" PROVE age'[held'[q]] <= Lateness(q)'
      <3>1. age[held[q]] <= 0 /\ held[q] \in Limiters /\ late'[q]
        BY <2>1, <1>1 DEF Young, Lateness
      <3>2. age'[held[q]] <= 1
        BY <3>1, <1>2
      <3> QED
        BY <3>1, <3>2, <1>1 DEF Lateness
    <2>2. ASSUME NEW q \in Reqs, Stale(q)', entry'[ip'[q]] # None
          PROVE  age'[entry'[ip'[q]]] <= Lateness(q)'
      <3>1. Busy(q) /\ ip[q] \in Ips /\ entry[ip[q]] \in Limiters
        BY <2>2, <1>1, <1>4 DEF Stale
      <3>2. age[entry[ip[q]]] <= 0 /\ late'[q]
        BY <2>2, <3>1, <1>1, <1>4 DEF Young, Lateness
      <3>3. age'[entry[ip[q]]] <= 1
        BY <3>1, <3>2, <1>2
      <3> QED
        BY <3>2, <3>3, <1>1 DEF Lateness
    <2> QED
      BY <2>1, <2>2 DEF Young
  <1>9. Refilled'
    <2> SUFFICES ASSUME NEW l \in Limiters, ~(age'[l] <= 1), tokens[l] # Burst
                 PROVE  tokens[l] >= Refill * (age'[l] - 2) + Gained(l)'
      BY <1>1 DEF Refilled
    <2>1. l \notin Unused /\ Gained(l)' = 0
      BY <1>2 DEF AsNew
    <2>2. age[l] \in Nat /\ tokens[l] \in Nat /\ (age'[l] = age[l] \/ age'[l] = age[l] + 1)
      BY <1>2
    <2>3. CASE age[l] <= 1
      <3>1. age'[l] - 2 = 0
        BY <2>2, <2>3
      <3> QED
        BY <2>1, <2>2, <3>1
    <2>4. CASE age[l] >= 2
      <3> DEFINE a == age[l] - 2
      <3>1. a \in Nat /\ (age'[l] - 2 = a \/ age'[l] - 2 = a + 1)
        BY <2>2, <2>4
      <3>2. Refill * (a + 1) = Refill * a + Refill /\ Refill * a \in Nat
        BY <3>1, OneMoreTick
      <3>3. tokens[l] >= Refill * a + Refill
        BY <2>4, <1>2 DEF Refilled
      <3> HIDE DEF a
      <3>4. Refill * (age'[l] - 2) = Refill * a \/ Refill * (age'[l] - 2) = Refill * a + Refill
        BY <3>1, <3>2
      <3> QED
        BY <2>1, <2>2, <3>2, <3>3, <3>4
    <2> QED
      BY <2>2, <2>3, <2>4
  <1>10. Untouched'
    BY <1>1 DEF Untouched
  <1>11. Spendable'
    <2>1. \A j \in Ips : admitted'[j] = 0 /\ Left(j)' \in 0..Burst /\ GainedBy(j)' \in Nat
      BY <1>1, <1>2 DEF Left, GainedBy
    <2>2. \A q \in Reqs : Stale(q)' =>
              /\ tokens'[held'[q]] \in 0..Burst /\ Gained(held[q])' \in Nat /\ held'[q] = held[q]
      BY <1>1, <1>2, <1>4 DEF Stale
    <2> QED
      BY <1>1, <2>1, <2>2 DEF Spendable, Affords, Gained
  <1> QED
    BY <1>5, <1>6, <1>7, <1>8, <1>9, <1>10, <1>11

LEMMA NextKeepsInv ==
    ASSUME Inv, [Next]_vars
    PROVE  Inv'
  <1>1. CASE UNCHANGED vars
    BY <1>1 DEF vars, Inv, Affords, Gained, GainedBy, TypeOK, Requests, Owned, AsNew, Unused, Young, Refilled, OneStale,
                Untouched, Spendable, Stale, Busy, Left, Lateness
  <1> QED
    BY <1>1, LoadOrStoreKeepsInv, TouchKeepsInv, LeaveKeepsInv, VisitKeepsInv, GainKeepsInv,
       BeatKeepsInv, TickKeepsInv
    DEF Next, Request, Passes

LEMMA Invariance == Spec => []Inv
  <1> QED
    BY InitInv, NextKeepsInv, PTL DEF Spec

-----------------------------------------------------------------------------
\* Every variable stays within its type: no bucket goes below 0, although
\* requests check and take tokens while the sweep deletes entries.
THEOREM TypeCorrect == Spec => []TypeOK
  <1>1. Inv => TypeOK
    BY DEF Inv
  <1> QED
    BY <1>1, Invariance, PTL

\* However requests race with the sweep, an address gets at most what two buckets
\* hold and gain, although they refill all the time.
THEOREM Bounded == Spec => []AdmittedBounded
  <1>1. Inv => AdmittedBounded
    <2> SUFFICES ASSUME Inv, NEW i \in Ips PROVE admitted[i] <= 2 * (Burst + beat)
      BY DEF AdmittedBounded
    <2>1. /\ admitted[i] + Left(i) <= 2 * Burst + GainedBy(i) + beat
          /\ Left(i) \in Nat /\ admitted[i] \in Nat
      BY DEF Inv, TypeOK, Spendable, Affords, Left
    <2>2. GainedBy(i) <= beat /\ GainedBy(i) \in Nat /\ beat \in Nat
      BY DEF Inv, TypeOK, GainedBy, Gained
    <2> QED
      BY <2>1, <2>2
  <1> QED
    BY <1>1, Invariance, PTL

\* The sweep forgets only buckets that are full again.
THEOREM OnlyFullIsSwept == Spec => SweptIsFull
  <1>1. ASSUME Inv, [Next]_vars
        PROVE  [\A i \in Ips : entry[i] # None /\ entry'[i] = None => tokens[entry[i]] = Burst]_vars
    <2> USE DEF Inv, TypeOK
    <2>1. ASSUME NEW r \in Reqs, NEW i \in Ips, LoadOrStore(r, i), NEW j \in Ips, entry[j] # None
          PROVE  entry'[j] # None
      BY <1>1, <2>1 DEF LoadOrStore, NewEntry, Unused
    <2>2. ASSUME NEW i \in Ips, Visit(i), NEW j \in Ips, entry[j] # None, entry'[j] = None
          PROVE  tokens[entry[j]] = Burst
      <3>1. j = i /\ Idle(i)
        BY <1>1, <2>2 DEF Visit, DeleteIfIdle
      <3> QED
        BY <1>1, <2>2, <3>1, IdleFacts
    <2>3. ASSUME Passes \/ \E r \in Reqs : Request(r) PROVE entry' = entry
      BY <2>3 DEF Passes, Gain, Beat, Tick, Request, Touch, Allow, Deny, Admit, Leave
    <2> QED
      BY <1>1, <2>1, <2>2, <2>3 DEF Next, vars
  <1> QED
    BY <1>1, Invariance, PTL DEF Spec, SweptIsFull
=============================================================================
