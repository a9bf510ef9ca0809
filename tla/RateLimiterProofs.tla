-------------------------- MODULE RateLimiterProofs --------------------------
(***************************************************************************)
(* The rate limit of RateLimiter, for every size of the ring, every limit  *)
(* and every clock.                                                        *)
(***************************************************************************)
EXTENDS RateLimiter, TLAPS

(* The ring is the last part of what was counted.                          *)
RingIsRecent ==
  /\ Len(orderTimestamps) <= Len(counted)
  /\ \A i \in 1 .. Len(orderTimestamps) :
       orderTimestamps[i] = counted[Len(counted) - Len(orderTimestamps) + i].time

(* Time does not go back.                                                  *)
InTime ==
  /\ request.time <= now
  /\ \A i \in 1 .. Len(counted) : counted[i].time <= now
  /\ \A i, j \in 1 .. Len(counted) : i <= j => counted[i].time <= counted[j].time

(* What is no longer in the ring is old, or as many came after it as the   *)
(* ring holds.                                                             *)
GoneForAReason ==
  \A i \in 1 .. Len(counted) :
    i <= Len(counted) - Len(orderTimestamps) =>
      counted[i].time + Second < now \/ i + RingSize <= Len(counted)

(* A request that passed the check did so by a limit that is not reached,  *)
(* and the last refusal looked at what was counted before.                 *)
HasPassed ==
  /\ request.at = "handled" => Len(orderTimestamps) < request.limit
  /\ refused.before <= Len(counted)

RateInv ==
  /\ TypeOK /\ RingIsRecent /\ InTime /\ GoneForAReason /\ HasPassed
  /\ RateLimited /\ RefusedOnlyAtLimit

LEMMA Element ==
  ASSUME NEW R, NEW s \in Seq(R), NEW i \in 1 .. Len(s) PROVE s[i] \in R
OBVIOUS

(* The types, without the sequences.                                       *)
LEMMA Numbers ==
  ASSUME TypeOK
  PROVE  /\ DOMAIN counted = 1 .. Len(counted)
         /\ Len(counted) \in Nat /\ Len(orderTimestamps) \in Nat
         /\ now \in Nat /\ request.time \in Nat /\ request.limit \in Nat
         /\ refused.time \in Nat /\ refused.limit \in Nat /\ refused.before \in Nat
         /\ \A i \in 1 .. Len(counted) : counted[i].time \in Nat /\ counted[i].limit \in Nat
         /\ \A i \in 1 .. Len(orderTimestamps) : orderTimestamps[i] \in Nat
<1>0. counted \in Seq([time : Nat, limit : Nat]) /\ orderTimestamps \in Seq(Nat)
  BY DEF TypeOK
<1>1. ASSUME NEW i \in 1 .. Len(counted)
      PROVE  counted[i].time \in Nat /\ counted[i].limit \in Nat
  <2>1. counted[i] \in [time : Nat, limit : Nat]
    BY <1>0, Element
  <2> QED BY <2>1
<1>2. ASSUME NEW i \in 1 .. Len(orderTimestamps) PROVE orderTimestamps[i] \in Nat
  BY <1>0
<1>3. DOMAIN counted = 1 .. Len(counted) /\ Len(counted) \in Nat /\ Len(orderTimestamps) \in Nat
  BY DEF TypeOK
<1>4. request \in [at : {"none", "check", "handled"}, kind : Kinds, time : Nat, limit : Nat]
      /\ refused \in [time : Nat, limit : Nat, before : Nat] /\ now \in Nat
  BY DEF TypeOK
<1> QED BY <1>1, <1>2, <1>3, <1>4

(* RateLimited of the indices, not of the domain.                          *)
LEMMA LimitedIndices ==
  ASSUME TypeOK
  PROVE  RateLimited <=>
           \A k \in 1 .. Len(counted) :
             counted[k].limit <= RingSize /\ k > counted[k].limit =>
               counted[k - counted[k].limit].time + Second < counted[k].time
BY Numbers DEF RateLimited

-----------------------------------------------------------------------------
LEMMA InitRateInv == Init => RateInv
<1> SUFFICES ASSUME Init PROVE RateInv
  OBVIOUS
<1>1. TypeOK
  BY RateLimiterAssumption DEF Init, TypeOK, NoRequest, Kinds
<1>2. Len(counted) = 0 /\ Len(orderTimestamps) = 0 /\ DOMAIN counted = {}
  BY DEF Init
<1> QED BY <1>1, <1>2 DEF Init, RateInv, RingIsRecent, InTime, GoneForAReason, HasPassed,
                          RateLimited, RefusedOnlyAtLimit, NoRequest

(* A step that leaves the ring, the requests that were counted and the     *)
(* refusal alone and does not turn the clock back.                         *)
LEMMA QuietStep ==
  ASSUME RateInv, TypeOK', now <= now',
         UNCHANGED <<orderTimestamps, counted, refused>>,
         request'.time <= now',
         request'.at = "handled" => Len(orderTimestamps) < request'.limit
  PROVE  RateInv'
<1> USE DEF RateInv
<1>1. RingIsRecent'
  BY DEF RingIsRecent
<1>2. now \in Nat /\ now' \in Nat /\ \A i \in 1 .. Len(counted) : counted[i].time \in Nat
  BY Numbers DEF TypeOK
<1>3. InTime'
  BY <1>2 DEF InTime
<1>4. GoneForAReason'
  <2> SUFFICES ASSUME NEW i \in 1 .. Len(counted), i <= Len(counted) - Len(orderTimestamps)
               PROVE  counted[i].time + Second < now' \/ i + RingSize <= Len(counted)
    BY DEF GoneForAReason
  <2>1. counted[i].time + Second < now \/ i + RingSize <= Len(counted)
    BY DEF GoneForAReason
  <2> QED BY <1>2, <2>1, RateLimiterAssumption
<1>5. HasPassed'
  BY DEF HasPassed
<1>6. RateLimited' /\ RefusedOnlyAtLimit'
  BY DEF RateLimited, RefusedOnlyAtLimit
<1> QED BY <1>1, <1>3, <1>4, <1>5, <1>6

(* The old timestamp at the front is taken off.                            *)
LEMMA PopFrontStep ==
  ASSUME RateInv, PopFront PROVE RateInv'
<1> DEFINE r == orderTimestamps
           n == Len(counted)
           gone == Len(counted) - Len(orderTimestamps)
<1>1. /\ r \in Seq(Nat) /\ Len(r) > 0 /\ Len(r') = Len(r) - 1 /\ r' \in Seq(Nat)
      /\ \A i \in 1 .. Len(r) - 1 : r'[i] = r[i + 1]
      /\ r[1] = Head(r)
  BY DEF RateInv, TypeOK, PopFront
<1>2. /\ Len(r) \in Nat /\ n \in Nat /\ Len(r) <= n /\ Len(r) > 0 /\ Len(r') = Len(r) - 1
      /\ counted' = counted /\ now' = now /\ refused' = refused /\ request' = request
      /\ request.at = "check"
  BY <1>1, Numbers DEF RateInv, RingIsRecent, PopFront
<1>3. TypeOK'
  <2>1. Len(r') <= RingSize
    BY <1>2, RateLimiterAssumption DEF RateInv, TypeOK
  <2> QED BY <1>1, <2>1 DEF RateInv, TypeOK, PopFront
<1>4. RingIsRecent'
  <2>1. ASSUME NEW i \in 1 .. Len(r) - 1 PROVE r'[i] = counted[n - (Len(r) - 1) + i].time
    <3>1. i + 1 \in 1 .. Len(r) /\ n - Len(r) + (i + 1) = n - (Len(r) - 1) + i
      BY <1>2
    <3>2. r[i + 1] = counted[n - Len(r) + (i + 1)].time
      BY <3>1 DEF RateInv, RingIsRecent
    <3> QED BY <1>1, <3>1, <3>2
  <2>2. Len(r) - 1 <= n
    BY <1>2
  <2> QED BY <1>2, <2>1, <2>2 DEF RingIsRecent
<1>5. InTime'
  BY <1>2 DEF RateInv, InTime
<1>6. counted[gone + 1].time + Second < now
  <2>1. 1 \in 1 .. Len(r) /\ gone + 1 \in 1 .. n
    BY <1>2
  <2>2. r[1] = counted[gone + 1].time
    BY <2>1 DEF RateInv, RingIsRecent
  <2>3. r[1] + Second < request.time
    BY <1>1 DEF PopFront, IsOld
  <2>4. request.time <= now
    BY DEF RateInv, InTime
  <2>5. r[1] \in Nat /\ request.time \in Nat /\ now \in Nat
    BY <2>1, Numbers DEF RateInv
  <2> QED BY <2>2, <2>3, <2>4, <2>5, RateLimiterAssumption
<1>7. GoneForAReason'
  <2> SUFFICES ASSUME NEW i \in 1 .. n, i <= n - (Len(r) - 1)
               PROVE  counted[i].time + Second < now \/ i + RingSize <= n
    BY <1>2 DEF GoneForAReason
  <2>1. i <= gone \/ i = gone + 1
    BY <1>2
  <2> QED BY <2>1, <1>6 DEF RateInv, GoneForAReason
<1>8. HasPassed' /\ RateLimited' /\ RefusedOnlyAtLimit'
  BY <1>2 DEF RateInv, HasPassed, RateLimited, RefusedOnlyAtLimit
<1> QED BY <1>3, <1>4, <1>5, <1>7, <1>8 DEF RateInv

(* At a refusal all that is in the ring is of the last second, and the     *)
(* limit is reached by it.                                                 *)
LEMMA RefuseStep ==
  ASSUME RateInv, Refuse PROVE RateInv'
<1> DEFINE r == orderTimestamps
           n == Len(counted)
           limit == request.limit
<1>1. /\ Len(r) \in Nat /\ n \in Nat /\ Len(r) <= n /\ limit \in Nat /\ now \in Nat
      /\ request.time \in Nat /\ limit <= Len(r)
  BY Numbers DEF RateInv, RingIsRecent, Refuse
<1>2. TypeOK'
  BY <1>1 DEF RateInv, Refuse, TypeOK, NoRequest, Kinds
<1>3. RingIsRecent' /\ GoneForAReason' /\ RateLimited'
  BY DEF RateInv, Refuse, RingIsRecent, GoneForAReason, RateLimited
<1>4. InTime'
  BY <1>1 DEF RateInv, Refuse, InTime, NoRequest
<1>5. HasPassed'
  BY <1>1 DEF RateInv, Refuse, HasPassed, NoRequest
<1>6. RefusedOnlyAtLimit'
  <2> DEFINE first == n - Len(r) + 1
             this == n - limit + 1
  <2> SUFFICES ASSUME limit > 0
               PROVE  n >= limit /\ counted[this].time + Second >= request.time
    BY DEF RefusedOnlyAtLimit, Refuse
  <2>1. /\ first \in 1 .. n /\ this \in 1 .. n /\ first <= this /\ n >= limit
        /\ 1 \in 1 .. Len(r) /\ Len(r) > 0 /\ first = n - Len(r) + 1
    BY <1>1
  <2>2. r[1] = counted[first].time
    BY <2>1 DEF RateInv, RingIsRecent
  <2>3. ~(r[1] + Second < request.time)
    <3>1. r # << >> /\ Head(r) = r[1]
      BY <2>1 DEF RateInv, TypeOK
    <3> QED BY <3>1 DEF Refuse, NoneIsOld, IsOld
  <2>4. counted[first].time <= counted[this].time
    BY <2>1 DEF RateInv, InTime
  <2>5. counted[first].time \in Nat /\ counted[this].time \in Nat
    BY <2>1, Numbers DEF RateInv
  <2>6. counted[this].time + Second >= request.time
    <3> HIDE DEF first, this
    <3> QED BY <1>1, <2>2, <2>3, <2>4, <2>5, RateLimiterAssumption
  <2> QED BY <2>1, <2>6
<1> QED BY <1>2, <1>3, <1>4, <1>5, <1>6 DEF RateInv

-----------------------------------------------------------------------------
(* What push() leaves in the ring: all of it, or all but its front.        *)
LEMMA PushedAll ==
  ASSUME NEW ring \in Seq(Nat), NEW timestamp \in Nat, Len(ring) < RingSize
  PROVE  /\ Pushed(ring, timestamp) \in Seq(Nat)
         /\ Len(Pushed(ring, timestamp)) = Len(ring) + 1
         /\ \A i \in 1 .. Len(ring) : Pushed(ring, timestamp)[i] = ring[i]
         /\ Pushed(ring, timestamp)[Len(ring) + 1] = timestamp
<1>1. Pushed(ring, timestamp) = Append(ring, timestamp)
  <2>1. Len(ring) \in Nat /\ ~(Len(ring) + 1 > RingSize)
    BY RateLimiterAssumption
  <2> QED BY <2>1 DEF Pushed
<1> QED BY <1>1

LEMMA PushedOver ==
  ASSUME NEW ring \in Seq(Nat), NEW timestamp \in Nat, Len(ring) = RingSize
  PROVE  /\ Pushed(ring, timestamp) \in Seq(Nat)
         /\ Len(Pushed(ring, timestamp)) = Len(ring)
         /\ \A i \in 1 .. Len(ring) - 1 : Pushed(ring, timestamp)[i] = ring[i + 1]
         /\ Pushed(ring, timestamp)[Len(ring)] = timestamp
<1>1. Pushed(ring, timestamp) = Tail(Append(ring, timestamp))
  <2>1. Len(ring) + 1 > RingSize
    BY RateLimiterAssumption
  <2> QED BY <2>1 DEF Pushed
<1>2. /\ Append(ring, timestamp) \in Seq(Nat) /\ Len(Append(ring, timestamp)) = Len(ring) + 1
      /\ \A i \in 1 .. Len(ring) : Append(ring, timestamp)[i] = ring[i]
      /\ Append(ring, timestamp)[Len(ring) + 1] = timestamp
      /\ Len(ring) \in Nat /\ Len(ring) > 0
  BY RateLimiterAssumption
<1>3. ASSUME NEW longer \in Seq(Nat), Len(longer) = Len(ring) + 1
      PROVE  /\ Tail(longer) \in Seq(Nat) /\ Len(Tail(longer)) = Len(ring)
             /\ \A i \in 1 .. Len(ring) : Tail(longer)[i] = longer[i + 1]
  BY <1>2, <1>3
<1>4. /\ Tail(Append(ring, timestamp)) \in Seq(Nat)
      /\ Len(Tail(Append(ring, timestamp))) = Len(ring)
      /\ \A i \in 1 .. Len(ring) :
           Tail(Append(ring, timestamp))[i] = Append(ring, timestamp)[i + 1]
  BY <1>2, <1>3
<1>5. ASSUME NEW i \in 1 .. Len(ring) - 1
      PROVE  Tail(Append(ring, timestamp))[i] = ring[i + 1]
  <2>1. i \in 1 .. Len(ring) /\ i + 1 \in 1 .. Len(ring)
    BY <1>2
  <2> QED BY <2>1, <1>2, <1>4
<1>6. Tail(Append(ring, timestamp))[Len(ring)] = timestamp
  <2>1. Len(ring) \in 1 .. Len(ring)
    BY <1>2
  <2> QED BY <2>1, <1>2, <1>4
<1> QED BY <1>1, <1>4, <1>5, <1>6

(* Both ways at once: what is lost is the front, and only of a full ring.  *)
LEMMA PushedIs ==
  ASSUME NEW ring \in Seq(Nat), NEW timestamp \in Nat, Len(ring) <= RingSize
  PROVE  \E lost \in {0, 1} :
           /\ lost = 1 => Len(ring) = RingSize
           /\ Pushed(ring, timestamp) \in Seq(Nat)
           /\ Len(Pushed(ring, timestamp)) = Len(ring) + 1 - lost
           /\ Len(ring) + 1 - lost <= RingSize
           /\ \A i \in 1 .. Len(ring) - lost : Pushed(ring, timestamp)[i] = ring[i + lost]
           /\ Pushed(ring, timestamp)[Len(ring) + 1 - lost] = timestamp
<1>1. Len(ring) \in Nat
  OBVIOUS
<1>2. CASE Len(ring) < RingSize
  <2>1. /\ Len(ring) + 1 - 0 = Len(ring) + 1 /\ Len(ring) + 1 <= RingSize
        /\ Len(ring) - 0 = Len(ring)
    BY <1>1, <1>2, RateLimiterAssumption
  <2>2. ASSUME NEW i \in 1 .. Len(ring) PROVE Pushed(ring, timestamp)[i] = ring[i + 0]
    <3>1. i + 0 = i
      OBVIOUS
    <3>2. Pushed(ring, timestamp)[i] = ring[i]
      BY <1>2, PushedAll
    <3> QED BY <3>1, <3>2
  <2>3. /\ Pushed(ring, timestamp) \in Seq(Nat)
        /\ Len(Pushed(ring, timestamp)) = Len(ring) + 1
        /\ Pushed(ring, timestamp)[Len(ring) + 1] = timestamp
    BY <1>2, PushedAll
  <2> WITNESS 0 \in {0, 1}
  <2> QED BY <2>1, <2>2, <2>3
<1>3. CASE Len(ring) = RingSize
  <2>1. Len(ring) + 1 - 1 = Len(ring)
    BY <1>1
  <2>2. /\ Pushed(ring, timestamp) \in Seq(Nat)
        /\ Len(Pushed(ring, timestamp)) = Len(ring)
        /\ \A i \in 1 .. Len(ring) - 1 : Pushed(ring, timestamp)[i] = ring[i + 1]
        /\ Pushed(ring, timestamp)[Len(ring)] = timestamp
    BY <1>3, PushedOver
  <2> WITNESS 1 \in {0, 1}
  <2> QED BY <1>3, <2>1, <2>2
<1> QED BY <1>1, <1>2, <1>3, RateLimiterAssumption

(* What was counted that many requests ago is no longer in the ring: it is *)
(* old.                                                                    *)
LEMMA CountStep ==
  ASSUME RateInv, Count PROVE RateInv'
<1> DEFINE r == orderTimestamps
           n == Len(counted)
           limit == request.limit
           entry == [time |-> now, limit |-> limit]
<1>1. r \in Seq(Nat) /\ now \in Nat /\ Len(r) <= RingSize
  BY DEF RateInv, TypeOK
<1>2. PICK lost \in {0, 1} :
           /\ lost = 1 => Len(r) = RingSize
           /\ r' \in Seq(Nat) /\ Len(r') = Len(r) + 1 - lost
           /\ Len(r) + 1 - lost <= RingSize
           /\ \A i \in 1 .. Len(r) - lost : r'[i] = r[i + lost]
           /\ r'[Len(r) + 1 - lost] = now
  BY <1>1, PushedIs DEF Count
<1>3. /\ Len(r) \in Nat /\ Len(r) <= n /\ n \in Nat /\ now \in Nat /\ limit \in Nat
      /\ Len(r) < limit
      /\ refused.time \in Nat /\ refused.limit \in Nat /\ refused.before \in Nat
      /\ refused.before <= n
  BY Numbers DEF RateInv, RingIsRecent, HasPassed, Count
<1>4. /\ Len(counted') = n + 1
      /\ \A i \in 1 .. n : counted'[i] = counted[i]
      /\ counted'[n + 1] = entry
      /\ counted' \in Seq([time : Nat, limit : Nat])
  <2>1. counted \in Seq([time : Nat, limit : Nat]) /\ entry \in [time : Nat, limit : Nat]
    BY <1>3 DEF RateInv, TypeOK
  <2> QED BY <2>1 DEF Count
<1>5. entry.time = now /\ entry.limit = limit
  OBVIOUS
<1>6. \A i \in 1 .. n : counted[i].time \in Nat /\ counted[i].limit \in Nat
  BY Numbers DEF RateInv
<1>7. now' = now /\ refused' = refused /\ request' = NoRequest
  BY DEF Count
<1>8. \A i \in 1 .. n + 1 : i \in 1 .. n \/ i = n + 1
  BY <1>3
<1>a. /\ Len(r) \in Nat /\ n \in Nat /\ RingSize \in Nat \ {0} /\ Len(r) <= n /\ lost \in {0, 1}
      /\ lost = 1 => Len(r) = RingSize
      /\ Len(r') = Len(r) + 1 - lost
  BY <1>2, <1>3, RateLimiterAssumption
<1> HIDE DEF n, limit, entry
<1>9. TypeOK'
  BY <1>2, <1>4 DEF RateInv, TypeOK, Count, NoRequest, Kinds
<1>10. RingIsRecent'
  <2>1. Len(r) + 1 - lost <= n + 1
    BY <1>a
  <2>2. ASSUME NEW i \in 1 .. Len(r) + 1 - lost
        PROVE  r'[i] = counted'[n + 1 - (Len(r) + 1 - lost) + i].time
    <3>1. CASE i = Len(r) + 1 - lost
      <4>1. n + 1 - (Len(r) + 1 - lost) + i = n + 1
        BY <1>a, <3>1
      <4> QED BY <1>2, <1>4, <1>5, <3>1, <4>1
    <3>2. CASE i # Len(r) + 1 - lost
      <4>1. /\ i \in 1 .. Len(r) - lost /\ i + lost \in 1 .. Len(r)
            /\ n - Len(r) + (i + lost) \in 1 .. n
            /\ n - Len(r) + (i + lost) = n + 1 - (Len(r) + 1 - lost) + i
        BY <1>a, <3>2
      <4>2. r'[i] = r[i + lost]
        BY <1>2, <4>1
      <4>3. r[i + lost] = counted[n - Len(r) + (i + lost)].time
        BY <4>1 DEF RateInv, RingIsRecent, n
      <4> QED BY <1>4, <4>1, <4>2, <4>3
    <3> QED BY <3>1, <3>2
  <2>3. Len(r') = Len(r) + 1 - lost /\ Len(counted') = n + 1
    BY <1>a, <1>4
  <2> QED BY <1>a, <2>1, <2>2, <2>3 DEF RingIsRecent
<1>11. \A i \in 1 .. n + 1 : counted'[i].time <= now
  <2>1. \A i \in 1 .. n : counted[i].time <= now
    BY DEF RateInv, InTime, n
  <2>2. ASSUME NEW i \in 1 .. n + 1 PROVE counted'[i].time <= now
    <3>1. CASE i \in 1 .. n
      BY <1>4, <2>1, <3>1
    <3>2. CASE i = n + 1
      <4>1. counted'[i].time = now
        BY <1>4, <1>5, <3>2
      <4> QED BY <1>3, <4>1
    <3> QED BY <1>8, <3>1, <3>2
  <2> QED BY <2>2
<1>12. InTime'
  <2>1. ASSUME NEW i \in 1 .. n + 1, NEW j \in 1 .. n + 1, i <= j
        PROVE  counted'[i].time <= counted'[j].time
    <3>1. CASE j = n + 1
      BY <1>4, <1>5, <1>11, <3>1
    <3>2. CASE j # n + 1
      <4>1. i \in 1 .. n /\ j \in 1 .. n
        BY <1>3, <2>1, <3>2
      <4>2. counted[i].time <= counted[j].time
        BY <2>1, <4>1 DEF RateInv, InTime, n
      <4> QED BY <1>4, <4>1, <4>2
    <3> QED BY <3>1, <3>2
  <2>2. request'.time <= now'
    BY <1>3, <1>7 DEF NoRequest
  <2> QED BY <1>4, <1>7, <1>11, <2>1, <2>2 DEF InTime
<1>13. GoneForAReason'
  <2> SUFFICES ASSUME NEW i \in 1 .. n + 1, i <= n + 1 - (Len(r) + 1 - lost)
               PROVE  counted'[i].time + Second < now \/ i + RingSize <= n + 1
    <3>1. Len(r') = Len(r) + 1 - lost /\ Len(counted') = n + 1 /\ now' = now
      BY <1>a, <1>4, <1>7
    <3> QED BY <1>a, <3>1 DEF GoneForAReason
  <2>1. i \in 1 .. n /\ (i <= n - Len(r) \/ (i = n - Len(r) + 1 /\ Len(r) = RingSize))
    BY <1>a
  <2>2. CASE i <= n - Len(r)
    <3>1. counted[i].time + Second < now \/ i + RingSize <= n
      BY <2>1, <2>2 DEF RateInv, GoneForAReason, n
    <3>2. i + RingSize <= n => i + RingSize <= n + 1
      BY <1>a
    <3>3. counted'[i] = counted[i]
      BY <1>4, <2>1
    <3> QED BY <3>1, <3>2, <3>3
  <2>3. CASE i = n - Len(r) + 1 /\ Len(r) = RingSize
    BY <1>a, <2>3
  <2> QED BY <2>1, <2>2, <2>3
<1>14. HasPassed'
  <2>1. refused.before <= n + 1
    BY <1>3
  <2> QED BY <1>4, <1>7, <2>1 DEF HasPassed, NoRequest
<1>15. RateLimited'
  <2> SUFFICES ASSUME NEW k \in 1 .. n + 1,
                      counted'[k].limit <= RingSize, k > counted'[k].limit
               PROVE  counted'[k - counted'[k].limit].time + Second < counted'[k].time
    <3>1. DOMAIN counted' = 1 .. n + 1
      BY <1>4
    <3> QED BY <3>1 DEF RateLimited
  <2>1. CASE k = n + 1
    <3>1. counted'[k].time = now /\ counted'[k].limit = limit
      BY <1>4, <1>5, <2>1
    <3>2. limit <= RingSize /\ limit < n + 1
      BY <2>1, <3>1
    <3>3. /\ n + 1 - limit \in 1 .. n /\ n + 1 - limit <= n - Len(r)
          /\ ~(n + 1 - limit + RingSize <= n)
      BY <1>3, <3>2, RateLimiterAssumption
    <3>4. counted[n + 1 - limit].time + Second < now
      BY <3>3 DEF RateInv, GoneForAReason, n
    <3>5. k - counted'[k].limit = n + 1 - limit
      BY <1>3, <2>1, <3>1
    <3>6. counted'[n + 1 - limit] = counted[n + 1 - limit]
      BY <1>4, <3>3
    <3> QED BY <3>1, <3>4, <3>5, <3>6
  <2>2. CASE k # n + 1
    <3>1. k \in 1 .. n
      BY <1>8, <2>2
    <3>2. counted'[k] = counted[k] /\ counted[k].limit \in Nat
      BY <1>4, <1>6, <3>1
    <3>3. counted[k].limit <= RingSize /\ k > counted[k].limit
      BY <3>2
    <3>4. counted[k - counted[k].limit].time + Second < counted[k].time
      BY <3>1, <3>3, LimitedIndices DEF RateInv, n
    <3>5. counted[k].limit # 0
      BY <1>6, <3>1, <3>4, RateLimiterAssumption
    <3>6. k - counted[k].limit \in 1 .. n
      BY <1>3, <3>1, <3>2, <3>3, <3>5
    <3> QED BY <1>4, <3>2, <3>4, <3>6
  <2> QED BY <2>1, <2>2
<1>16. RefusedOnlyAtLimit'
  <2> SUFFICES ASSUME refused.limit > 0
               PROVE  /\ refused.before >= refused.limit
                      /\ counted'[refused.before - refused.limit + 1].time + Second >= refused.time
    BY <1>7 DEF RefusedOnlyAtLimit
  <2>1. /\ refused.before >= refused.limit
        /\ counted[refused.before - refused.limit + 1].time + Second >= refused.time
    BY DEF RateInv, RefusedOnlyAtLimit
  <2>2. refused.before - refused.limit + 1 \in 1 .. n
    BY <1>3, <2>1
  <2> QED BY <1>4, <2>1, <2>2
<1> QED BY <1>9, <1>10, <1>12, <1>13, <1>14, <1>15, <1>16 DEF RateInv

-----------------------------------------------------------------------------
LEMMA NextRateInv ==
  ASSUME RateInv, [Next]_vars PROVE RateInv'
<1> USE RateLimiterAssumption
<1>1. CASE ClockTicks
  <2>1. now \in Nat /\ request.time \in Nat /\ now' = now + 1 /\ request.time <= now
    BY <1>1, Numbers DEF ClockTicks, RateInv, InTime
  <2>2. now <= now' /\ request.time <= now' /\ now' \in Nat
    BY <2>1
  <2> QED BY <1>1, <2>2, QuietStep DEF ClockTicks, RateInv, TypeOK, HasPassed
<1>2. ASSUME NEW maxOrders \in Limits, setMaxOrdersPerSec(maxOrders) PROVE RateInv'
  BY <1>2, QuietStep DEF setMaxOrdersPerSec, RateInv, TypeOK, InTime, HasPassed
<1>3. ASSUME NEW kind \in Kinds, HandleEvent(kind) PROVE RateInv'
  BY <1>3, QuietStep DEF HandleEvent, RateInv, TypeOK, InTime, HasPassed
<1>4. CASE PopFront
  BY <1>4, PopFrontStep
<1>5. CASE WithinLimit
  <2>1. /\ request \in [at : {"none", "check", "handled"}, kind : Kinds, time : Nat, limit : Nat]
        /\ request' = [request EXCEPT !.at = "handled"]
        /\ Len(orderTimestamps) < request.limit /\ request.time <= now /\ now \in Nat
    BY <1>5 DEF WithinLimit, RateInv, TypeOK, InTime
  <2>2. /\ request' \in [at : {"none", "check", "handled"}, kind : Kinds, time : Nat, limit : Nat]
        /\ request'.time = request.time /\ request'.limit = request.limit
    BY <2>1
  <2>3. now' = now /\ UNCHANGED <<orderTimestamps, counted, refused>>
    BY <1>5 DEF WithinLimit
  <2>4. TypeOK'
    BY <1>5, <2>2 DEF WithinLimit, RateInv, TypeOK
  <2>5. now <= now' /\ request'.time <= now' /\ Len(orderTimestamps) < request'.limit
    BY <2>1, <2>2, <2>3
  <2> QED BY <2>3, <2>4, <2>5, QuietStep
<1>6. CASE Refuse
  BY <1>6, RefuseStep
<1>7. CASE Count
  BY <1>7, CountStep
<1>8. CASE LeaveUncounted
  BY <1>8, QuietStep DEF LeaveUncounted, RateInv, TypeOK, InTime, HasPassed, NoRequest, Kinds
<1>9. CASE UNCHANGED vars
  BY <1>9, QuietStep DEF vars, RateInv, TypeOK, InTime, HasPassed
<1> QED BY <1>1, <1>2, <1>3, <1>4, <1>5, <1>6, <1>7, <1>8, <1>9 DEF Next

(* RateInv is inductive: at every state of every behaviour.                *)
LEMMA SpecRateInv == Spec => []RateInv
BY InitRateInv, NextRateInv, PTL DEF Spec

(* At most maxOrdersPerSec_ requests are counted in any second, for every  *)
(* limit up to the size of the ring.                                       *)
THEOREM RateIsLimited == Spec => []RateLimited
<1>1. RateInv => RateLimited
  BY DEF RateInv
<1> QED BY <1>1, SpecRateInv, PTL

(* A request is refused only when the limit was reached in the second      *)
(* before it.                                                              *)
THEOREM RefusalsAreDue == Spec => []RefusedOnlyAtLimit
<1>1. RateInv => RefusedOnlyAtLimit
  BY DEF RateInv
<1> QED BY <1>1, SpecRateInv, PTL

(* The types of the limiter's state, and the ring within its size.         *)
THEOREM RateTypes == Spec => []TypeOK
<1>1. RateInv => TypeOK
  BY DEF RateInv
<1> QED BY <1>1, SpecRateInv, PTL

=============================================================================
