----------------------------- MODULE RateLimiter -----------------------------
(***************************************************************************)
(* The rate limit of a BrokerProfile: orders, cancellations and edits are  *)
(* refused when as many as maxOrdersPerSec_ were counted in the last       *)
(* second.  The clock is read twice: when a request is checked, and when   *)
(* it has been handled and is counted.  One thread handles the requests;   *)
(* what the OrderManager does with one (OrderManager) matters here only by *)
(* whether it is counted.                                                  *)
(***************************************************************************)
EXTENDS Integers, Sequences

CONSTANTS
  RingSize,    \* logicalSize_ of orderTimestamps_: the default of maxOrdersPerSec_
  Limits,      \* what maxOrdersPerSec_ may be set to
  Second,      \* a second, in ticks of the clock
  MaxCounted,  \* bound of the model: requests that are counted
  MaxTime      \* bound of the model: ticks of the clock

ASSUME RateLimiterAssumption ==
  /\ RingSize \in Nat \ {0} /\ Second \in Nat \ {0} /\ Limits \subseteq Nat
  /\ MaxCounted \in Nat /\ MaxTime \in Nat

VARIABLES
  now,              \* steady_clock
  maxOrdersPerSec,  \* maxOrdersPerSec_
  orderTimestamps,  \* orderTimestamps_, from its front to its back
  request,          \* the request that is handled: where, since when, by which limit
  counted,          \* every request that was counted: when, and by which limit
  refused           \* the last refusal: when, by which limit, and what was counted before

vars == <<now, maxOrdersPerSec, orderTimestamps, request, counted, refused>>

Kinds == {"SingleOrder", "CancelOrder", "EditOrder"}
NoRequest == [at |-> "none", kind |-> "SingleOrder", time |-> 0, limit |-> 0]

Init ==
  /\ now = 0
  /\ maxOrdersPerSec = RingSize
  /\ orderTimestamps = << >>
  /\ request = NoRequest
  /\ counted = << >>
  /\ refused = [time |-> 0, limit |-> 0, before |-> 0]

ClockTicks ==
  /\ now < MaxTime  \* bound of the model
  /\ now' = now + 1
  /\ UNCHANGED <<maxOrdersPerSec, orderTimestamps, request, counted, refused>>

setMaxOrdersPerSec(maxOrders) ==
  /\ request.at = "none"
  /\ maxOrdersPerSec' = maxOrders
  /\ UNCHANGED <<now, orderTimestamps, request, counted, refused>>

-----------------------------------------------------------------------------
(* isOrderRateWithinLimit(): what is older than a second is taken from the *)
(* front, and the rest is counted.                                         *)
HandleEvent(kind) ==
  /\ request.at = "none"
  /\ Len(counted) < MaxCounted  \* bound of the model
  /\ request' = [at |-> "check", kind |-> kind, time |-> now, limit |-> maxOrdersPerSec]
  /\ UNCHANGED <<now, maxOrdersPerSec, orderTimestamps, counted, refused>>

(* A mistake: what is older than two seconds.                              *)
IsOldLater(timestamp) == timestamp + 2 * Second < request.time

IsOld(timestamp) == timestamp + Second < request.time

PopFront ==
  /\ request.at = "check"
  /\ orderTimestamps # << >> /\ IsOld(Head(orderTimestamps))
  /\ orderTimestamps' = Tail(orderTimestamps)
  /\ UNCHANGED <<now, maxOrdersPerSec, request, counted, refused>>

NoneIsOld ==
  /\ request.at = "check"
  /\ orderTimestamps # << >> => ~IsOld(Head(orderTimestamps))

WithinLimit ==
  /\ NoneIsOld
  /\ Len(orderTimestamps) < request.limit
  /\ request' = [request EXCEPT !.at = "handled"]
  /\ UNCHANGED <<now, maxOrdersPerSec, orderTimestamps, counted, refused>>

(* The listeners are told that the order, the cancellation or the edit     *)
(* failed.                                                                 *)
Refuse ==
  /\ NoneIsOld
  /\ Len(orderTimestamps) >= request.limit
  /\ request' = NoRequest
  /\ refused' = [time |-> request.time, limit |-> request.limit, before |-> Len(counted)]
  /\ UNCHANGED <<now, maxOrdersPerSec, orderTimestamps, counted>>

-----------------------------------------------------------------------------
(* FastRingBuffer::push(): when the ring is full its front is overwritten. *)

(* A mistake: nothing is overwritten.                                      *)
PushedUnbounded(ring, timestamp) == Append(ring, timestamp)

(* A mistake: one too early.                                               *)
PushedTooEarly(ring, timestamp) ==
  IF Len(ring) + 1 >= RingSize THEN Tail(Append(ring, timestamp)) ELSE Append(ring, timestamp)

Pushed(ring, timestamp) ==
  IF Len(ring) + 1 > RingSize THEN Tail(Append(ring, timestamp)) ELSE Append(ring, timestamp)

(* An order is counted even when the OrderManager refused it.              *)
Count ==
  /\ request.at = "handled"
  /\ orderTimestamps' = Pushed(orderTimestamps, now)
  /\ counted' = Append(counted, [time |-> now, limit |-> request.limit])
  /\ request' = NoRequest
  /\ UNCHANGED <<now, maxOrdersPerSec, refused>>

(* A cancellation or an edit that the OrderManager refused is not counted. *)
LeaveUncounted ==
  /\ request.at = "handled"
  /\ request.kind # "SingleOrder"
  /\ request' = NoRequest
  /\ UNCHANGED <<now, maxOrdersPerSec, orderTimestamps, counted, refused>>

Next ==
  \/ ClockTicks
  \/ \E maxOrders \in Limits : setMaxOrdersPerSec(maxOrders)
  \/ \E kind \in Kinds : HandleEvent(kind)
  \/ PopFront \/ WithinLimit \/ Refuse \/ Count \/ LeaveUncounted

Spec == Init /\ [][Next]_vars

-----------------------------------------------------------------------------
(* Properties.                                                             *)

(* The types of the state; the ring holds no more than its logical size.   *)
TypeOK ==
  /\ now \in Nat /\ maxOrdersPerSec \in Nat
  /\ orderTimestamps \in Seq(Nat) /\ Len(orderTimestamps) <= RingSize
  /\ request \in [at : {"none", "check", "handled"}, kind : Kinds, time : Nat, limit : Nat]
  /\ counted \in Seq([time : Nat, limit : Nat])
  /\ refused \in [time : Nat, limit : Nat, before : Nat]

(* A broker gets at most maxOrdersPerSec_ counted requests in any second:  *)
(* one that passed the check under a limit comes more than a second after  *)
(* the one that many requests before it, whatever limits came before.  It  *)
(* does not hold for a limit above the size of the ring, which never has   *)
(* as many timestamps: such a limit is none.                               *)
RateLimited ==
  \A k \in DOMAIN counted :
    counted[k].limit <= RingSize /\ k > counted[k].limit =>
      counted[k - counted[k].limit].time + Second < counted[k].time

(* No request is refused when it need not be: as many as the limit were    *)
(* counted in the second before it.                                        *)
RefusedOnlyAtLimit ==
  refused.limit > 0 =>
    /\ refused.before >= refused.limit
    /\ counted[refused.before - refused.limit + 1].time + Second >= refused.time

=============================================================================
