---------------------------- MODULE RateLimiter ----------------------------
(***************************************************************************)
(* The order limits of backend/src/midwares/app_state.rs: a Redis counter  *)
(* per client address and a global one, checked by would_exceed_limit and  *)
(* charged by record_orders.  Each command to Redis is a step: calls of    *)
(* other requests, the expiry of a key, an error of Redis and the end of   *)
(* the calling request may come between any two.                           *)
(***************************************************************************)
EXTENDS Integers, FiniteSets, FiniteSetsExt

CONSTANTS Caller,       \* the requests that may be calling at once
          Address,      \* client addresses
          Global,       \* the key of the global counter
          MaxOrders,    \* bound on the orders of one call
          IpMax,        \* ip_max_orders
          GlobalMax,    \* global_max_orders
          MaxUnseen     \* bound on the orders of unseen, under each key

ASSUME GlobalIsNoAddress == Global \notin Address
ASSUME CallersAreFinite == IsFiniteSet(Caller) /\ Caller # {}
ASSUME LimitsAreNaturals == {MaxOrders, IpMax, GlobalMax, MaxUnseen} \subseteq Nat

Key == Address \cup {Global}
Limit(k) == IF k = Global THEN GlobalMax ELSE IpMax

Step == {"check_ip", "check_global", "incr_ip", "expire_ip", "incr_global", "expire_global"}
Outcome == {"allowed", "refused", "failed", "recorded"}

VARIABLES
  count,      \* the counter under each key, 0 for a key Redis does not hold
  expiring,   \* the keys that have an expiry
  call,       \* of each caller: where it is, and for whom and how much
  unseen,     \* history: the orders let past a key with no look at its counter
  orphaned    \* history: the keys whose creator stopped before the expiry was set

limiterVars == <<count, expiring, call, unseen, orphaned>>

NoCall == [at |-> "idle"]
CallTo(ip, n, at) == [at |-> at, ip |-> ip, orders |-> n]

LimiterInit ==
  /\ count = [k \in Key |-> 0]
  /\ expiring = {}
  /\ call = [c \in Caller |-> NoCall]
  /\ unseen = [k \in Key |-> 0]
  /\ orphaned = {}

At(c) == call[c].at
To(c, at) == call' = [call EXCEPT ![c].at = at]

-----------------------------------------------------------------------------
(* would_exceed_limit *)

Ask(c, ip, n) ==
  /\ call' = [call EXCEPT ![c] = CallTo(ip, n, "check_ip")]
  /\ UNCHANGED <<count, expiring, unseen, orphaned>>

(* The counter is read and compared.  A read that fails counts as 0.       *)
Check_Forgetful(c, k, next) ==
  /\ To(c, IF call[c].orders <= Limit(k) THEN next ELSE "refused")
  /\ UNCHANGED <<count, expiring, unseen, orphaned>>
Check(c, k, next) ==
  /\ \/ /\ To(c, IF count[k] + call[c].orders > Limit(k) THEN "refused" ELSE next)
        /\ UNCHANGED unseen
     \/ /\ unseen[k] + call[c].orders <= MaxUnseen
        /\ To(c, IF call[c].orders > Limit(k) THEN "refused" ELSE next)
        /\ unseen' = [unseen EXCEPT ![k] = @ + call[c].orders]
  /\ UNCHANGED <<count, expiring, orphaned>>

CheckAddress(c) == At(c) = "check_ip" /\ Check(c, call[c].ip, "check_global")
CheckGlobal(c)  == At(c) = "check_global" /\ Check(c, Global, "allowed")

-----------------------------------------------------------------------------
(* record_orders *)

Record(c) ==
  /\ At(c) = "allowed"
  /\ To(c, "incr_ip")
  /\ UNCHANGED <<count, expiring, unseen, orphaned>>

(* small_upload_handler checks in the request that brings chunk 0 and      *)
(* charges in whichever request finds the chunks complete: the last chunk  *)
(* sent again charges again, for orders that only the first was asked.     *)
RecordAgain(c, ip, n) ==
  /\ \A k \in {ip, Global} : unseen[k] + n <= MaxUnseen
  /\ call' = [call EXCEPT ![c] = CallTo(ip, n, "incr_ip")]
  /\ unseen' = [unseen EXCEPT ![ip] = @ + n, ![Global] = @ + n]
  /\ UNCHANGED <<count, expiring, orphaned>>

(* INCR: a result equal to the orders means that the key was created, and  *)
(* only then is the next command the one that sets its expiry.             *)
Incr_FirstOrder(c, k, expire, done) ==
  /\ count' = [count EXCEPT ![k] = @ + call[c].orders]
  /\ To(c, IF count'[k] = 1 THEN expire ELSE done)
  /\ UNCHANGED <<expiring, unseen, orphaned>>
Incr(c, k, expire, done) ==
  /\ count' = [count EXCEPT ![k] = @ + call[c].orders]
  /\ To(c, IF count'[k] = call[c].orders THEN expire ELSE done)
  /\ UNCHANGED <<expiring, unseen, orphaned>>

(* EXPIRE *)
SetExpiry_OfAddress(c, k, done) ==
  /\ expiring' = expiring \cup {call[c].ip}
  /\ To(c, done)
  /\ UNCHANGED <<count, unseen, orphaned>>
SetExpiry(c, k, done) ==
  /\ expiring' = expiring \cup {k}
  /\ To(c, done)
  /\ UNCHANGED <<count, unseen, orphaned>>

IncrAddress(c)   == At(c) = "incr_ip" /\ Incr(c, call[c].ip, "expire_ip", "incr_global")
ExpireAddress(c) == At(c) = "expire_ip" /\ SetExpiry(c, call[c].ip, "incr_global")
IncrGlobal(c)    == At(c) = "incr_global" /\ Incr(c, Global, "expire_global", "recorded")
ExpireGlobal(c)  == At(c) = "expire_global" /\ SetExpiry(c, Global, "recorded")

(* The key a call that stops here leaves without an expiry. *)
Abandoned(c) == CASE At(c) = "expire_ip"     -> {call[c].ip}
                  [] At(c) = "expire_global" -> {Global}
                  [] OTHER                   -> {}

(* Redis answers with an error, or not at all: the call returns it.        *)
LimiterFails(c) ==
  /\ At(c) \in Step \ {"check_global"}
  /\ To(c, "failed")
  /\ orphaned' = orphaned \cup Abandoned(c)
  /\ UNCHANGED <<count, expiring, unseen>>

(* Redis has carried out the INCR, but its answer is lost. *)
AnswerLost(c) ==
  /\ At(c) \in {"incr_ip", "incr_global"}
  /\ LET k == IF At(c) = "incr_ip" THEN call[c].ip ELSE Global
     IN  /\ count' = [count EXCEPT ![k] = @ + call[c].orders]
         /\ orphaned' = IF count[k] = 0 THEN orphaned \cup {k} ELSE orphaned
  /\ To(c, "failed")
  /\ UNCHANGED <<expiring, unseen>>

(* The caller is done with the outcome, or is gone in the middle.          *)
Leave(c) ==
  /\ At(c) # "idle"
  /\ call' = [call EXCEPT ![c] = NoCall]
  /\ orphaned' = orphaned \cup Abandoned(c)
  /\ UNCHANGED <<count, expiring, unseen>>

LimiterStep(c) ==
  \/ CheckAddress(c) \/ CheckGlobal(c)
  \/ IncrAddress(c) \/ ExpireAddress(c) \/ IncrGlobal(c) \/ ExpireGlobal(c)
  \/ LimiterFails(c) \/ AnswerLost(c)

(* Redis drops a key at the end of its window. *)
Expire_KeepsMark(k) ==
  /\ k \in expiring
  /\ count' = [count EXCEPT ![k] = 0]
  /\ UNCHANGED <<expiring, call, unseen, orphaned>>
Expire(k) ==
  /\ k \in expiring
  /\ count' = [count EXCEPT ![k] = 0]
  /\ expiring' = expiring \ {k}
  /\ UNCHANGED <<call, unseen, orphaned>>

-----------------------------------------------------------------------------
(* A caller is a Start message, which asks and is charged in one call of   *)
(* ws_handler, an upload, whose chunks are requests of their own, or the   *)
(* request that completes an upload a second time.                         *)
LimiterNext ==
  \/ \E c \in Caller :
       \/ /\ At(c) = "idle"
          /\ \E ip \in Address, n \in 1..MaxOrders : Ask(c, ip, n) \/ RecordAgain(c, ip, n)
       \/ Record(c) \/ Leave(c) \/ LimiterStep(c)
  \/ \E k \in Key : Expire(k)

LimiterSpec == LimiterInit /\ [][LimiterNext]_limiterVars

(* A call that has begun goes on, and Redis drops what has expired. *)
LimiterFairSpec ==
  /\ LimiterSpec
  /\ \A c \in Caller : WF_limiterVars(LimiterStep(c))
  /\ \A k \in Key : WF_limiterVars(Expire(k))

-----------------------------------------------------------------------------
(* The counters, the calls and the histories have their types, and only a  *)
(* key that exists can expire.                                             *)
LimiterTypeOK ==
  /\ count \in [Key -> Nat]
  /\ unseen \in [Key -> Nat]
  /\ call \in [Caller -> {NoCall} \cup
                         [at : Step \cup Outcome, ip : Address, orders : 1..MaxOrders]]
  /\ expiring \subseteq {k \in Key : count[k] > 0}
  /\ orphaned \subseteq Key

(* The orders of the calls that have passed the check of a key and have    *)
(* not been counted under it.                                              *)
AdmittedTo(k) ==
  {c \in Caller : /\ At(c) # "idle"
                  /\ IF k = Global
                     THEN At(c) \in {"allowed", "incr_ip", "expire_ip", "incr_global"}
                     ELSE call[c].ip = k /\ At(c) \in {"check_global", "allowed", "incr_ip"}}
Pending(k) == MapThenSumSet(LAMBDA c : call[c].orders, AdmittedTo(k))

(* Checking and charging are separate requests to Redis, so that a counter *)
(* may pass its limit: but by no more than the other callers can have been *)
(* admitted for while it was still below, and by what was let past with no *)
(* look at the counter: by a read that failed, or by the last chunk of a   *)
(* small upload sent again.                                                *)
OvershootIsBounded ==
  \A k \in Key :
    count[k] + Pending(k) <= Limit(k) + (Cardinality(Caller) - 1) * MaxOrders + unseen[k]

(* record_orders makes a key and sets its expiry by two commands: a key    *)
(* that exists has an expiry, or a caller is about to set it, or the       *)
(* caller that made it was stopped in between.                             *)
Setter(c, k) == IF k = Global THEN At(c) = "expire_global"
                              ELSE At(c) = "expire_ip" /\ call[c].ip = k
ExpiryIsComing ==
  \A k \in Key :
    count[k] > 0 => \/ k \in expiring \cup orphaned
                    \/ \E c \in Caller : Setter(c, k)

(* Every counter is empty again and again: an address that has used up its *)
(* orders can resume, unless its key was made by a call that was stopped   *)
(* before the expiry was set.                                              *)
CountersReset == \A k \in Key : []<>(count[k] = 0 \/ k \in orphaned)
=============================================================================
