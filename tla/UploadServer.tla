---------------------------- MODULE UploadServer ----------------------------
(***************************************************************************)
(* The upload routes of the server: ip_tracker_with_auth in front of       *)
(* small_upload_handler and large_upload_handler (uploads.rs), over the    *)
(* map of sessions in processor.rs.  Whatever a handler does to shared      *)
(* state between two awaits is a step, so that the handlers of one session *)
(* may interleave, and one whose client is gone may be dropped between any *)
(* two.  The limiter appears by its outcomes, any of which other clients   *)
(* can cause (RateLimiter).  The client is UploadPage.                     *)
(***************************************************************************)
EXTENDS Integers, Sequences, FiniteSets, Functions

CONSTANTS MaxUploads,    \* bound on the uploads of a page
          Chunks,        \* total_chunks of each upload that has any content
          MaxFaults,     \* bound on the requests the browser sends again and
                         \* the restarts of the server, together
          MaxAge,        \* the age a request may have, in seconds
          MaxDelay,      \* bound on the age a request has, and on clock skew
          TimeRange      \* 2^64, the range of a timestamp

ASSUME BoundsAreNaturals ==
  /\ {MaxUploads, MaxFaults, MaxAge, MaxDelay} \subseteq Nat
  /\ TimeRange \in Nat \ {0}

Upload == 1..MaxUploads          \* a session_id each

ASSUME ChunksArePositive == Chunks \in [Upload -> Nat \ {0}]

Slot   == 0..MaxFaults          \* the requests of an upload alive at once

Route  == {"/smallupload", "/largeupload"}
Answer == {"ack", "processed", "no_orders", "error"}
Place  == {"arrived", "stored", "collect",
           "charge", "charge_global", "process", "clear"}

VARIABLES
  sessions,    \* the chunk numbers stored for each upload, {} without an entry
  handler,     \* of each upload and slot: where its handler is, or its answer
  route,       \* the route the requests of an upload take, or "none"
  visits,      \* the rows of an upload that record_in_db has spawned
  charged,     \* how often it was counted under the address and globally
  runs,        \* how often its orders were run
  repeats,     \* the requests of an upload sent again
  wiped        \* of each restart, the uploads that lost stored chunks by it

serverVars == <<sessions, handler, route, visits, charged, runs, repeats, wiped>>

NoHandler == [at |-> "none", chunk |-> 0]

ServerInit ==
  /\ sessions = [u \in Upload |-> {}]
  /\ handler = [u \in Upload |-> [i \in Slot |-> NoHandler]]
  /\ route = [u \in Upload |-> "none"]
  /\ visits = [u \in Upload |-> 0]
  /\ charged = [u \in Upload |-> [address |-> 0, global |-> 0]]
  /\ runs = [u \in Upload |-> 0]
  /\ repeats = [u \in Upload |-> 0]
  /\ wiped = << >>

MayFail == SumFunction(repeats) + Len(wiped) < MaxFaults

At(u, i) == handler[u][i].at
Chunk(u, i) == handler[u][i].chunk
Goto(u, i, at) == handler' = [handler EXCEPT ![u][i].at = at]

(* The first slot of some without a handler, for a request that comes in. *)
Free(u, slots, i) ==
  /\ i \in slots /\ At(u, i) = "none"
  /\ \A j \in slots : j < i => At(u, j) # "none"

Complete_Declared(u) == sessions[u] # {}
Complete(u) == Cardinality(sessions[u]) = Chunks[u]

-----------------------------------------------------------------------------
(* The age of a request is an unsigned difference: a timestamp that is     *)
(* ahead of the server's clock wraps and reads as very old.                *)
Expired(age) == age % TimeRange > MaxAge

(* store_chunk, is_upload_complete and get_all_chunks each lock the map by *)
(* themselves.                                                             *)
StoreChunk_Fresh(u, k) == sessions' = [sessions EXCEPT ![u] = {k}]
StoreChunk(u, k) == sessions' = [sessions EXCEPT ![u] = @ \cup {k}]

(* record_in_db: the row is written by a task of its own. *)
LogVisit(u) == visits' = [visits EXCEPT ![u] = @ + 1]

(* A request that is not authorized, or whose payload cannot be read. *)
Reject(u, i) == Goto(u, i, "error") /\ UNCHANGED <<sessions, visits>>

(* For the first chunk would_exceed_limit is asked: refused and failed are *)
(* one error, logged as a visit.                                           *)
Admit(u, i) ==
  \/ /\ StoreChunk(u, Chunk(u, i))
     /\ Goto(u, i, "stored")
     /\ UNCHANGED visits
  \/ /\ Chunk(u, i) = 0
     /\ Goto(u, i, "error")
     /\ LogVisit(u)
     /\ UNCHANGED sessions

Enter(u, i) ==
  /\ At(u, i) = "arrived"
  /\ \/ \E age \in -1..MaxDelay : IF Expired(age) THEN Reject(u, i) ELSE Admit(u, i)
     \/ Reject(u, i)
  /\ UNCHANGED <<route, charged, runs, repeats, wiped>>

TestComplete(u, i) ==
  /\ At(u, i) = "stored"
  /\ Goto(u, i, IF Complete(u) THEN "collect" ELSE "ack")
  /\ UNCHANGED <<sessions, route, visits, charged, runs, repeats, wiped>>

(* What the handler does with the chunks it has collected.  The bytes of a *)
(* large file are parsed only now: without a valid order in it the handler *)
(* is done and leaves the session as it is, and with the orders found      *)
(* would_exceed_limit is asked again.                                      *)
AfterCollecting(u) ==
  IF route[u] = "/smallupload" THEN {"charge"} ELSE {"no_orders", "charge", "error"}

CollectChunks(u, i) ==
  /\ At(u, i) = "collect"
  /\ \E at \in IF Complete(u) THEN AfterCollecting(u) ELSE {"error"} : Goto(u, i, at)
  /\ UNCHANGED <<sessions, route, visits, charged, runs, repeats, wiped>>

(* record_in_db and the first half of record_orders, then the second half. *)
ChargeAddress(u, i) ==
  /\ At(u, i) = "charge"
  /\ LogVisit(u)
  /\ \/ Goto(u, i, "error") /\ UNCHANGED charged
     \/ /\ Goto(u, i, "charge_global")
        /\ charged' = [charged EXCEPT ![u].address = @ + 1]
  /\ UNCHANGED <<sessions, route, runs, repeats, wiped>>

ChargeGlobal_BestEffort(u, i) ==
  /\ At(u, i) = "charge_global"
  /\ Goto(u, i, "process")
  /\ charged' = charged \/ charged' = [charged EXCEPT ![u].global = @ + 1]
  /\ UNCHANGED <<sessions, route, visits, runs, repeats, wiped>>
ChargeGlobal(u, i) ==
  /\ At(u, i) = "charge_global"
  /\ \/ Goto(u, i, "error") /\ UNCHANGED charged
     \/ /\ Goto(u, i, "process")
        /\ charged' = [charged EXCEPT ![u].global = @ + 1]
  /\ UNCHANGED <<sessions, route, visits, runs, repeats, wiped>>

(* process_uploaded_orders runs them through an Arena of its own; orders   *)
(* the engine cannot handle panic, which ends the request without answer.  *)
Process(u, i) ==
  /\ At(u, i) = "process"
  /\ runs' = [runs EXCEPT ![u] = @ + 1]
  /\ \/ Goto(u, i, "clear")
     \/ handler' = [handler EXCEPT ![u][i] = NoHandler]
  /\ UNCHANGED <<sessions, route, visits, charged, repeats, wiped>>

(* clear_chunks *)
ClearChunks_KeepsSession(u, i) ==
  /\ At(u, i) = "clear"
  /\ Goto(u, i, IF sessions[u] = {} THEN "error" ELSE "processed")
  /\ UNCHANGED <<sessions, route, visits, charged, runs, repeats, wiped>>
ClearChunks(u, i) ==
  /\ At(u, i) = "clear"
  /\ Goto(u, i, IF sessions[u] = {} THEN "error" ELSE "processed")
  /\ sessions' = [sessions EXCEPT ![u] = {}]
  /\ UNCHANGED <<route, visits, charged, runs, repeats, wiped>>

HandlerStep(u, i) ==
  \/ Enter(u, i) \/ TestComplete(u, i) \/ CollectChunks(u, i)
  \/ ChargeAddress(u, i) \/ ChargeGlobal(u, i)
  \/ Process(u, i) \/ ClearChunks(u, i)

-----------------------------------------------------------------------------
(* A handler ends without an answer. *)
Drop(u, i) ==
  /\ At(u, i) # "none"
  /\ handler' = [handler EXCEPT ![u][i] = NoHandler]
  /\ UNCHANGED <<sessions, route, visits, charged, runs, repeats, wiped>>

(* The server stops, and a new one starts: sessions are kept in memory.  A *)
(* restart that has nothing to lose is left out.                           *)
Restart ==
  /\ MayFail
  /\ \E u \in Upload : sessions[u] # {} \/ \E i \in Slot : At(u, i) # "none"
  /\ wiped' = Append(wiped, {u \in Upload : sessions[u] # {}})
  /\ sessions' = [u \in Upload |-> {}]
  /\ handler' = [u \in Upload |-> [i \in Slot |-> NoHandler]]
  /\ UNCHANGED <<route, visits, charged, runs, repeats>>
=============================================================================
