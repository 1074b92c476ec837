------------------------------- MODULE WsPage -------------------------------
(***************************************************************************)
(* The simulator page against the server: frontend/src/utils/ws_handler.rs *)
(* and the Start and Stop actions of frontend/src/pages/simulator.rs.  A   *)
(* click on Start spawns a handler with a connection of its own; all       *)
(* handlers share the page's signals, among them the one slot ws_conn for  *)
(* the sending half of a connection.  Everything the page shows but the    *)
(* buttons is left out.                                                    *)
(***************************************************************************)
EXTENDS WsServer

CONSTANT NIL     \* None

VARIABLES
  view,           \* "Selector" or "Execution"; "Gone" once the tab is closed
  feed_killed,    \* whether the page offers to go back instead of to stop
  ws_conn,        \* the session whose sending half the page holds, or NIL
  handler,        \* handle_websocket of each session: "none", "opening",
                  \* "reading", "returned" (Ok) or "failed" (Err)
  got             \* the updates it has processed

pageVars == <<view, feed_killed, ws_conn, handler, got>>
vars == <<serverVars, pageVars>>

Init ==
  /\ ServerInit
  /\ view = "Selector"
  /\ feed_killed = TRUE
  /\ ws_conn = NIL
  /\ handler = [s \in Session |-> "none"]
  /\ got = [s \in Session |-> << >>]

(* What the browser does with a message for the server.  While the server  *)
(* is there it arrives; after that the send fails, or succeeds in vain.    *)
Reachable(s) == wire[s] = "open" /\ loop[s] = "select"
Delivered(s, msg) ==
  up' = IF Reachable(s) THEN [up EXCEPT ![s] = Append(@, msg)] ELSE up

-----------------------------------------------------------------------------
(* Action::Start: the page is cleared and the next handler spawned.  The   *)
(* button stays until the first update arrives.                            *)
ClickStart ==
  /\ view = "Selector"
  /\ \E s \in Session :
       /\ handler[s] = "none"
       /\ \A r \in 1..s-1 : handler[r] # "none"
       /\ handler' = [handler EXCEPT ![s] = "opening"]
  /\ UNCHANGED <<serverVars, view, feed_killed, ws_conn, got>>

(* The health check, the signature, the connection or the first send fails. *)
FailToOpen(s) ==
  /\ handler[s] = "opening"
  /\ handler' = [handler EXCEPT ![s] = "failed"]
  /\ UNCHANGED <<serverVars, view, feed_killed, ws_conn, got>>

(* The connection opens, the Start message is sent, and the sending half   *)
(* replaces whatever was in the slot.                                      *)
Open(s) ==
  /\ handler[s] = "opening"
  /\ handler' = [handler EXCEPT ![s] = "reading"]
  /\ ws_conn' = s
  /\ wire' = [wire EXCEPT ![s] = "open"]
  /\ loop' = [loop EXCEPT ![s] = "select"]
  /\ up' = [up EXCEPT ![s] = <<"Start">>]
  /\ UNCHANGED <<down, batch, chan, task, sent, view, feed_killed, got>>

-----------------------------------------------------------------------------
(* The reading loop of handle_websocket, with process_updates. *)

Frame(s) == Head(down[s])

(* The next frame is taken off the connection. *)
Take(s) ==
  /\ handler[s] = "reading"
  /\ down[s] # << >>
  /\ down' = [down EXCEPT ![s] = Tail(@)]

(* handle_websocket returns an error; its caller shows a toast. *)
Fail(s) == handler' = [handler EXCEPT ![s] = "failed"]

(* The first update a handler gets, whatever it is, shows the execution view. *)
Note(s) ==
  /\ got' = [got EXCEPT ![s] = @ \o Frame(s)]
  /\ view' = IF got[s] = << >> THEN "Execution" ELSE view
  /\ feed_killed' = (feed_killed /\ got[s] # << >>)

ReadUpdates(s) ==
  /\ Take(s)
  /\ Frame(s) # CloseFrame
  /\ Frame(s)[1] \in Snapshot..Orders
  /\ Note(s)
  /\ UNCHANGED <<wire, up, loop, batch, chan, task, sent, ws_conn, handler>>

(* Completed: the page sends Ack on the connection in its slot and empties *)
(* the slot; if the send fails the handler does.                           *)
ReadCompleted_KeepConn(s) ==
  /\ Take(s)
  /\ Frame(s) = <<Completed>>
  /\ Note(s)
  /\ IF ws_conn = NIL THEN UNCHANGED up ELSE Delivered(ws_conn, "Ack")
  /\ UNCHANGED <<wire, loop, batch, chan, task, sent, ws_conn, handler>>
ReadCompleted(s) ==
  /\ Take(s)
  /\ Frame(s) = <<Completed>>
  /\ Note(s)
  /\ \/ /\ IF ws_conn = NIL THEN UNCHANGED up ELSE Delivered(ws_conn, "Ack")
        /\ UNCHANGED handler
     \/ /\ ws_conn # NIL /\ ~ Reachable(ws_conn)
        /\ Fail(s)
        /\ UNCHANGED up
  /\ ws_conn' = NIL
  /\ UNCHANGED <<wire, loop, batch, chan, task, sent>>

ReadLimitExceeded(s) ==
  /\ Take(s)
  /\ Frame(s) = <<RateLimitExceeded>>
  /\ Fail(s)
  /\ UNCHANGED <<wire, up, loop, batch, chan, task, sent,
                 view, feed_killed, ws_conn, got>>

(* The loop comes to its end, and with it the feed. *)
Return(s) ==
  /\ handler' = [handler EXCEPT ![s] = "returned"]
  /\ feed_killed' = TRUE

ReadClose(s) ==
  /\ Take(s)
  /\ Frame(s) = CloseFrame
  /\ Return(s)
  /\ UNCHANGED <<wire, up, loop, batch, chan, task, sent, view, ws_conn, got>>

(* The connection ends without a close frame.  The browser reports it as a *)
(* close or as an error; the handler treats any error but a close as fatal. *)
FeedBreaks(s) ==
  /\ handler[s] = "reading"
  /\ down[s] = << >>
  /\ wire[s] = "lost" \/ loop[s] = "done"
  /\ \/ Return(s)
     \/ Fail(s) /\ UNCHANGED feed_killed
  /\ UNCHANGED <<serverVars, view, ws_conn, got>>

Read(s) ==
  \/ ReadUpdates(s) \/ ReadCompleted(s) \/ ReadLimitExceeded(s)
  \/ ReadClose(s) \/ FeedBreaks(s)

-----------------------------------------------------------------------------
(* Action::Stop, of the session in the slot: the feed counts as killed only *)
(* if the message could be sent.                                            *)
ClickStop ==
  /\ view = "Execution" /\ ~ feed_killed
  /\ ws_conn # NIL
  /\ \/ Delivered(ws_conn, "Stop") /\ feed_killed' = TRUE
     \/ ~ Reachable(ws_conn) /\ UNCHANGED <<up, feed_killed>>
  /\ ws_conn' = NIL
  /\ UNCHANGED <<wire, down, loop, batch, chan, task, sent,
                 view, handler, got>>

(* The button "Change settings/mode". *)
ClickBack ==
  /\ view = "Execution" /\ feed_killed
  /\ view' = "Selector"
  /\ UNCHANGED <<serverVars, feed_killed, ws_conn, handler, got>>

(* The tab is closed: the browser sends a close frame on every connection, *)
(* and the page's signals are gone.                                        *)
CloseTab ==
  /\ view # "Gone"
  /\ view' = "Gone"
  /\ handler' = [s \in Session |->
                   IF handler[s] \in {"none", "opening", "reading"} THEN "gone" ELSE handler[s]]
  /\ up' = [s \in Session |-> IF Reachable(s) THEN Append(up[s], "Close") ELSE up[s]]
  /\ feed_killed' = TRUE
  /\ ws_conn' = NIL
  /\ UNCHANGED <<wire, down, loop, batch, chan, task, sent, got>>

(* The network drops a connection with everything on it. *)
Lose(s) ==
  /\ wire[s] = "open"
  /\ wire' = [wire EXCEPT ![s] = "lost"]
  /\ up' = [up EXCEPT ![s] = << >>]
  /\ down' = [down EXCEPT ![s] = << >>]
  /\ UNCHANGED <<loop, batch, chan, task, sent, pageVars>>

Server ==
  /\ ServerNext \/ \E s \in Session : GeneratorPanics(s)
  /\ UNCHANGED pageVars

User == ClickStart \/ ClickStop \/ ClickBack \/ CloseTab

Next ==
  \/ Server
  \/ User
  \/ \E s \in Session : FailToOpen(s) \/ Open(s) \/ Read(s) \/ Lose(s)

Spec == Init /\ [][Next]_vars

(* The server runs on, and so does the page while a handler has something  *)
(* to read.  Nothing is assumed of the user, of the network or of a panic. *)
FairSpec == Spec /\ ServerFairness /\ WF_vars(\E s \in Session : Read(s))

-----------------------------------------------------------------------------
(* The states of the connections, the tasks and the page have their types. *)
TypeOK ==
  /\ wire \in [Session -> {"none", "open", "lost"}]
  /\ loop \in [Session -> {"none", "select", "done"}]
  /\ task \in [Session -> {"none", "running", "returned", "panicked"}]
  /\ handler \in [Session -> {"none", "opening", "reading", "returned", "failed", "gone"}]
  /\ up \in [Session -> Seq({"Start", "Stop", "Ack", "Close"})]
  /\ down \in [Session -> Seq(Seq(-1..Completed))]
  /\ batch \in [Session -> Seq(0..Completed)]
  /\ chan \in [Session -> Seq(0..Completed)]
  /\ got \in [Session -> Seq(-1..Completed)]
  /\ sent \in [Session -> 0..Completed + 1]
  /\ view \in {"Selector", "Execution", "Gone"}
  /\ ws_conn \in Session \cup {NIL}
  /\ \A s \in Session : /\ Len(chan[s]) <= ChannelSize
                        /\ Len(batch[s]) < BatchSize

(* While a simulation is connected, what the page has processed, what is on *)
(* its way, the batch and the channel are, one after the other, all that    *)
(* the task has sent: in order, nothing lost and nothing twice, and         *)
(* Completed after everything else.                                         *)
PipelineInOrder ==
  \A s \in Session :
    wire[s] = "open" /\ loop[s] = "select" =>
      LET out  == got[s] \o FlattenSeq(down[s])
          kept == IF Completed \in Range(out) THEN << >> ELSE batch[s]
      IN  out \o kept \o chan[s] = [i \in 1..sent[s] |-> i - 1]

(* While the page holds the sending half of a connection it has not yet     *)
(* answered on it, so that no simulation is answered twice.                 *)
AnsweredOnce ==
  ws_conn # NIL => Range(up[ws_conn]) \cap {"Stop", "Ack"} = {}

(* What is left when the user has clicked for the last time.  MaxSessions   *)
(* bounds the clicks, so that this says of every simulation what leads-to   *)
(* would, at a fraction of TLC's time.                                      *)

(* No generating task stays behind: it returns, or panics, once the loop is *)
(* gone at the latest; it never waits for ever on a full channel.           *)
TasksEnd == <>[](\A s \in Session : task[s] # "running")

(* A simulation told to stop, or acknowledged, hears of it and closes its   *)
(* feed on the page; and a feed that has returned leaves no loop behind on  *)
(* the server, unless the network lost the close frame.                     *)
AnsweredFeedsEnd ==
  <>[](\A s \in Session :
         /\ Range(up[s]) \cap {"Stop", "Ack"} # {} => loop[s] = "done"
         /\ loop[s] = "done" => handler[s] # "reading"
         /\ handler[s] = "returned" => loop[s] = "done" \/ wire[s] = "lost")

(* A simulation that has run to its end tells the page so, unless it was    *)
(* ended, disconnected or left before.                                      *)
CompletionArrives ==
  <>[](\A s \in Session :
         task[s] = "returned" => \/ Completed \in Range(got[s])
                                \/ wire[s] = "lost" \/ loop[s] = "done" \/ view = "Gone")

(* The server closes a connection as "simulation complete" when it gets     *)
(* Ack: Ack is sent only to a simulation that has sent Completed.           *)
AckMeansComplete ==
  \A s \in Session : "Ack" \in Range(up[s]) => Completed \in Range(got[s])

(* When every feed has ended, and one of them with an error after its       *)
(* simulation had completed, the page lets its user start again: it is on   *)
(* the selector, offers to go there, or has a connection in its slot, so    *)
(* that Stop makes it offer to go there.                                    *)
FailureLeavesAWayOut ==
  /\ view # "Gone"
  /\ \E s \in Session : handler[s] = "failed" /\ Completed \in Range(got[s])
  /\ \A s \in Session : handler[s] \notin {"opening", "reading"}
  => view = "Selector" \/ feed_killed \/ ws_conn # NIL
=============================================================================
