------------------------------ MODULE WsServer ------------------------------
(***************************************************************************)
(* The server side of the simulation's WebSockets,                         *)
(* backend/src/route_handlers/sockets.rs: for every connection a loop that *)
(* selects between the client's messages and a bounded channel, and the    *)
(* task that generates orders into that channel.  The client is WsPage.    *)
(***************************************************************************)
EXTENDS Integers, Sequences, SequencesExt

CONSTANTS MaxSessions,   \* bound on the connections one page opens
          Orders,        \* total_objects of a Start message
          BatchSize,     \* BATCH_SIZE
          ChannelSize    \* the capacity of the channel

ASSUME SizesArePositive ==
  /\ {MaxSessions, Orders} \subseteq Nat
  /\ {BatchSize, ChannelSize} \subseteq Nat \ {0}

Session == 1..MaxSessions

(* What a simulation sends: a snapshot, the updates of each order, and the  *)
(* word that it is complete.  A frame to the client is a sequence of these. *)
Snapshot == 0
Completed == Orders + 1
RateLimitExceeded == -1
CloseFrame == << >>

VARIABLES
  wire,    \* the connection: "none" before it is open, "open", "lost"
  up,      \* messages on their way to the server
  down,    \* frames on their way to the client
  loop,    \* handle_socket: "none", "select", or "done" after its break
  batch,   \* updates kept back to be sent together
  chan,    \* the channel from the generating task to the loop
  task,    \* process_start_message: "none", "running", "returned", "panicked"
  sent     \* how many messages it has put into the channel

serverVars == <<wire, up, down, loop, batch, chan, task, sent>>

ServerInit ==
  /\ wire = [s \in Session |-> "none"]
  /\ up = [s \in Session |-> << >>]
  /\ down = [s \in Session |-> << >>]
  /\ loop = [s \in Session |-> "none"]
  /\ batch = [s \in Session |-> << >>]
  /\ chan = [s \in Session |-> << >>]
  /\ task = [s \in Session |-> "none"]
  /\ sent = [s \in Session |-> 0]

(* The frames reach the client if there still is a connection. *)
Send(s, frames) ==
  down' = IF wire[s] = "open" THEN [down EXCEPT ![s] = @ \o frames] ELSE down

(* break: the batch and the receiving half of the channel are dropped. *)
Break(s) ==
  /\ loop' = [loop EXCEPT ![s] = "done"]
  /\ batch' = [batch EXCEPT ![s] = << >>]
  /\ chan' = [chan EXCEPT ![s] = << >>]

(* The client's next message is taken off the connection. *)
Receive(s, msg) ==
  /\ loop[s] = "select"
  /\ up[s] # << >> /\ Head(up[s]) = msg
  /\ up' = [up EXCEPT ![s] = Tail(@)]

-----------------------------------------------------------------------------
(* The receiver branch of the loop. *)

(* Start within the limits: the order count is recorded, the task spawned. *)
Admit(s) ==
  /\ Receive(s, "Start")
  /\ task' = [task EXCEPT ![s] = "running"]
  /\ UNCHANGED <<wire, down, loop, batch, chan, sent>>

(* Start when would_exceed_limit returns an error of any kind. *)
Refuse(s) ==
  /\ Receive(s, "Start")
  /\ Send(s, << <<RateLimitExceeded>>, CloseFrame >>)
  /\ Break(s)
  /\ UNCHANGED <<wire, task, sent>>

(* Start when record_orders fails: no frame tells the client. *)
FailToRecord(s) ==
  /\ Receive(s, "Start")
  /\ Break(s)
  /\ UNCHANGED <<wire, down, task, sent>>

ReceiveAnswer_StaysOpen(s) ==
  /\ \E msg \in {"Stop", "Ack"} : Receive(s, msg)
  /\ Send(s, << CloseFrame >>)
  /\ UNCHANGED <<wire, loop, batch, chan, task, sent>>

(* Stop and Ack: the connection is closed with a close frame. *)
ReceiveAnswer(s) ==
  /\ \E msg \in {"Stop", "Ack"} : Receive(s, msg)
  /\ Send(s, << CloseFrame >>)
  /\ Break(s)
  /\ UNCHANGED <<wire, task, sent>>

(* The client's own close frame. *)
ReceiveClose(s) ==
  /\ Receive(s, "Close")
  /\ Break(s)
  /\ UNCHANGED <<wire, down, task, sent>>

FromClient(s) ==
  Admit(s) \/ Refuse(s) \/ FailToRecord(s) \/ ReceiveAnswer(s) \/ ReceiveClose(s)

-----------------------------------------------------------------------------
(* The channel branch of the loop. *)

(* A snapshot and the word of completion are sent at once, and an update    *)
(* with the batch that it fills.                                            *)
AtOnce(msg) == msg \in {Snapshot, Completed}
Fills(kept) == Len(kept) + 1 >= BatchSize

(* The frames that go out when msg arrives while kept is the batch. *)
Frames_ForgetRest(kept, msg) ==
  IF AtOnce(msg) THEN << <<msg>> >>
  ELSE IF Fills(kept) THEN << Append(kept, msg) >> ELSE << >>
Frames_EitherOr(kept, msg) ==
  IF AtOnce(msg) THEN IF msg = Completed /\ kept # << >> THEN << kept >> ELSE << <<msg>> >>
  ELSE IF Fills(kept) THEN << Append(kept, msg) >> ELSE << >>
Frames(kept, msg) ==
  IF AtOnce(msg) THEN IF msg = Completed /\ kept # << >> THEN << kept, <<msg>> >> ELSE << <<msg>> >>
  ELSE IF Fills(kept) THEN << Append(kept, msg) >> ELSE << >>

(* The batch afterwards: it is not cleared when the simulation completes. *)
Kept_NeverCleared(kept, msg) ==
  IF AtOnce(msg) THEN kept ELSE Append(kept, msg)
Kept(kept, msg) ==
  IF AtOnce(msg) THEN kept ELSE IF Fills(kept) THEN << >> ELSE Append(kept, msg)

(* A message of the task is batched or sent; a send that fails ends the    *)
(* loop.                                                                   *)
Forward(s) ==
  /\ loop[s] = "select"
  /\ chan[s] # << >>
  /\ LET msg    == Head(chan[s])
         frames == Frames(batch[s], msg)
     IN  IF frames # << >> /\ wire[s] # "open"
         THEN Break(s) /\ UNCHANGED down
         ELSE /\ Send(s, frames)
              /\ batch' = [batch EXCEPT ![s] = Kept(@, msg)]
              /\ chan' = [chan EXCEPT ![s] = Tail(@)]
              /\ UNCHANGED loop
  /\ UNCHANGED <<wire, up, task, sent>>

-----------------------------------------------------------------------------
(* process_start_message. *)

Generate_WaitForRoom(s) ==
  /\ task[s] = "running"
  /\ loop[s] = "select" /\ Len(chan[s]) < ChannelSize
  /\ chan' = [chan EXCEPT ![s] = Append(@, sent[s])]
  /\ sent' = [sent EXCEPT ![s] = @ + 1]
  /\ task' = [task EXCEPT ![s] = IF sent[s] = Completed THEN "returned" ELSE @]
  /\ UNCHANGED <<wire, up, down, loop, batch>>

(* One send of the task: it waits for room in the channel, and panics when *)
(* the receiving half is gone.                                             *)
Generate(s) ==
  /\ task[s] = "running"
  /\ \/ /\ loop[s] = "done"
        /\ task' = [task EXCEPT ![s] = "panicked"]
        /\ UNCHANGED <<chan, sent>>
     \/ /\ loop[s] = "select"
        /\ Len(chan[s]) < ChannelSize
        /\ chan' = [chan EXCEPT ![s] = Append(@, sent[s])]
        /\ sent' = [sent EXCEPT ![s] = @ + 1]
        /\ task' = [task EXCEPT ![s] = IF sent[s] = Completed THEN "returned" ELSE @]
  /\ UNCHANGED <<wire, up, down, loop, batch>>

(* The simulator panics over an order (Simulator) before there is anything  *)
(* to send.  The loop has a sender of its own, so that it does not notice.  *)
GeneratorPanics(s) ==
  /\ task[s] = "running"
  /\ sent[s] < Completed
  /\ task' = [task EXCEPT ![s] = "panicked"]
  /\ UNCHANGED <<wire, up, down, loop, batch, chan, sent>>

ServerNext == \E s \in Session : FromClient(s) \/ Forward(s) \/ Generate(s)

(* The runtime goes on as long as a task can.  That is all the properties   *)
(* need: the work of a simulation is finite, so that no choice of select!   *)
(* or of the scheduler can pass over one task for ever.                     *)
ServerFairness == WF_serverVars(ServerNext)
=============================================================================
