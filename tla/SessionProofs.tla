---------------------------- MODULE SessionProofs ----------------------------
(***************************************************************************)
(* Proofs about what a live simulation goes through.  First WsPage, for    *)
(* every number of sessions and orders and every size of the batch and the *)
(* channel: its types, that the page answers a simulation once, and that   *)
(* it gets the updates in order.  Then RateLimiter, which handle_socket    *)
(* asks and charges before it starts the task, for any callers, addresses  *)
(* and limits: the counters keep their types, a counter that exists        *)
(* expires unless the call that made it was stopped, and a limit is passed *)
(* by no more than the calls that overlap.                                 *)
(***************************************************************************)
EXTENDS WsPage, RateLimiter, FoldLemmas, SequenceTheorems, TLAPS

Message == {"Start", "Stop", "Ack", "Close"}

-----------------------------------------------------------------------------
(* The strengthening of the types.  A session that was never opened has    *)
(* nothing on its connection; a connection carries its Start first, before *)
(* its task runs; and a task counts what it sends.                         *)
Unopened(s) ==
  handler[s] \in {"none", "opening"} =>
    up[s] = << >> /\ loop[s] = "none" /\ task[s] = "none"

StartIsFirst(s) ==
  \A i \in 1..Len(up[s]) : up[s][i] = "Start" => i = 1 /\ task[s] = "none"

TaskCounts(s) ==
  /\ task[s] = "none" => sent[s] = 0
  /\ task[s] = "running" => sent[s] <= Completed

SessionInv == \A s \in Session : Unopened(s) /\ StartIsFirst(s) /\ TaskCounts(s)

Inv == TypeOK /\ SessionInv

-----------------------------------------------------------------------------
(* What the parts of the steps do to the types. *)

LEMMA Numbers ==
  /\ Orders \in Nat /\ Completed \in Nat /\ Completed = Orders + 1
  /\ Completed # Snapshot /\ Snapshot = 0 /\ Completed + 1 \in Nat
  /\ MaxSessions \in Nat
  /\ BatchSize \in Nat \ {0} /\ ChannelSize \in Nat \ {0}
BY SizesArePositive DEF Completed, Snapshot

(* A message taken off the connection is its first; the others move up. *)
LEMMA ReceiveTypes ==
  ASSUME TypeOK, NEW s \in Session, NEW msg, Receive(s, msg)
  PROVE  /\ up' \in [Session -> Seq(Message)]
         /\ loop[s] = "select"
         /\ Len(up[s]) \in Nat /\ Len(up[s]) >= 1 /\ up[s][1] = msg
         /\ Len(up'[s]) = Len(up[s]) - 1
         /\ \A i \in 1..Len(up'[s]) : up'[s][i] = up[s][i + 1]
         /\ \A r \in Session \ {s} : up'[r] = up[r]
<1>1. up \in [Session -> Seq(Message)]
  BY DEF TypeOK, Message
<1>2. loop[s] = "select" /\ up[s] # << >> /\ Head(up[s]) = msg
      /\ up' = [up EXCEPT ![s] = Tail(up[s])]
  BY DEF Receive
<1>3. up[s] \in Seq(Message)
  BY <1>1
<1>4. /\ Tail(up[s]) \in Seq(Message)
      /\ Len(Tail(up[s])) = Len(up[s]) - 1
      /\ \A i \in 1..Len(Tail(up[s])) : Tail(up[s])[i] = up[s][i + 1]
  BY <1>2, <1>3, HeadTailProperties
<1>5. Len(up[s]) \in Nat \ {0}
  BY <1>2, <1>3, EmptySeq
<1>6. Head(up[s]) = up[s][1]
  BY <1>2, <1>3
<1>7. up'[s] = Tail(up[s]) /\ \A r \in Session \ {s} : up'[r] = up[r]
  BY <1>1, <1>2
<1>8. up' \in [Session -> Seq(Message)]
  BY <1>1, <1>2, <1>4
<1> QED
  BY <1>2, <1>4, <1>5, <1>6, <1>7, <1>8

(* A message on its way to the server goes behind those that are. *)
LEMMA DeliveredTypes ==
  ASSUME TypeOK, NEW s \in Session, NEW msg \in Message \ {"Start"}, Delivered(s, msg)
  PROVE  /\ up' \in [Session -> Seq(Message)]
         /\ \A r \in Session : loop[r] # "select" => up'[r] = up[r]
         /\ \A r \in Session \ {s} : up'[r] = up[r]
         /\ \A r \in Session : \A i \in 1..Len(up'[r]) :
              up'[r][i] = "Start" => i \in 1..Len(up[r]) /\ up[r][i] = "Start"
<1>1. up \in [Session -> Seq(Message)]
  BY DEF TypeOK, Message
<1>2. CASE ~ Reachable(s)
  BY <1>1, <1>2 DEF Delivered
<1>3. CASE Reachable(s)
  <2>1. up' = [up EXCEPT ![s] = Append(up[s], msg)] /\ loop[s] = "select"
    BY <1>3 DEF Delivered, Reachable
  <2>2. up[s] \in Seq(Message)
    BY <1>1
  <2>3. /\ Append(up[s], msg) \in Seq(Message)
        /\ Len(Append(up[s], msg)) = Len(up[s]) + 1
        /\ \A i \in 1..Len(up[s]) : Append(up[s], msg)[i] = up[s][i]
        /\ Append(up[s], msg)[Len(up[s]) + 1] = msg
    BY <2>2, AppendProperties
  <2>4. up'[s] = Append(up[s], msg) /\ \A r \in Session \ {s} : up'[r] = up[r]
    BY <1>1, <2>1
  <2>5. up' \in [Session -> Seq(Message)]
    BY <1>1, <2>1, <2>3
  <2>6. Len(up[s]) \in Nat
    BY <2>2, LenProperties
  <2>7. \A i \in 1..Len(up'[s]) :
          up'[s][i] = "Start" => i \in 1..Len(up[s]) /\ up[s][i] = "Start"
    BY <2>3, <2>4, <2>6
  <2> QED
    BY <2>1, <2>4, <2>5, <2>7
<1> QED
  BY <1>2, <1>3

(* Frames of updates reach the client as such. *)
LEMMA SendTypes ==
  ASSUME TypeOK, NEW s \in Session, NEW frames \in Seq(Seq(-1..Completed)), Send(s, frames)
  PROVE  down' \in [Session -> Seq(Seq(-1..Completed))]
<1>1. down \in [Session -> Seq(Seq(-1..Completed))]
  BY DEF TypeOK
<1>2. down[s] \o frames \in Seq(Seq(-1..Completed))
  BY <1>1, ConcatProperties
<1> QED
  BY <1>1, <1>2 DEF Send

(* Dropping the batch and the channel leaves them typed. *)
LEMMA BreakTypes ==
  ASSUME TypeOK, NEW s \in Session, Break(s)
  PROVE  /\ loop' \in [Session -> {"none", "select", "done"}]
         /\ loop'[s] = "done" /\ \A r \in Session \ {s} : loop'[r] = loop[r]
         /\ batch' \in [Session -> Seq(0..Completed)]
         /\ chan' \in [Session -> Seq(0..Completed)]
         /\ \A r \in Session : Len(chan'[r]) <= ChannelSize /\ Len(batch'[r]) < BatchSize
<1>1. << >> \in Seq(0..Completed) /\ Len(<< >>) = 0
  BY EmptySeq
<1>2. /\ chan' = [chan EXCEPT ![s] = << >>] /\ batch' = [batch EXCEPT ![s] = << >>]
      /\ loop' = [loop EXCEPT ![s] = "done"]
  BY DEF Break
<1>3. \A r \in Session : /\ chan'[r] = IF r = s THEN << >> ELSE chan[r]
                         /\ batch'[r] = IF r = s THEN << >> ELSE batch[r]
  BY <1>2 DEF TypeOK
<1>4. \A r \in Session : Len(chan'[r]) <= ChannelSize /\ Len(batch'[r]) < BatchSize
  <2> TAKE r \in Session
  <2>1. Len(chan[r]) <= ChannelSize /\ Len(batch[r]) < BatchSize
    BY DEF TypeOK
  <2>2. 0 <= ChannelSize /\ 0 < BatchSize
    BY Numbers
  <2> QED
    BY <1>1, <1>3, <2>1, <2>2
<1> QED
  BY <1>1, <1>2, <1>4 DEF TypeOK

(* What the batch and a message become: frames, and a batch that is not full. *)
LEMMA FramesTypes ==
  ASSUME NEW kept \in Seq(0..Completed), Len(kept) < BatchSize, NEW msg \in 0..Completed
  PROVE  /\ Frames(kept, msg) \in Seq(Seq(-1..Completed))
         /\ Kept(kept, msg) \in Seq(0..Completed) /\ Len(Kept(kept, msg)) < BatchSize
<1>1. Append(kept, msg) \in Seq(0..Completed) /\ Len(Append(kept, msg)) = Len(kept) + 1
  BY AppendProperties
<1>2. 0..Completed \subseteq -1..Completed
  BY Numbers
<1>3. kept \in Seq(-1..Completed) /\ Append(kept, msg) \in Seq(-1..Completed)
  BY <1>1, <1>2, SeqMonotonic
<1>4. << msg >> \in Seq(-1..Completed)
  BY <1>2
<1>5. << >> \in Seq(Seq(-1..Completed)) /\ << >> \in Seq(0..Completed) /\ Len(<< >>) = 0
  BY EmptySeq
<1>6. \A f, g \in Seq(-1..Completed) :
        << f >> \in Seq(Seq(-1..Completed)) /\ << f, g >> \in Seq(Seq(-1..Completed))
  OBVIOUS
<1>7. Frames(kept, msg) \in Seq(Seq(-1..Completed))
  BY <1>3, <1>4, <1>5, <1>6 DEF Frames, Fills
<1>8. Len(kept) \in Nat
  BY LenProperties
<1>9. Kept(kept, msg) \in Seq(0..Completed)
  BY <1>1, <1>5 DEF Kept, Fills
<1>10. Len(Kept(kept, msg)) < BatchSize
  BY <1>1, <1>5, <1>8, Numbers DEF Kept, Fills
<1> QED
  BY <1>7, <1>9, <1>10

(* A handler takes a frame of numbers, and the rest stays. *)
LEMMA TakeTypes ==
  ASSUME TypeOK, NEW s \in Session, Take(s)
  PROVE  /\ down' \in [Session -> Seq(Seq(-1..Completed))]
         /\ Frame(s) \in Seq(-1..Completed)
         /\ handler[s] = "reading"
<1>1. down \in [Session -> Seq(Seq(-1..Completed))]
  BY DEF TypeOK
<1>2. down[s] # << >> /\ down' = [down EXCEPT ![s] = Tail(down[s])] /\ handler[s] = "reading"
  BY DEF Take
<1>3. Head(down[s]) \in Seq(-1..Completed) /\ Tail(down[s]) \in Seq(Seq(-1..Completed))
  BY <1>1, <1>2, HeadTailProperties
<1> QED
  BY <1>1, <1>2, <1>3 DEF Frame

LEMMA NoteTypes ==
  ASSUME TypeOK, NEW s \in Session, Frame(s) \in Seq(-1..Completed), Note(s)
  PROVE  /\ got' \in [Session -> Seq(-1..Completed)]
         /\ view' \in {"Selector", "Execution", "Gone"}
<1>1. got \in [Session -> Seq(-1..Completed)]
  BY DEF TypeOK
<1>2. got[s] \o Frame(s) \in Seq(-1..Completed)
  BY <1>1, ConcatProperties
<1> QED
  BY <1>1, <1>2 DEF Note, TypeOK

-----------------------------------------------------------------------------
(* Every step of the server keeps the types and what is known of sessions. *)

(* A step that takes a message without starting a task, for any message.   *)
LEMMA TakenMessage ==
  ASSUME SessionInv, TypeOK, NEW s \in Session, NEW msg, Receive(s, msg),
         UNCHANGED <<sent, handler>>,
         \A r \in Session : r # s => loop'[r] = loop[r],
         \/ UNCHANGED task
         \/ msg = "Start" /\ task' = [task EXCEPT ![s] = "running"]
  PROVE  SessionInv'
<1>1. /\ loop[s] = "select"
      /\ Len(up[s]) \in Nat /\ Len(up[s]) >= 1 /\ up[s][1] = msg
      /\ Len(up'[s]) = Len(up[s]) - 1
      /\ \A i \in 1..Len(up'[s]) : up'[s][i] = up[s][i + 1]
      /\ \A r \in Session \ {s} : up'[r] = up[r]
  BY ReceiveTypes
<1>2. handler[s] \notin {"none", "opening"}
  BY <1>1 DEF SessionInv, Unopened
<1>3. \A i \in 1..Len(up'[s]) : up'[s][i] # "Start"
  <2> TAKE i \in 1..Len(up'[s])
  <2>1. i + 1 \in 1..Len(up[s]) /\ i + 1 # 1
    BY <1>1
  <2> QED
    BY <1>1, <2>1 DEF SessionInv, StartIsFirst
<1>4. msg = "Start" => task[s] = "none"
  BY <1>1 DEF SessionInv, StartIsFirst
<1>5. \A r \in Session \ {s} : task'[r] = task[r]
  BY DEF TypeOK
<1>6. TaskCounts(s)'
  <2>1. CASE UNCHANGED task
    BY <2>1 DEF SessionInv, TaskCounts
  <2>2. CASE msg = "Start" /\ task' = [task EXCEPT ![s] = "running"]
    <3>1. task'[s] = "running" /\ sent'[s] = 0
      BY <1>4, <2>2 DEF SessionInv, TaskCounts, TypeOK
    <3>2. Completed' = Completed
      BY DEF Completed
    <3> QED
      BY <3>1, <3>2, Numbers DEF TaskCounts
  <2> QED
    BY <2>1, <2>2
<1>7. Unopened(s)' /\ StartIsFirst(s)'
  BY <1>2, <1>3 DEF Unopened, StartIsFirst
<1>8. \A r \in Session \ {s} : (Unopened(r) /\ StartIsFirst(r) /\ TaskCounts(r))'
  BY <1>1, <1>5 DEF SessionInv, Unopened, StartIsFirst, TaskCounts, Completed
<1> QED
  BY <1>6, <1>7, <1>8 DEF SessionInv

LEMMA FromClientKeepsInv ==
  ASSUME Inv, NEW s \in Session, FromClient(s), UNCHANGED pageVars
  PROVE  Inv'
<1> USE DEF Inv
<1>1. << <<RateLimitExceeded>>, CloseFrame >> \in Seq(Seq(-1..Completed))
      /\ << CloseFrame >> \in Seq(Seq(-1..Completed))
  <2>1. -1 \in -1..Completed
    BY Numbers
  <2>2. << -1 >> \in Seq(-1..Completed) /\ << >> \in Seq(-1..Completed)
    BY <2>1, EmptySeq
  <2> QED
    BY <2>2 DEF RateLimitExceeded, CloseFrame
<1>2. CASE Admit(s)
  <2>1. up' \in [Session -> Seq(Message)]
    BY <1>2, ReceiveTypes DEF Admit
  <2>2. task' \in [Session -> {"none", "running", "returned", "panicked"}]
    BY <1>2 DEF Admit, TypeOK
  <2>3. TypeOK'
    BY <1>2, <2>1, <2>2 DEF Admit, TypeOK, pageVars, Message, Completed
  <2>4. SessionInv'
    BY <1>2, TakenMessage DEF Admit, pageVars
  <2> QED
    BY <2>3, <2>4
<1>3. CASE Refuse(s)
  <2>1. up' \in [Session -> Seq(Message)]
    BY <1>3, ReceiveTypes DEF Refuse
  <2>2. down' \in [Session -> Seq(Seq(-1..Completed))]
    BY <1>1, <1>3, SendTypes DEF Refuse
  <2>3. TypeOK'
    BY <1>3, <2>1, <2>2, BreakTypes DEF Refuse, TypeOK, pageVars, Message, Completed
  <2>4. SessionInv'
    BY <1>3, TakenMessage, BreakTypes DEF Refuse, pageVars
  <2> QED
    BY <2>3, <2>4
<1>4. CASE FailToRecord(s)
  <2>1. up' \in [Session -> Seq(Message)]
    BY <1>4, ReceiveTypes DEF FailToRecord
  <2>2. TypeOK'
    BY <1>4, <2>1, BreakTypes DEF FailToRecord, TypeOK, pageVars, Message, Completed
  <2>3. SessionInv'
    BY <1>4, TakenMessage, BreakTypes DEF FailToRecord, pageVars
  <2> QED
    BY <2>2, <2>3
<1>5. CASE ReceiveAnswer(s)
  <2>1. PICK msg \in {"Stop", "Ack"} : Receive(s, msg)
    BY <1>5 DEF ReceiveAnswer
  <2>2. up' \in [Session -> Seq(Message)]
    BY <2>1, ReceiveTypes
  <2>3. down' \in [Session -> Seq(Seq(-1..Completed))]
    BY <1>1, <1>5, SendTypes DEF ReceiveAnswer
  <2>4. TypeOK'
    BY <1>5, <2>2, <2>3, BreakTypes DEF ReceiveAnswer, TypeOK, pageVars, Message, Completed
  <2>5. SessionInv'
    BY <1>5, <2>1, TakenMessage, BreakTypes DEF ReceiveAnswer, pageVars
  <2> QED
    BY <2>4, <2>5
<1>6. CASE ReceiveClose(s)
  <2>1. up' \in [Session -> Seq(Message)]
    BY <1>6, ReceiveTypes DEF ReceiveClose
  <2>2. TypeOK'
    BY <1>6, <2>1, BreakTypes DEF ReceiveClose, TypeOK, pageVars, Message, Completed
  <2>3. SessionInv'
    BY <1>6, TakenMessage, BreakTypes DEF ReceiveClose, pageVars
  <2> QED
    BY <2>2, <2>3
<1> QED
  BY <1>2, <1>3, <1>4, <1>5, <1>6 DEF FromClient

LEMMA ForwardKeepsInv ==
  ASSUME Inv, NEW s \in Session, Forward(s), UNCHANGED pageVars
  PROVE  Inv'
<1> USE DEF Inv
<1> DEFINE msg == Head(chan[s])
           frames == Frames(batch[s], msg)
<1>1. chan[s] \in Seq(0..Completed) /\ chan[s] # << >> /\ Len(chan[s]) <= ChannelSize
      /\ batch[s] \in Seq(0..Completed) /\ Len(batch[s]) < BatchSize
  BY DEF TypeOK, Forward
<1>2. /\ msg \in 0..Completed /\ Tail(chan[s]) \in Seq(0..Completed)
      /\ Len(Tail(chan[s])) = Len(chan[s]) - 1 /\ Len(chan[s]) \in Nat
  BY <1>1, HeadTailProperties, LenProperties
<1>3. /\ frames \in Seq(Seq(-1..Completed))
      /\ Kept(batch[s], msg) \in Seq(0..Completed) /\ Len(Kept(batch[s], msg)) < BatchSize
  BY <1>1, <1>2, FramesTypes
<1>4. TypeOK'
  <2>1. CASE frames # << >> /\ wire[s] # "open"
    <3>1. Break(s) /\ UNCHANGED down
      BY <2>1 DEF Forward
    <3> QED
      BY <3>1, BreakTypes DEF Forward, TypeOK, pageVars, Completed
  <2>2. CASE ~ (frames # << >> /\ wire[s] # "open")
    <3>1. /\ Send(s, frames) /\ UNCHANGED loop
          /\ batch' = [batch EXCEPT ![s] = Kept(batch[s], msg)]
          /\ chan' = [chan EXCEPT ![s] = Tail(chan[s])]
      BY <2>2 DEF Forward
    <3>2. down' \in [Session -> Seq(Seq(-1..Completed))]
      BY <1>3, <3>1, SendTypes
    <3>3. \A r \in Session : /\ chan'[r] = IF r = s THEN Tail(chan[s]) ELSE chan[r]
                             /\ batch'[r] = IF r = s THEN Kept(batch[s], msg) ELSE batch[r]
      BY <3>1 DEF TypeOK
    <3>4. \A r \in Session : Len(chan'[r]) <= ChannelSize /\ Len(batch'[r]) < BatchSize
      <4> TAKE r \in Session
      <4>1. CASE r = s
        <5>1. chan'[r] = Tail(chan[s]) /\ batch'[r] = Kept(batch[s], msg)
          BY <3>3, <4>1
        <5>2. Len(Tail(chan[s])) <= ChannelSize
          BY <1>1, <1>2, Numbers
        <5> QED
          BY <1>3, <5>1, <5>2
      <4>2. CASE r # s
        BY <3>3, <4>2 DEF TypeOK
      <4> QED
        BY <4>1, <4>2
    <3>5. /\ chan' \in [Session -> Seq(0..Completed)]
          /\ batch' \in [Session -> Seq(0..Completed)]
      BY <1>2, <1>3, <3>1 DEF TypeOK
    <3> QED
      BY <3>1, <3>2, <3>4, <3>5 DEF Forward, TypeOK, pageVars, Completed
  <2> QED
    BY <2>1, <2>2
<1>5. SessionInv'
  <2>1. \A r \in Session : loop'[r] = loop[r] \/ loop[r] = "select"
    <3>1. CASE UNCHANGED loop
      BY <3>1
    <3>2. CASE Break(s)
      BY <3>2, BreakTypes DEF Forward
    <3> QED
      BY <3>1, <3>2 DEF Forward
  <2> QED
    BY <2>1 DEF Forward, pageVars, SessionInv, Unopened, StartIsFirst, TaskCounts, Completed
<1> QED
  BY <1>4, <1>5

LEMMA GenerateKeepsInv ==
  ASSUME Inv, NEW s \in Session, Generate(s), UNCHANGED pageVars
  PROVE  Inv'
<1> USE DEF Inv
<1>1. task[s] = "running" /\ sent[s] \in 0..Completed
  BY Numbers DEF Generate, SessionInv, TaskCounts, TypeOK
<1>2. CASE loop[s] = "done" /\ task' = [task EXCEPT ![s] = "panicked"] /\ UNCHANGED <<chan, sent>>
  <2>1. TypeOK'
    BY <1>2 DEF Generate, TypeOK, pageVars, Completed
  <2>2. \A r \in Session : task'[r] = IF r = s THEN "panicked" ELSE task[r]
    BY <1>2 DEF TypeOK
  <2>3. SessionInv'
    BY <1>1, <1>2, <2>2
       DEF Generate, pageVars, SessionInv, Unopened, StartIsFirst, TaskCounts, Completed
  <2> QED
    BY <2>1, <2>3
<1>3. CASE /\ loop[s] = "select" /\ Len(chan[s]) < ChannelSize
           /\ chan' = [chan EXCEPT ![s] = Append(@, sent[s])]
           /\ sent' = [sent EXCEPT ![s] = @ + 1]
           /\ task' = [task EXCEPT ![s] = IF sent[s] = Completed THEN "returned" ELSE @]
  <2>1. chan[s] \in Seq(0..Completed)
    BY DEF TypeOK
  <2>2. /\ Append(chan[s], sent[s]) \in Seq(0..Completed)
        /\ Len(Append(chan[s], sent[s])) = Len(chan[s]) + 1 /\ Len(chan[s]) \in Nat
    BY <1>1, <2>1, AppendProperties, LenProperties
  <2>3. \A r \in Session :
          /\ chan'[r] = IF r = s THEN Append(chan[s], sent[s]) ELSE chan[r]
          /\ sent'[r] = IF r = s THEN sent[s] + 1 ELSE sent[r]
          /\ task'[r] = IF r # s THEN task[r]
                        ELSE IF sent[s] = Completed THEN "returned" ELSE "running"
    BY <1>1, <1>3 DEF TypeOK
  <2>4. \A r \in Session : Len(chan'[r]) <= ChannelSize
    <3> TAKE r \in Session
    <3>1. CASE r = s
      <4>1. Len(chan'[r]) = Len(chan[s]) + 1
        BY <2>2, <2>3, <3>1
      <4>2. Len(chan[s]) < ChannelSize /\ ChannelSize \in Nat
        BY <1>3, Numbers
      <4> QED
        BY <2>2, <4>1, <4>2
    <3>2. CASE r # s
      BY <2>3, <3>2 DEF TypeOK
    <3> QED
      BY <3>1, <3>2
  <2>5. chan' \in [Session -> Seq(0..Completed)]
    BY <1>3, <2>2 DEF TypeOK
  <2>6. sent[s] + 1 \in 0..Completed + 1
    BY <1>1, Numbers
  <2>7. /\ sent' \in [Session -> 0..Completed + 1]
        /\ task' \in [Session -> {"none", "running", "returned", "panicked"}]
    BY <1>1, <1>3, <2>6 DEF TypeOK
  <2>8. TypeOK'
    BY <1>3, <2>4, <2>5, <2>7 DEF Generate, TypeOK, pageVars, Completed
  <2>9. TaskCounts(s)'
    BY <1>1, <2>3, Numbers DEF TaskCounts, Completed
  <2>10. \A r \in Session : Unopened(r)' /\ StartIsFirst(r)'
    BY <1>1, <1>3, <2>3 DEF Generate, pageVars, SessionInv, Unopened, StartIsFirst
  <2>11. \A r \in Session \ {s} : TaskCounts(r)'
    BY <2>3 DEF SessionInv, TaskCounts, Completed
  <2> QED
    BY <2>8, <2>9, <2>10, <2>11 DEF SessionInv
<1> QED
  BY <1>2, <1>3 DEF Generate

LEMMA PanicKeepsInv ==
  ASSUME Inv, NEW s \in Session, GeneratorPanics(s), UNCHANGED pageVars
  PROVE  Inv'
<1> USE DEF Inv
<1>1. \A r \in Session : task'[r] = IF r = s THEN "panicked" ELSE task[r]
  BY DEF GeneratorPanics, TypeOK
<1>2. TypeOK'
  BY DEF GeneratorPanics, TypeOK, pageVars, Completed
<1>3. SessionInv'
  BY <1>1 DEF GeneratorPanics, pageVars, SessionInv, Unopened, StartIsFirst, TaskCounts, Completed
<1> QED
  BY <1>2, <1>3

-----------------------------------------------------------------------------
(* The same of the page, the user and the network. *)

(* Nothing is known of a session's handler once it runs, so that a step     *)
(* which leaves the server alone but for messages that are not a Start, and *)
(* moves no handler to "opening", keeps what is known.                      *)
LEMMA QuietKeepsSessions ==
  ASSUME Inv, UNCHANGED <<loop, task, sent>>,
         \A r \in Session :
           /\ handler'[r] \in {"none", "opening"} => handler[r] \in {"none", "opening"}
           /\ loop[r] = "none" => up'[r] = << >> \/ up'[r] = up[r]
           /\ \A i \in 1..Len(up'[r]) :
                up'[r][i] = "Start" => i \in 1..Len(up[r]) /\ up[r][i] = "Start"
  PROVE  SessionInv'
<1> SUFFICES ASSUME NEW r \in Session
             PROVE  (Unopened(r) /\ StartIsFirst(r) /\ TaskCounts(r))'
  BY DEF SessionInv
<1>1. Unopened(r)'
  BY DEF Inv, SessionInv, Unopened
<1>2. StartIsFirst(r)'
  BY DEF Inv, SessionInv, StartIsFirst
<1>3. TaskCounts(r)'
  BY DEF Inv, SessionInv, TaskCounts, Completed
<1> QED
  BY <1>1, <1>2, <1>3

LEMMA OpenKeepsInv ==
  ASSUME Inv, NEW s \in Session, Open(s)
  PROVE  Inv'
<1> USE DEF Inv
<1>1. TypeOK'
  <2>1. << "Start" >> \in Seq({"Start", "Stop", "Ack", "Close"})
    OBVIOUS
  <2> QED
    BY <2>1 DEF Open, TypeOK, Completed
<1>2. task[s] = "none"
  BY DEF Open, SessionInv, Unopened
<1>3. /\ up'[s] = << "Start" >> /\ handler'[s] = "reading"
      /\ \A r \in Session \ {s} : up'[r] = up[r] /\ loop'[r] = loop[r] /\ handler'[r] = handler[r]
  BY DEF Open, TypeOK
<1>4. StartIsFirst(s)' /\ Unopened(s)' /\ TaskCounts(s)'
  <2>1. Len(up'[s]) = 1 /\ task'[s] = "none"
    BY <1>2, <1>3 DEF Open
  <2> QED
    BY <1>3, <2>1 DEF StartIsFirst, Unopened, TaskCounts, Open, SessionInv, Completed
<1>5. \A r \in Session \ {s} : StartIsFirst(r)' /\ Unopened(r)' /\ TaskCounts(r)'
  BY <1>3 DEF StartIsFirst, Unopened, TaskCounts, Open, SessionInv, Completed
<1> QED
  BY <1>1, <1>4, <1>5 DEF SessionInv

LEMMA ReadKeepsInv ==
  ASSUME Inv, NEW s \in Session, Read(s)
  PROVE  Inv'
<1> USE DEF Inv
<1>1. CASE ReadUpdates(s)
  <2>1. TypeOK'
    BY <1>1, TakeTypes, NoteTypes DEF ReadUpdates, TypeOK, Note, Completed
  <2> QED
    BY <1>1, <2>1, QuietKeepsSessions DEF ReadUpdates
<1>2. CASE ReadCompleted(s)
  <2>1. up' = up \/ (ws_conn \in Session /\ Delivered(ws_conn, "Ack"))
    BY <1>2 DEF ReadCompleted, TypeOK
  <2>2. /\ up' \in [Session -> Seq(Message)]
        /\ \A r \in Session : loop[r] # "select" => up'[r] = up[r]
        /\ \A r \in Session : \A i \in 1..Len(up'[r]) :
              up'[r][i] = "Start" => i \in 1..Len(up[r]) /\ up[r][i] = "Start"
    <3>1. CASE up' = up
      BY <3>1 DEF TypeOK, Message
    <3>2. CASE ws_conn \in Session /\ Delivered(ws_conn, "Ack")
      <4>1. "Ack" \in Message \ {"Start"}
        BY DEF Message
      <4> QED
        BY <3>2, <4>1, DeliveredTypes
    <3> QED
      BY <2>1, <3>1, <3>2
  <2>3. handler' = handler \/ handler' = [handler EXCEPT ![s] = "failed"]
    BY <1>2 DEF ReadCompleted, Fail
  <2>4. TypeOK'
    <3>1. /\ down' \in [Session -> Seq(Seq(-1..Completed))]
          /\ got' \in [Session -> Seq(-1..Completed)]
          /\ view' \in {"Selector", "Execution", "Gone"}
      BY <1>2, TakeTypes, NoteTypes DEF ReadCompleted
    <3>2. handler' \in [Session -> {"none", "opening", "reading", "returned", "failed", "gone"}]
      BY <2>3 DEF TypeOK
    <3> QED
      BY <1>2, <2>2, <3>1, <3>2 DEF ReadCompleted, TypeOK, Completed, Message
  <2>5. \A r \in Session : handler'[r] = handler[r] \/ handler'[r] = "failed"
    BY <2>3 DEF TypeOK
  <2> QED
    BY <1>2, <2>2, <2>4, <2>5, QuietKeepsSessions DEF ReadCompleted
<1>3. CASE ReadLimitExceeded(s)
  <2>1. TypeOK'
    BY <1>3, TakeTypes DEF ReadLimitExceeded, TypeOK, Fail, Completed
  <2>2. \A r \in Session : handler'[r] = handler[r] \/ handler'[r] = "failed"
    BY <1>3 DEF ReadLimitExceeded, TypeOK, Fail
  <2> QED
    BY <1>3, <2>1, <2>2, QuietKeepsSessions DEF ReadLimitExceeded
<1>4. CASE ReadClose(s)
  <2>1. TypeOK'
    BY <1>4, TakeTypes DEF ReadClose, TypeOK, Return, Completed
  <2>2. \A r \in Session : handler'[r] = handler[r] \/ handler'[r] = "returned"
    BY <1>4 DEF ReadClose, TypeOK, Return
  <2> QED
    BY <1>4, <2>1, <2>2, QuietKeepsSessions DEF ReadClose
<1>5. CASE FeedBreaks(s)
  <2>1. TypeOK'
    BY <1>5 DEF FeedBreaks, serverVars, TypeOK, Return, Fail, Completed
  <2>2. \A r \in Session : handler'[r] = handler[r] \/ handler'[r] \in {"returned", "failed"}
    BY <1>5 DEF FeedBreaks, TypeOK, Return, Fail
  <2> QED
    BY <1>5, <2>1, <2>2, QuietKeepsSessions DEF FeedBreaks, serverVars
<1> QED
  BY <1>1, <1>2, <1>3, <1>4, <1>5 DEF Read

LEMMA CloseTabKeepsInv ==
  ASSUME Inv, CloseTab
  PROVE  Inv'
<1> USE DEF Inv
<1>1. \A r \in Session :
        /\ up'[r] = IF Reachable(r) THEN Append(up[r], "Close") ELSE up[r]
        /\ handler'[r] = IF handler[r] \in {"none", "opening", "reading"} THEN "gone"
                         ELSE handler[r]
  BY DEF CloseTab
<1>2. \A r \in Session :
        /\ Append(up[r], "Close") \in Seq(Message)
        /\ Len(Append(up[r], "Close")) = Len(up[r]) + 1 /\ Len(up[r]) \in Nat
        /\ \A i \in 1..Len(up[r]) : Append(up[r], "Close")[i] = up[r][i]
        /\ Append(up[r], "Close")[Len(up[r]) + 1] = "Close"
  <2> TAKE r \in Session
  <2>1. up[r] \in Seq(Message) /\ "Close" \in Message
    BY DEF TypeOK, Message
  <2> QED
    BY <2>1, AppendProperties, LenProperties
<1>3. TypeOK'
  <2>1. up' \in [Session -> Seq(Message)]
    BY <1>2 DEF CloseTab, TypeOK, Message
  <2>2. handler' \in [Session -> {"none", "opening", "reading", "returned", "failed", "gone"}]
    BY DEF CloseTab, TypeOK
  <2> QED
    BY <2>1, <2>2 DEF CloseTab, TypeOK, Message, Completed
<1>4. \A r \in Session : \A i \in 1..Len(up'[r]) :
        up'[r][i] = "Start" => i \in 1..Len(up[r]) /\ up[r][i] = "Start"
  <2> TAKE r \in Session
  <2>1. CASE Reachable(r)
    <3>1. up'[r] = Append(up[r], "Close")
      BY <1>1, <2>1
    <3>2. \A i \in 1..Len(up'[r]) : i \in 1..Len(up[r]) \/ i = Len(up[r]) + 1
      BY <1>2, <3>1
    <3> QED
      BY <1>2, <3>1, <3>2
  <2>2. CASE ~ Reachable(r)
    BY <1>1, <2>2
  <2> QED
    BY <2>1, <2>2
<1>5. \A r \in Session : /\ handler'[r] \notin {"none", "opening"}
                         /\ loop[r] = "none" => up'[r] = up[r]
  BY <1>1 DEF Reachable, TypeOK
<1> QED
  BY <1>3, <1>4, <1>5, QuietKeepsSessions DEF CloseTab

LEMMA ClickStopKeepsInv ==
  ASSUME Inv, ClickStop
  PROVE  Inv'
<1> USE DEF Inv
<1>1. ws_conn \in Session
  BY DEF ClickStop, TypeOK
<1>2. /\ up' \in [Session -> Seq(Message)]
      /\ \A r \in Session : loop[r] # "select" => up'[r] = up[r]
      /\ \A r \in Session : \A i \in 1..Len(up'[r]) :
            up'[r][i] = "Start" => i \in 1..Len(up[r]) /\ up[r][i] = "Start"
  <2>1. CASE up' = up
    BY <2>1 DEF TypeOK, Message
  <2>2. CASE Delivered(ws_conn, "Stop")
    <3>1. "Stop" \in Message \ {"Start"}
      BY DEF Message
    <3> QED
      BY <1>1, <2>2, <3>1, DeliveredTypes
  <2> QED
    BY <2>1, <2>2 DEF ClickStop
<1>3. TypeOK'
  BY <1>2 DEF ClickStop, TypeOK, Message, Completed
<1> QED
  BY <1>2, <1>3, QuietKeepsSessions DEF ClickStop

LEMMA LoseKeepsInv ==
  ASSUME Inv, NEW s \in Session, Lose(s)
  PROVE  Inv'
<1> USE DEF Inv
<1>1. TypeOK'
  BY EmptySeq DEF Lose, pageVars, TypeOK, Completed
<1>2. \A r \in Session : up'[r] = up[r] \/ up'[r] = << >>
  BY DEF Lose, TypeOK
<1> QED
  BY <1>1, <1>2, QuietKeepsSessions DEF Lose, pageVars

LEMMA InitInv == Init => Inv
<1> SUFFICES ASSUME Init PROVE Inv
  OBVIOUS
<1>1. TypeOK
  BY Numbers, EmptySeq DEF Init, ServerInit, TypeOK
<1>2. SessionInv
  BY DEF Init, ServerInit, SessionInv, Unopened, StartIsFirst, TaskCounts
<1> QED
  BY <1>1, <1>2 DEF Inv

LEMMA StepsKeepInv == Inv /\ [Next]_vars => Inv'
<1> SUFFICES ASSUME Inv, [Next]_vars PROVE Inv'
  OBVIOUS
<1> USE DEF Inv
<1>1. CASE Server
  <2>1. PICK s \in Session : FromClient(s) \/ Forward(s) \/ Generate(s) \/ GeneratorPanics(s)
    BY <1>1 DEF Server, ServerNext
  <2> QED
    BY <1>1, <2>1, FromClientKeepsInv, ForwardKeepsInv, GenerateKeepsInv, PanicKeepsInv DEF Server
<1>2. CASE ClickStart
  <2>1. PICK s \in Session : handler[s] = "none" /\ handler' = [handler EXCEPT ![s] = "opening"]
    BY <1>2 DEF ClickStart
  <2>2. TypeOK'
    BY <1>2, <2>1 DEF ClickStart, serverVars, TypeOK, Completed
  <2>3. \A r \in Session : handler'[r] = handler[r] \/ handler[r] = "none"
    BY <2>1 DEF TypeOK
  <2> QED
    BY <1>2, <2>2, <2>3, QuietKeepsSessions DEF ClickStart, serverVars
<1>3. CASE ClickStop
  BY <1>3, ClickStopKeepsInv
<1>4. CASE ClickBack
  <2>1. TypeOK'
    BY <1>4 DEF ClickBack, serverVars, TypeOK, Completed
  <2> QED
    BY <1>4, <2>1, QuietKeepsSessions DEF ClickBack, serverVars
<1>5. CASE CloseTab
  BY <1>5, CloseTabKeepsInv
<1>6. ASSUME NEW s \in Session, FailToOpen(s) PROVE Inv'
  <2>1. TypeOK'
    BY <1>6 DEF FailToOpen, serverVars, TypeOK, Completed
  <2>2. \A r \in Session : handler'[r] = handler[r] \/ handler'[r] = "failed"
    BY <1>6 DEF FailToOpen, TypeOK
  <2> QED
    BY <1>6, <2>1, <2>2, QuietKeepsSessions DEF FailToOpen, serverVars
<1>7. ASSUME NEW s \in Session, Open(s) PROVE Inv'
  BY <1>7, OpenKeepsInv
<1>8. ASSUME NEW s \in Session, Read(s) PROVE Inv'
  BY <1>8, ReadKeepsInv
<1>9. ASSUME NEW s \in Session, Lose(s) PROVE Inv'
  BY <1>9, LoseKeepsInv
<1>10. CASE UNCHANGED vars
  <2>1. TypeOK'
    BY <1>10 DEF vars, serverVars, pageVars, TypeOK, Completed
  <2> QED
    BY <1>10, <2>1, QuietKeepsSessions DEF vars, serverVars, pageVars
<1> QED
  BY <1>1, <1>2, <1>3, <1>4, <1>5, <1>6, <1>7, <1>8, <1>9, <1>10 DEF Next, User

(* The connections, the tasks and the page have their types, whatever the   *)
(* user, the network and the scheduler do: no simulation sends more than    *)
(* its messages (sockets.rs, process_start_message), the channel holds no   *)
(* more than its capacity, and a batch is sent before it is over full.      *)
THEOREM WsTypeCorrect == Spec => []TypeOK
<1>1. Inv => TypeOK
  BY DEF Inv
<1> QED
  BY InitInv, StepsKeepInv, <1>1, PTL DEF Spec

-----------------------------------------------------------------------------
(* The slot. *)

(* Nothing on a connection answers its simulation. *)
Unanswered(s) == \A i \in 1..Len(up[s]) : up[s][i] \notin {"Stop", "Ack"}
SlotUnanswered == ws_conn # NIL => Unanswered(ws_conn)

LEMMA SlotByIndex ==
  ASSUME TypeOK, SlotUnanswered
  PROVE  AnsweredOnce
<1> SUFFICES ASSUME ws_conn # NIL
             PROVE  Range(up[ws_conn]) \cap {"Stop", "Ack"} = {}
  BY DEF AnsweredOnce
<1>1. up[ws_conn] \in Seq(Message)
  BY DEF TypeOK, Message
<1>2. DOMAIN up[ws_conn] = 1..Len(up[ws_conn])
  BY <1>1, LenProperties
<1> QED
  BY <1>2 DEF Range, Unanswered, SlotUnanswered

(* A step after which the slot is empty, or holds what it held and nothing  *)
(* but old messages are on that connection, keeps the answers apart.        *)
LEMMA SlotKeepsAnswers ==
  ASSUME SlotUnanswered,
         \/ ws_conn' = NIL
         \/ /\ ws_conn' = ws_conn
            /\ ws_conn # NIL => \A i \in 1..Len(up'[ws_conn]) :
                 \E j \in 1..Len(up[ws_conn]) : up'[ws_conn][i] = up[ws_conn][j]
  PROVE  SlotUnanswered'
BY DEF SlotUnanswered, Unanswered

LEMMA StepsKeepAnswers ==
  ASSUME Inv, SlotUnanswered, [Next]_vars
  PROVE  SlotUnanswered'
<1> USE DEF Inv
<1> DEFINE OldMessages(s) ==
             \A i \in 1..Len(up'[s]) : \E j \in 1..Len(up[s]) : up'[s][i] = up[s][j]
<1>1. ASSUME NEW s \in Session, FromClient(s), UNCHANGED pageVars
      PROVE  SlotUnanswered'
  <2>1. PICK msg : Receive(s, msg)
    BY <1>1 DEF FromClient, Admit, Refuse, FailToRecord, ReceiveAnswer, ReceiveClose
  <2>2. /\ Len(up[s]) \in Nat /\ Len(up'[s]) = Len(up[s]) - 1
        /\ \A i \in 1..Len(up'[s]) : up'[s][i] = up[s][i + 1]
        /\ \A r \in Session \ {s} : up'[r] = up[r]
    BY <2>1, ReceiveTypes
  <2>3. OldMessages(s)
    <3> TAKE i \in 1..Len(up'[s])
    <3>1. i + 1 \in 1..Len(up[s])
      BY <2>2
    <3> QED
      BY <2>2, <3>1
  <2>4. \A r \in Session : OldMessages(r)
    BY <2>2, <2>3
  <2>5. ws_conn' = ws_conn /\ (ws_conn # NIL => OldMessages(ws_conn))
    BY <1>1, <2>4 DEF pageVars, TypeOK
  <2> QED
    BY <2>5, SlotKeepsAnswers
<1>2. ASSUME NEW s \in Session, Open(s)
      PROVE  SlotUnanswered'
  <2>1. ws_conn' = s /\ up'[s] = << "Start" >>
    BY <1>2 DEF Open, TypeOK
  <2>2. Unanswered(ws_conn)'
    BY <2>1 DEF Unanswered
  <2> QED
    BY <2>2 DEF SlotUnanswered
<1>3. ASSUME NEW s \in Session, Lose(s)
      PROVE  SlotUnanswered'
  <2>1. \A r \in Session : up'[r] = up[r] \/ (up'[r] = << >> /\ Len(up'[r]) = 0)
    BY <1>3 DEF Lose, TypeOK
  <2>2. \A r \in Session : OldMessages(r)
    BY <2>1
  <2>3. ws_conn' = ws_conn /\ (ws_conn # NIL => OldMessages(ws_conn))
    BY <1>3, <2>2 DEF Lose, pageVars, TypeOK
  <2> QED
    BY <2>3, SlotKeepsAnswers
<1>4. CASE ws_conn' = NIL
  BY <1>4, SlotKeepsAnswers
<1>5. CASE UNCHANGED <<up, ws_conn>>
  BY <1>5, SlotKeepsAnswers
<1>6. CASE Server
  BY <1>1, <1>5, <1>6 DEF Server, ServerNext, Forward, Generate, GeneratorPanics, pageVars
<1>7. CASE User
  BY <1>4, <1>5, <1>7 DEF User, ClickStart, ClickStop, ClickBack, CloseTab, serverVars
<1>8. ASSUME NEW s \in Session, FailToOpen(s) \/ Read(s)
      PROVE  SlotUnanswered'
  BY <1>4, <1>5, <1>8
     DEF FailToOpen, Read, ReadUpdates, ReadCompleted, ReadLimitExceeded, ReadClose,
         FeedBreaks, serverVars
<1>9. CASE UNCHANGED vars
  BY <1>5, <1>9 DEF vars, serverVars, pageVars
<1> QED
  BY <1>2, <1>3, <1>6, <1>7, <1>8, <1>9 DEF Next

(* While the page holds the sending half of a connection neither Stop nor   *)
(* Ack is under way on it, so no simulation is answered twice, although all *)
(* handlers share one slot (ws_handler.rs, the branch of                    *)
(* SimulationCompleted; simulator.rs, Action::Stop): who answers empties it. *)
THEOREM NoSecondAnswer == Spec => []AnsweredOnce
<1>1. Init => SlotUnanswered
  BY DEF Init, SlotUnanswered
<1>2. Inv /\ SlotUnanswered /\ [Next]_vars => Inv' /\ SlotUnanswered'
  BY StepsKeepInv, StepsKeepAnswers
<1>3. Inv /\ SlotUnanswered => AnsweredOnce
  BY SlotByIndex DEF Inv
<1> QED
  BY InitInv, <1>1, <1>2, <1>3, PTL DEF Spec

-----------------------------------------------------------------------------
(* The order of the updates. *)

Update == -1..Completed

(* The first n messages of a simulation. *)
Counting(n) == [i \in 1..n |-> i - 1]

(* The last batch is not cleared when it is sent with Completed: it is      *)
(* waiting only until then.                                                 *)
Waiting(out, kept) == IF Completed \in Range(out) THEN << >> ELSE kept
InOrder(out, kept, held, n) == (out \o Waiting(out, kept)) \o held = Counting(n)

(* What a session's page has got and will get. *)
Out(s) == got[s] \o FlattenSeq(down[s])

LEMMA CountingIsSeq ==
  ASSUME NEW n \in Nat
  PROVE  /\ Len(Counting(n)) = n
         /\ \A i \in 1..n : Counting(n)[i] = i - 1
BY DEF Counting

(* What comes before a message is as long as its number. *)
LEMMA NumberIsPosition ==
  ASSUME NEW S, NEW w \in Seq(S), NEW held \in Seq(S), NEW n \in Nat,
         w \o held = Counting(n)
  PROVE  /\ Len(w) \in Nat
         /\ \A i \in 1..Len(w) : w[i] = i - 1
         /\ held # << >> => Head(held) = Len(w)
<1>1. /\ Len(w) \in Nat /\ Len(held) \in Nat
      /\ Len(w \o held) = Len(w) + Len(held)
      /\ \A i \in 1..Len(w) + Len(held) :
           (w \o held)[i] = IF i <= Len(w) THEN w[i] ELSE held[i - Len(w)]
  BY ConcatProperties, LenProperties
<1>2. n = Len(w) + Len(held) /\ \A i \in 1..n : (w \o held)[i] = i - 1
  BY <1>1, CountingIsSeq
<1>3. ASSUME NEW i \in 1..Len(w) PROVE w[i] = i - 1
  BY <1>1, <1>2
<1>4. ASSUME held # << >> PROVE Head(held) = Len(w)
  <2>1. Head(held) = held[1] /\ Len(held) >= 1
    BY <1>1, <1>4, EmptySeq, HeadTailProperties
  <2>2. Len(w) + 1 \in 1..n /\ ~ (Len(w) + 1 <= Len(w)) /\ (Len(w) + 1) - Len(w) = 1
    BY <1>1, <1>2, <2>1
  <2>3. (w \o held)[Len(w) + 1] = held[1]
    BY <1>1, <1>2, <2>2
  <2>4. (w \o held)[Len(w) + 1] = (Len(w) + 1) - 1
    BY <1>2, <2>2
  <2> QED
    BY <1>1, <2>1, <2>3, <2>4
<1> QED
  BY <1>1, <1>3, <1>4

LEMMA OrderedIsCounted ==
  ASSUME NEW out \in Seq(Update), NEW kept \in Seq(0..Completed),
         NEW held \in Seq(0..Completed), NEW n \in Nat, InOrder(out, kept, held, n)
  PROVE  \A i \in 1..Len(out) : out[i] >= 0
<1>1. Waiting(out, kept) \in Seq(Update) /\ held \in Seq(Update)
  <2>1. 0..Completed \subseteq Update
    BY Numbers DEF Update
  <2> QED
    BY <2>1, SeqMonotonic, EmptySeq DEF Waiting
<1> DEFINE rest == Waiting(out, kept)
           w == out \o rest
<1> HIDE DEF rest
<1>2. /\ w \in Seq(Update) /\ Len(out) \in Nat /\ Len(rest) \in Nat
      /\ Len(w) = Len(out) + Len(rest)
      /\ \A i \in 1..Len(out) : w[i] = out[i] /\ i \in 1..Len(w)
  BY <1>1, ConcatProperties, LenProperties DEF rest
<1>3. w \o held = Counting(n)
  BY DEF InOrder, rest
<1> HIDE DEF w
<1>4. \A i \in 1..Len(w) : w[i] = i - 1
  BY <1>1, <1>2, <1>3, NumberIsPosition
<1> QED
  BY <1>2, <1>4

(* Frames on a connection: what they carry goes to the end. *)
LEMMA OneFrame ==
  ASSUME NEW ss \in Seq(Seq(Update)), NEW f \in Seq(Update)
  PROVE  FlattenSeq(ss \o << f >>) = FlattenSeq(ss) \o f
<1>1. ss \o << f >> = Append(ss, f)
  BY AppendIsConcat
<1> QED
  BY <1>1, FlattenAppend

LEMMA TwoFrames ==
  ASSUME NEW ss \in Seq(Seq(Update)), NEW f \in Seq(Update), NEW g \in Seq(Update)
  PROVE  FlattenSeq(ss \o << f, g >>) = (FlattenSeq(ss) \o f) \o g
<1>1. ss \o << f, g >> = Append(Append(ss, f), g)
  OBVIOUS
<1>2. Append(ss, f) \in Seq(Seq(Update))
  BY AppendProperties
<1>3. FlattenSeq(Append(Append(ss, f), g)) = FlattenSeq(Append(ss, f)) \o g
  BY <1>2, FlattenAppend
<1> QED
  BY <1>1, <1>3, FlattenAppend

LEMMA LastIsIn ==
  ASSUME NEW S, NEW w \in Seq(S), NEW x \in S
  PROVE  x \in Range(w \o << x >>)
<1>1. w \o << x >> = Append(w, x)
  BY AppendIsConcat
<1>2. /\ Append(w, x) \in Seq(S) /\ Len(Append(w, x)) = Len(w) + 1 /\ Len(w) \in Nat
      /\ Append(w, x)[Len(w) + 1] = x
  BY AppendProperties, LenProperties
<1>3. DOMAIN Append(w, x) = 1..Len(w) + 1
  BY <1>2, LenProperties
<1> QED
  BY <1>1, <1>2, <1>3 DEF Range

(* The task puts the next message behind the others. *)
LEMMA GenerateOrder ==
  ASSUME NEW out \in Seq(Update), NEW kept \in Seq(0..Completed),
         NEW held \in Seq(0..Completed), NEW n \in 0..Completed, InOrder(out, kept, held, n)
  PROVE  InOrder(out, kept, Append(held, n), n + 1)
<1> DEFINE w == out \o Waiting(out, kept)
<1>1. 0..Completed \subseteq Update /\ n \in Update /\ n \in Nat
  BY Numbers DEF Update
<1>2. kept \in Seq(Update) /\ held \in Seq(Update)
  BY <1>1, SeqMonotonic
<1>3. w \in Seq(Update) /\ w \o held = Counting(n)
  BY <1>2, ConcatProperties, EmptySeq DEF InOrder, Waiting
<1> HIDE DEF w
<1>4. w \o (held \o << n >>) = (w \o held) \o << n >>
  <2>1. Regroups(Update) /\ << n >> \in Seq(Update)
    BY <1>1, JoinsRegroup
  <2> QED
    BY <1>2, <1>3, <2>1 DEF Regroups
<1>5. held \o << n >> = Append(held, n) /\ Counting(n) \o << n >> = Counting(n + 1)
  <2>1. Counting(n) \in Seq(Update)
    BY <1>2, <1>3, ConcatProperties
  <2>2. Counting(n + 1) \in Seq(Int)
    BY <1>1 DEF Counting
  <2>3. /\ Counting(n) \o << n >> \in Seq(Update)
        /\ Len(Counting(n) \o << n >>) = n + 1
        /\ \A i \in 1..n : (Counting(n) \o << n >>)[i] = Counting(n)[i]
        /\ (Counting(n) \o << n >>)[n + 1] = n
    <3>1. Counting(n) \o << n >> = Append(Counting(n), n)
      BY <1>1, <2>1, AppendIsConcat
    <3> QED
      BY <1>1, <2>1, <3>1, CountingIsSeq, AppendProperties
  <2>4. Counting(n) \o << n >> \in Seq(Int)
    BY <2>3, Numbers, SeqMonotonic DEF Update
  <2>5. \A i \in 1..n + 1 : (Counting(n) \o << n >>)[i] = Counting(n + 1)[i]
    BY <1>1, <2>3, CountingIsSeq
  <2>6. Counting(n) \o << n >> = Counting(n + 1)
    BY <1>1, <2>2, <2>3, <2>4, <2>5, CountingIsSeq, SeqEqual
  <2> QED
    BY <1>1, <1>2, <2>6, AppendIsConcat
<1> QED
  BY <1>3, <1>4, <1>5 DEF InOrder, w

(* The loop passes a message on: the number of the message says how much    *)
(* went before it, so that a snapshot finds nothing before it and nothing   *)
(* was passed on after Completed.                                           *)
LEMMA ForwardOrder ==
  ASSUME NEW out \in Seq(Update), NEW kept \in Seq(0..Completed),
         NEW held \in Seq(0..Completed), held # << >>, NEW n \in Nat,
         InOrder(out, kept, held, n), NEW ss \in Seq(Seq(Update)), NEW front \in Seq(Update),
         out = front \o FlattenSeq(ss)
  PROVE  InOrder(front \o FlattenSeq(ss \o Frames(kept, Head(held))),
                 Kept(kept, Head(held)), Tail(held), n)
<1> DEFINE msg == Head(held)
           after == front \o FlattenSeq(ss \o Frames(kept, msg))
<1>1. 0..Completed \subseteq Update /\ Completed \in Update /\ 0 \in Update /\ Completed > 0
  BY Numbers DEF Update
<1>2. kept \in Seq(Update) /\ held \in Seq(Update)
  BY <1>1, SeqMonotonic
<1>3. msg \in 0..Completed /\ msg \in Update /\ Tail(held) \in Seq(Update)
  BY <1>1, <1>2, HeadTailProperties DEF msg
<1>4. held = << msg >> \o Tail(held) /\ << msg >> \in Seq(Update)
  BY <1>2, <1>3 DEF msg
<1>5. Regroups(Update)
  BY JoinsRegroup
<1>6. FlattenSeq(ss) \in Seq(Update)
  BY FlattenIsSeq
<1> DEFINE w == out \o Waiting(out, kept)
<1>7. w \in Seq(Update) /\ w \o held = Counting(n)
  BY <1>2, ConcatProperties, EmptySeq DEF InOrder, Waiting
<1> HIDE DEF w, msg, after
<1>8. Len(w) \in Nat /\ msg = Len(w) /\ \A i \in 1..Len(w) : w[i] = i - 1
  BY <1>2, <1>7, NumberIsPosition DEF msg
<1>9. Completed \notin Range(out) /\ w = out \o kept
  <2>1. ASSUME Completed \in Range(out) PROVE FALSE
    <3>1. PICK i \in 1..Len(out) : out[i] = Completed
      BY <2>1, LenProperties DEF Range
    <3>2. w = out
      BY <2>1, ConcatEmptySeq DEF Waiting, w
    <3>3. Completed = i - 1 /\ i <= msg
      BY <1>8, <3>1, <3>2
    <3> QED
      BY <1>3, <3>3, Numbers
  <2> QED
    BY <2>1 DEF Waiting, w
<1>10. (w \o << msg >>) \o Tail(held) = Counting(n)
  <2>1. (w \o << msg >>) \o Tail(held) = w \o (<< msg >> \o Tail(held))
    BY <1>3, <1>4, <1>5, <1>7 DEF Regroups
  <2> QED
    BY <1>4, <1>7, <2>1
<1>11. after \o Waiting(after, Kept(kept, msg)) = w \o << msg >>
  <2>1. CASE msg = Snapshot
    <3>1. w = << >>
      BY <1>7, <1>8, <2>1, EmptySeq DEF Snapshot
    <3>2. out = << >> /\ kept = << >>
      <4>1. Len(out) \in Nat /\ Len(kept) \in Nat /\ Len(w) = Len(out) + Len(kept)
        BY <1>2, <1>9, ConcatProperties, LenProperties
      <4> QED
        BY <1>2, <3>1, <4>1, EmptySeq
    <3>3. Frames(kept, msg) = << << msg >> >> /\ Kept(kept, msg) = << >>
      BY <2>1, <3>2 DEF Frames, Kept, AtOnce, Fills
    <3>4. after = front \o (FlattenSeq(ss) \o << msg >>)
      BY <1>4, <3>3, OneFrame DEF after
    <3>5. after = out \o << msg >>
      BY <1>4, <1>5, <1>6, <3>4 DEF Regroups
    <3>6. Waiting(after, << >>) = << >> /\ after \in Seq(Update)
      BY <1>4, <3>5, ConcatProperties DEF Waiting
    <3> QED
      BY <3>1, <3>2, <3>3, <3>5, <3>6, ConcatEmptySeq
  <2>2. CASE msg = Completed
    <3>1. after = w \o << msg >>
      <4>1. CASE kept # << >>
        <5>1. Frames(kept, msg) = << kept, << msg >> >>
          BY <2>2, <4>1, Numbers DEF Frames, AtOnce
        <5>2. after = front \o ((FlattenSeq(ss) \o kept) \o << msg >>)
          <6>1. PICK last \in Seq(Update) : last = << msg >>
            BY <1>4
          <6>2. FlattenSeq(ss \o << kept, last >>) = (FlattenSeq(ss) \o kept) \o last
            BY <1>2, TwoFrames
          <6> QED
            BY <5>1, <6>1, <6>2 DEF after
        <5>3. FlattenSeq(ss) \o kept \in Seq(Update)
          BY <1>2, <1>6, ConcatProperties
        <5>4. after = (front \o (FlattenSeq(ss) \o kept)) \o << msg >>
          BY <1>4, <1>5, <5>2, <5>3 DEF Regroups
        <5>5. front \o (FlattenSeq(ss) \o kept) = out \o kept
          BY <1>2, <1>5, <1>6 DEF Regroups
        <5> QED
          BY <1>9, <5>4, <5>5
      <4>2. CASE kept = << >>
        <5>1. Frames(kept, msg) = << << msg >> >>
          BY <2>2, <4>2, Numbers DEF Frames, AtOnce
        <5>2. after = front \o (FlattenSeq(ss) \o << msg >>)
          BY <1>4, <5>1, OneFrame DEF after
        <5>3. after = out \o << msg >>
          BY <1>4, <1>5, <1>6, <5>2 DEF Regroups
        <5> QED
          BY <1>9, <4>2, <5>3, ConcatEmptySeq
      <4> QED
        BY <4>1, <4>2
    <3>2. after \in Seq(Update) /\ Completed \in Range(after)
      BY <1>4, <1>7, <2>2, <3>1, LastIsIn, ConcatProperties
    <3> QED
      BY <3>1, <3>2, ConcatEmptySeq DEF Waiting
  <2>3. CASE msg \notin {Snapshot, Completed}
    <3>1. Append(kept, msg) = kept \o << msg >> /\ Append(kept, msg) \in Seq(Update)
      BY <1>2, <1>3, AppendIsConcat, AppendProperties
    <3>2. out \o Append(kept, msg) = w \o << msg >>
      <4>1. (out \o kept) \o << msg >> = out \o (kept \o << msg >>)
        BY <1>2, <1>4, <1>5 DEF Regroups
      <4> QED
        BY <1>9, <3>1, <4>1
    <3>3. CASE Len(kept) + 1 >= BatchSize
      <4>1. Frames(kept, msg) = << Append(kept, msg) >> /\ Kept(kept, msg) = << >>
        BY <2>3, <3>3 DEF Frames, Kept, AtOnce, Fills
      <4>2. after = front \o (FlattenSeq(ss) \o Append(kept, msg))
        BY <3>1, <4>1, OneFrame DEF after
      <4>3. after = out \o Append(kept, msg)
        BY <1>5, <1>6, <3>1, <4>2 DEF Regroups
      <4>4. after \in Seq(Update) /\ Waiting(after, << >>) = << >>
        BY <3>1, <4>3, ConcatProperties DEF Waiting
      <4> QED
        BY <3>2, <4>1, <4>3, <4>4, ConcatEmptySeq
    <3>4. CASE ~ (Len(kept) + 1 >= BatchSize)
      <4>1. Frames(kept, msg) = << >> /\ Kept(kept, msg) = Append(kept, msg)
        BY <2>3, <3>4 DEF Frames, Kept, AtOnce, Fills
      <4>2. after = out
        BY <4>1, ConcatEmptySeq DEF after
      <4> QED
        BY <1>9, <3>2, <4>1, <4>2 DEF Waiting
    <3> QED
      BY <3>3, <3>4
  <2> QED
    BY <2>1, <2>2, <2>3
<1> QED
  BY <1>10, <1>11 DEF InOrder, after, msg

(* The inductive invariant: every connected session is in order, and one    *)
(* whose connection has not been opened has nothing anywhere.               *)
Blank(s) ==
  handler[s] \in {"none", "opening"} =>
    got[s] = << >> /\ down[s] = << >> /\ batch[s] = << >> /\ chan[s] = << >>
Ordered(s) == Reachable(s) => InOrder(Out(s), batch[s], chan[s], sent[s])
OrderInv == \A s \in Session : Blank(s) /\ Ordered(s)

LEMMA OutTypes ==
  ASSUME TypeOK, NEW s \in Session
  PROVE  /\ got[s] \in Seq(Update) /\ down[s] \in Seq(Seq(Update))
         /\ FlattenSeq(down[s]) \in Seq(Update) /\ Out(s) \in Seq(Update)
         /\ batch[s] \in Seq(0..Completed) /\ chan[s] \in Seq(0..Completed) /\ sent[s] \in Nat
<1>1. got[s] \in Seq(Update) /\ down[s] \in Seq(Seq(Update))
  BY DEF TypeOK, Update
<1>2. FlattenSeq(down[s]) \in Seq(Update)
  BY <1>1, FlattenIsSeq
<1>3. Out(s) \in Seq(Update)
  BY <1>1, <1>2, ConcatProperties DEF Out
<1> QED
  BY <1>1, <1>2, <1>3 DEF TypeOK

(* A session that is left alone, or cut off, stays in order. *)
LEMMA QuietKeepsOrder ==
  ASSUME OrderInv, NEW r \in Session,
         got'[r] = got[r], down'[r] = down[r], batch'[r] = batch[r], chan'[r] = chan[r],
         sent'[r] = sent[r], Reachable(r)' => Reachable(r),
         handler'[r] \in {"none", "opening"} => handler[r] \in {"none", "opening"}
  PROVE  (Blank(r) /\ Ordered(r))'
BY DEF OrderInv, Blank, Ordered, Out, InOrder, Waiting, Completed

LEMMA CutOffIsInOrder ==
  ASSUME Inv, NEW r \in Session, ~ Reachable(r)',
         handler'[r] \notin {"none", "opening"}
  PROVE  (Blank(r) /\ Ordered(r))'
BY DEF Blank, Ordered

LEMMA FromClientKeepsOrder ==
  ASSUME Inv, OrderInv, NEW s \in Session, FromClient(s), UNCHANGED pageVars
  PROVE  OrderInv'
<1>1. loop[s] = "select" /\ UNCHANGED <<wire, sent>>
  BY DEF FromClient, Admit, Refuse, FailToRecord, ReceiveAnswer, ReceiveClose, Receive
<1>2. handler'[s] \notin {"none", "opening"} /\ UNCHANGED <<got, handler>>
  BY <1>1 DEF Inv, SessionInv, Unopened, pageVars
<1>3. CASE Admit(s)
  BY <1>1, <1>2, <1>3, QuietKeepsOrder DEF Admit, Reachable, OrderInv
<1>4. CASE Break(s) /\ \A r \in Session \ {s} : down'[r] = down[r]
  <2>1. /\ loop'[s] = "done"
        /\ \A r \in Session \ {s} :
             loop'[r] = loop[r] /\ batch'[r] = batch[r] /\ chan'[r] = chan[r]
    BY <1>4 DEF Break, Inv, TypeOK
  <2>2. (Blank(s) /\ Ordered(s))'
    BY <1>2, <2>1, CutOffIsInOrder DEF Reachable
  <2>3. ASSUME NEW r \in Session \ {s} PROVE (Blank(r) /\ Ordered(r))'
    BY <1>1, <1>2, <1>4, <2>1, QuietKeepsOrder DEF Reachable
  <2> QED
    BY <2>2, <2>3 DEF OrderInv
<1>5. \A r \in Session \ {s} : down'[r] = down[r]
  BY DEF FromClient, Admit, Refuse, FailToRecord, ReceiveAnswer, ReceiveClose, Send, Inv, TypeOK
<1> QED
  BY <1>3, <1>4, <1>5 DEF FromClient, Refuse, FailToRecord, ReceiveAnswer, ReceiveClose

LEMMA ForwardKeepsOrder ==
  ASSUME Inv, OrderInv, NEW s \in Session, Forward(s), UNCHANGED pageVars
  PROVE  OrderInv'
<1> DEFINE msg == Head(chan[s])
           frames == Frames(batch[s], msg)
<1>1. loop[s] = "select" /\ chan[s] # << >> /\ UNCHANGED <<wire, sent>>
  BY DEF Forward
<1>2. handler'[s] \notin {"none", "opening"} /\ UNCHANGED <<got, handler>>
  BY <1>1 DEF Inv, SessionInv, Unopened, pageVars
<1>3. \A r \in Session \ {s} :
        /\ down'[r] = down[r] /\ loop'[r] = loop[r]
        /\ batch'[r] = batch[r] /\ chan'[r] = chan[r]
  BY DEF Forward, Send, Break, Inv, TypeOK
<1>4. ASSUME NEW r \in Session \ {s} PROVE (Blank(r) /\ Ordered(r))'
  BY <1>1, <1>2, <1>3, QuietKeepsOrder DEF Reachable
<1>5. (Blank(s) /\ Ordered(s))'
  <2>1. CASE ~ Reachable(s)'
    BY <1>2, <2>1, CutOffIsInOrder
  <2>2. CASE Reachable(s)'
    <3>1. wire[s] = "open" /\ loop'[s] = "select"
      BY <1>1, <2>2 DEF Reachable
    <3>2. ~ Break(s)
      BY <3>1 DEF Break, Inv, TypeOK
    <3>3. /\ down'[s] = down[s] \o frames
          /\ batch'[s] = Kept(batch[s], msg) /\ chan'[s] = Tail(chan[s])
      BY <3>1, <3>2 DEF Forward, Send, Inv, TypeOK
    <3>4. InOrder(Out(s), batch[s], chan[s], sent[s])
      BY <1>1, <3>1 DEF OrderInv, Ordered, Reachable
    <3>5. InOrder(got[s] \o FlattenSeq(down[s] \o frames),
                  Kept(batch[s], msg), Tail(chan[s]), sent[s])
      BY <1>1, <3>4, OutTypes, ForwardOrder DEF Inv, Out
    <3>6. InOrder(Out(s)', batch'[s], chan'[s], sent'[s])
      BY <1>1, <1>2, <3>3, <3>5 DEF Out
    <3> QED
      BY <1>2, <3>6 DEF Blank, Ordered, InOrder, Waiting, Completed
  <2> QED
    BY <2>1, <2>2
<1> QED
  BY <1>4, <1>5 DEF OrderInv

LEMMA GenerateKeepsOrder ==
  ASSUME Inv, OrderInv, NEW s \in Session, Generate(s), UNCHANGED pageVars
  PROVE  OrderInv'
<1>1. UNCHANGED <<wire, loop, down, batch, got, handler>>
  BY DEF Generate, pageVars
<1>2. CASE UNCHANGED <<chan, sent>>
  BY <1>1, <1>2, QuietKeepsOrder DEF Reachable, OrderInv
<1>3. CASE /\ chan' = [chan EXCEPT ![s] = Append(@, sent[s])]
           /\ sent' = [sent EXCEPT ![s] = @ + 1]
  <2>1. /\ chan'[s] = Append(chan[s], sent[s]) /\ sent'[s] = sent[s] + 1
        /\ \A r \in Session \ {s} : chan'[r] = chan[r] /\ sent'[r] = sent[r]
    BY <1>3 DEF Inv, TypeOK
  <2>2. sent[s] \in 0..Completed /\ handler[s] \notin {"none", "opening"}
    BY Numbers DEF Generate, Inv, SessionInv, Unopened, TaskCounts, TypeOK
  <2>3. ASSUME Reachable(s) PROVE InOrder(Out(s), batch[s], Append(chan[s], sent[s]), sent[s] + 1)
    <3>1. InOrder(Out(s), batch[s], chan[s], sent[s])
      BY <2>3 DEF OrderInv, Ordered
    <3> QED
      BY <2>2, <3>1, OutTypes, GenerateOrder DEF Inv
  <2>4. (Blank(s) /\ Ordered(s))'
    BY <1>1, <2>1, <2>2, <2>3 DEF Blank, Ordered, Out, Reachable, InOrder, Waiting, Completed
  <2>5. ASSUME NEW r \in Session \ {s} PROVE (Blank(r) /\ Ordered(r))'
    BY <1>1, <2>1, QuietKeepsOrder DEF Reachable
  <2> QED
    BY <2>4, <2>5 DEF OrderInv
<1> QED
  BY <1>2, <1>3 DEF Generate

(* What the page takes off the connection it adds to what it has. *)
LEMMA TakeKeepsOut ==
  ASSUME Inv, NEW s \in Session, Take(s), got'[s] = got[s] \o Frame(s)
  PROVE  Out(s)' = Out(s)
<1>1. got[s] \in Seq(Update) /\ down[s] \in Seq(Seq(Update)) /\ down[s] # << >>
  BY OutTypes DEF Inv, Take
<1>2. Frame(s) \in Seq(Update) /\ Tail(down[s]) \in Seq(Seq(Update)) /\ down'[s] = Tail(down[s])
  BY <1>1, HeadTailProperties DEF Frame, Take, Inv, TypeOK
<1>3. FlattenSeq(down[s]) = Frame(s) \o FlattenSeq(Tail(down[s]))
  BY <1>1, FlattenHeadTail DEF Frame
<1>4. FlattenSeq(Tail(down[s])) \in Seq(Update)
  BY <1>2, FlattenIsSeq
<1>5. (got[s] \o Frame(s)) \o FlattenSeq(Tail(down[s]))
        = got[s] \o (Frame(s) \o FlattenSeq(Tail(down[s])))
  <2>1. Regroups(Update)
    BY JoinsRegroup
  <2> QED
    BY <1>1, <1>2, <1>4, <2>1 DEF Regroups
<1> QED
  BY <1>2, <1>3, <1>5 DEF Out

LEMMA MiddleIsIn ==
  ASSUME NEW a \in Seq(Update), NEW x \in Update, NEW b \in Seq(Update)
  PROVE  \E i \in 1..Len(a \o (<< x >> \o b)) : (a \o (<< x >> \o b))[i] = x
<1>1. /\ << x >> \o b \in Seq(Update) /\ Len(a) \in Nat /\ Len(b) \in Nat
      /\ Len(<< x >> \o b) = 1 + Len(b) /\ (<< x >> \o b)[1] = x
  BY ConcatProperties, LenProperties
<1>2. PICK c \in Seq(Update) : c = << x >> \o b
  BY <1>1
<1>3. /\ Len(a \o c) = Len(a) + Len(c)
      /\ \A i \in 1..Len(a) + Len(c) : (a \o c)[i] = IF i <= Len(a) THEN a[i] ELSE c[i - Len(a)]
  BY ConcatProperties
<1>4. Len(a) + 1 \in 1..Len(a) + Len(c) /\ ~ (Len(a) + 1 <= Len(a))
      /\ (Len(a) + 1) - Len(a) = 1
  BY <1>1, <1>2
<1> QED
  BY <1>1, <1>2, <1>3, <1>4

LEMMA ReadKeepsOrder ==
  ASSUME Inv, OrderInv, NEW s \in Session, Read(s)
  PROVE  OrderInv'
<1>1. UNCHANGED <<wire, loop, batch, chan, sent>>
  BY DEF Read, ReadUpdates, ReadCompleted, ReadLimitExceeded, ReadClose, FeedBreaks, serverVars
<1>2. handler[s] = "reading"
  BY DEF Read, ReadUpdates, ReadCompleted, ReadLimitExceeded, ReadClose, FeedBreaks, Take
<1>3. handler'[s] \in {"reading", "failed", "returned"}
      /\ \A r \in Session \ {s} :
           handler'[r] = handler[r] /\ got'[r] = got[r] /\ down'[r] = down[r]
  <2>1. handler' \in {handler, [handler EXCEPT ![s] = "failed"], [handler EXCEPT ![s] = "returned"]}
    BY DEF Read, ReadUpdates, ReadCompleted, ReadLimitExceeded, ReadClose, FeedBreaks, Fail, Return
  <2>2. got' \in {got, [got EXCEPT ![s] = @ \o Frame(s)]}
    BY DEF Read, ReadUpdates, ReadCompleted, ReadLimitExceeded, ReadClose, FeedBreaks, Note
  <2>3. down' \in {down, [down EXCEPT ![s] = Tail(@)]}
    BY DEF Read, ReadUpdates, ReadCompleted, ReadLimitExceeded, ReadClose, FeedBreaks, Take,
           serverVars
  <2> QED
    BY <1>2, <2>1, <2>2, <2>3 DEF Inv, TypeOK
<1>4. ASSUME NEW r \in Session \ {s} PROVE (Blank(r) /\ Ordered(r))'
  BY <1>1, <1>3, QuietKeepsOrder DEF Reachable
<1>5. ASSUME Out(s)' = Out(s) PROVE (Blank(s) /\ Ordered(s))'
  BY <1>1, <1>3, <1>5 DEF OrderInv, Blank, Ordered, Reachable, InOrder, Waiting, Completed
<1>6. CASE ReadUpdates(s) \/ ReadCompleted(s)
  <2>1. Take(s) /\ got'[s] = got[s] \o Frame(s)
    BY <1>6 DEF ReadUpdates, ReadCompleted, Note, Inv, TypeOK
  <2> QED
    BY <1>4, <1>5, <2>1, TakeKeepsOut DEF OrderInv
<1>7. CASE ReadClose(s)
  <2>1. Take(s) /\ got'[s] = got[s] /\ Frame(s) = << >>
    BY <1>7 DEF ReadClose, CloseFrame
  <2>2. got'[s] = got[s] \o Frame(s)
    BY <2>1, OutTypes, ConcatEmptySeq DEF Inv
  <2> QED
    BY <1>4, <1>5, <2>1, <2>2, TakeKeepsOut DEF OrderInv
<1>8. CASE FeedBreaks(s)
  <2>1. UNCHANGED <<got, down>>
    BY <1>8 DEF FeedBreaks, serverVars
  <2>2. Out(s)' = Out(s)
    BY <2>1 DEF Out
  <2> QED
    BY <1>4, <1>5, <2>2 DEF OrderInv
<1>9. CASE ReadLimitExceeded(s)
  <2>1. ASSUME Reachable(s) PROVE FALSE
    <3>1. InOrder(Out(s), batch[s], chan[s], sent[s])
      BY <2>1 DEF OrderInv, Ordered
    <3>2. got[s] \in Seq(Update) /\ down[s] \in Seq(Seq(Update)) /\ down[s] # << >>
      BY <1>9, OutTypes DEF Inv, ReadLimitExceeded, Take
    <3>3. Head(down[s]) = << -1 >> /\ << -1 >> \in Seq(Update)
          /\ Tail(down[s]) \in Seq(Seq(Update))
      BY <1>9, <3>2, HeadTailProperties DEF ReadLimitExceeded, Frame, RateLimitExceeded
    <3>4. FlattenSeq(down[s]) = << -1 >> \o FlattenSeq(Tail(down[s]))
          /\ FlattenSeq(Tail(down[s])) \in Seq(Update)
      BY <3>2, <3>3, FlattenHeadTail, FlattenIsSeq
    <3>5. -1 \in Update /\ got[s] \in Seq(Update) /\ FlattenSeq(Tail(down[s])) \in Seq(Update)
      BY <3>2, <3>4, Numbers DEF Update
    <3>6. PICK i \in 1..Len(Out(s)) : Out(s)[i] = -1
      <4>1. PICK later \in Seq(Update) : later = FlattenSeq(Tail(down[s]))
        BY <3>5
      <4>2. PICK i \in 1..Len(got[s] \o (<< -1 >> \o later)) : (got[s] \o (<< -1 >> \o later))[i] = -1
        BY <3>5, MiddleIsIn
      <4>3. Out(s) = got[s] \o (<< -1 >> \o later)
        BY <3>4, <4>1 DEF Out
      <4> QED
        BY <4>2, <4>3
    <3>7. \A j \in 1..Len(Out(s)) : Out(s)[j] >= 0
      BY <3>1, OutTypes, OrderedIsCounted DEF Inv
    <3> QED
      BY <3>6, <3>7
  <2>2. ~ Reachable(s)'
    BY <1>1, <2>1 DEF Reachable
  <2>3. (Blank(s) /\ Ordered(s))'
    BY <1>3, <2>2, CutOffIsInOrder
  <2> QED
    BY <1>4, <2>3 DEF OrderInv
<1> QED
  BY <1>6, <1>7, <1>8, <1>9 DEF Read

LEMMA OpenKeepsOrder ==
  ASSUME Inv, OrderInv, NEW s \in Session, Open(s)
  PROVE  OrderInv'
<1>1. /\ UNCHANGED <<down, batch, chan, sent, got>>
      /\ handler[s] = "opening" /\ handler'[s] = "reading"
      /\ \A r \in Session \ {s} :
           wire'[r] = wire[r] /\ loop'[r] = loop[r] /\ handler'[r] = handler[r]
  BY DEF Open, Inv, TypeOK
<1>2. got[s] = << >> /\ down[s] = << >> /\ batch[s] = << >> /\ chan[s] = << >> /\ sent[s] = 0
  BY <1>1 DEF OrderInv, Blank, Inv, SessionInv, Unopened, TaskCounts
<1>3. InOrder(<< >>, << >>, << >>, 0)
  BY DEF InOrder, Waiting, Counting
<1>4. Out(s) = << >>
  BY <1>2, FlattenEmpty DEF Out
<1>5. (Blank(s) /\ Ordered(s))'
  BY <1>1, <1>2, <1>3, <1>4 DEF Blank, Ordered, Out, InOrder, Waiting, Completed
<1>6. ASSUME NEW r \in Session \ {s} PROVE (Blank(r) /\ Ordered(r))'
  BY <1>1, <1>6, QuietKeepsOrder DEF Reachable
<1> QED
  BY <1>5, <1>6 DEF OrderInv

LEMMA LoseKeepsOrder ==
  ASSUME Inv, OrderInv, NEW s \in Session, Lose(s)
  PROVE  OrderInv'
<1>1. /\ UNCHANGED <<loop, batch, chan, sent, got, handler>>
      /\ wire'[s] = "lost" /\ down'[s] = << >>
      /\ \A r \in Session \ {s} : wire'[r] = wire[r] /\ down'[r] = down[r]
  BY DEF Lose, pageVars, Inv, TypeOK
<1>2. (Blank(s) /\ Ordered(s))'
  BY <1>1 DEF OrderInv, Blank, Ordered, Reachable
<1>3. ASSUME NEW r \in Session \ {s} PROVE (Blank(r) /\ Ordered(r))'
  BY <1>1, <1>3, QuietKeepsOrder DEF Reachable
<1> QED
  BY <1>2, <1>3 DEF OrderInv

LEMMA StepsKeepOrder ==
  ASSUME Inv, OrderInv, [Next]_vars
  PROVE  OrderInv'
<1>1. CASE Server
  <2>1. PICK s \in Session : FromClient(s) \/ Forward(s) \/ Generate(s) \/ GeneratorPanics(s)
    BY <1>1 DEF Server, ServerNext
  <2>2. CASE GeneratorPanics(s)
    BY <1>1, <2>2, QuietKeepsOrder DEF Server, GeneratorPanics, pageVars, Reachable, OrderInv
  <2> QED
    BY <1>1, <2>1, <2>2, FromClientKeepsOrder, ForwardKeepsOrder, GenerateKeepsOrder DEF Server
<1>2. ASSUME UNCHANGED <<wire, loop, down, batch, chan, sent, got>>,
             \A r \in Session :
               handler'[r] \in {"none", "opening"} => handler[r] \in {"none", "opening"}
      PROVE  OrderInv'
  BY <1>2, QuietKeepsOrder DEF OrderInv, Reachable
<1>3. CASE User
  <2>1. UNCHANGED <<wire, loop, down, batch, chan, sent, got>>
    BY <1>3 DEF User, ClickStart, ClickStop, ClickBack, CloseTab, serverVars
  <2>2. ASSUME NEW r \in Session, handler'[r] \in {"none", "opening"}
        PROVE  handler[r] \in {"none", "opening"}
    BY <1>3, <2>2 DEF User, ClickStart, ClickStop, ClickBack, CloseTab, Inv, TypeOK
  <2> QED
    BY <1>2, <2>1, <2>2
<1>4. ASSUME NEW s \in Session, FailToOpen(s) PROVE OrderInv'
  BY <1>2, <1>4 DEF FailToOpen, serverVars, Inv, TypeOK
<1>5. ASSUME NEW s \in Session, Open(s) PROVE OrderInv'
  BY <1>5, OpenKeepsOrder
<1>6. ASSUME NEW s \in Session, Read(s) PROVE OrderInv'
  BY <1>6, ReadKeepsOrder
<1>7. ASSUME NEW s \in Session, Lose(s) PROVE OrderInv'
  BY <1>7, LoseKeepsOrder
<1>8. CASE UNCHANGED vars
  BY <1>2, <1>8 DEF vars, serverVars, pageVars
<1> QED
  BY <1>1, <1>3, <1>4, <1>5, <1>6, <1>7, <1>8 DEF Next

(* Between the task and the page nothing is lost, doubled or overtaken      *)
(* while the session is connected (sockets.rs, handle_socket: the batch     *)
(* kept back, flushed when it is full and before Completed).                *)
THEOREM UpdatesInOrder == Spec => []PipelineInOrder
<1>1. Init => OrderInv
  BY DEF Init, ServerInit, OrderInv, Blank, Ordered, Reachable
<1>2. Inv /\ OrderInv /\ [Next]_vars => Inv' /\ OrderInv'
  BY StepsKeepInv, StepsKeepOrder
<1>3. OrderInv => PipelineInOrder
  BY DEF OrderInv, Ordered, Reachable, InOrder, Out, Waiting, Counting, PipelineInOrder
<1> QED
  BY InitInv, <1>1, <1>2, <1>3, PTL DEF Spec

-----------------------------------------------------------------------------
(* The rate limiter. *)

(* The two commands that make a key and give it an expiry belong to one    *)
(* call: while a caller is between them the key exists, has no expiry yet, *)
(* and no other caller is between the same two commands.  Without it       *)
(* ExpiryIsComing is not inductive: the key might expire under a second    *)
(* setter, or be marked by one whose key is gone.                          *)
OneSetter ==
  \A k \in Key, c \in Caller :
    Setter(c, k) => /\ count[k] > 0 /\ k \notin expiring
                    /\ \A d \in Caller : Setter(d, k) => d = c

LimiterInv == LimiterTypeOK /\ ExpiryIsComing /\ OneSetter

USE GlobalIsNoAddress, LimitsAreNaturals

(* A caller that is not idle has an address and a number of orders. *)
LEMMA CallHasOrders ==
  ASSUME LimiterTypeOK, NEW c \in Caller, At(c) # "idle"
  PROVE  /\ call[c] \in [at : Step \cup Outcome, ip : Address, orders : 1..MaxOrders]
         /\ call[c].ip \in Key /\ call[c].ip # Global
         /\ call[c].orders \in Nat /\ call[c].orders > 0
BY DEF LimiterTypeOK, NoCall, At, Key

(* Initially there are no keys and no calls. *)
LEMMA InitEstablishes == LimiterInit => LimiterInv
BY DEF LimiterInit, LimiterInv, LimiterTypeOK, ExpiryIsComing, OneSetter, Setter, At, NoCall, Key

(* A step that moves one caller, leaves the keys alone and is not about an *)
(* expiry keeps the invariant, if it abandons no key unnoticed.            *)
LEMMA MoveKeeps ==
  ASSUME LimiterInv, NEW c \in Caller, At(c) # "idle",
         NEW at \in Outcome \cup Step, at \notin {"expire_ip", "expire_global"},
         To(c, at), UNCHANGED <<count, expiring>>,
         unseen' \in [Key -> Nat],
         orphaned' = orphaned \cup Abandoned(c)
  PROVE  LimiterInv'
<1>1. call[c] \in [at : Step \cup Outcome, ip : Address, orders : 1..MaxOrders]
  BY CallHasOrders DEF LimiterInv
<1>2. call' = [call EXCEPT ![c] = [call[c] EXCEPT !.at = at]]
  BY <1>1 DEF To
<1>3. LimiterTypeOK'
  <2>1. Abandoned(c) \subseteq Key
    BY <1>1 DEF Abandoned, Key
  <2> QED BY <1>1, <1>2, <2>1 DEF LimiterInv, LimiterTypeOK
<1>4. \A d \in Caller, k \in Key : Setter(d, k)' => Setter(d, k) /\ d # c
  BY <1>1, <1>2 DEF LimiterInv, LimiterTypeOK, Setter, At, NoCall, Step, Outcome
<1>5. \A d \in Caller, k \in Key : Setter(d, k) => d = c \/ Setter(d, k)'
  BY <1>1, <1>2 DEF LimiterInv, LimiterTypeOK, Setter, At
<1>6. \A k \in Key : Setter(c, k) => k \in Abandoned(c)
  BY <1>1 DEF Setter, Abandoned, At, Key
<1>7. ExpiryIsComing'
  BY <1>5, <1>6 DEF LimiterInv, ExpiryIsComing
<1>8. OneSetter'
  BY <1>4 DEF LimiterInv, OneSetter
<1> QED BY <1>3, <1>7, <1>8 DEF LimiterInv

(* A caller that is not between the two commands abandons no key. *)
LEMMA NothingAbandoned ==
  ASSUME NEW c \in Caller, At(c) \notin {"expire_ip", "expire_global"}
  PROVE  orphaned = orphaned \cup Abandoned(c)
BY DEF Abandoned

(* would_exceed_limit charges nothing. *)
LEMMA CheckKeeps ==
  ASSUME LimiterInv, NEW c \in Caller, CheckAddress(c) \/ CheckGlobal(c)
  PROVE  LimiterInv'
<1> DEFINE k == IF At(c) = "check_ip" THEN call[c].ip ELSE Global
           next == IF At(c) = "check_ip" THEN "check_global" ELSE "allowed"
<1>1. At(c) \in {"check_ip", "check_global"} /\ Check(c, k, next)
  BY DEF CheckAddress, CheckGlobal
<1>2. k \in Key /\ call[c].orders \in Nat
  BY <1>1, CallHasOrders DEF LimiterInv, Key
<1>3. unseen' \in [Key -> Nat]
  <2>1. unseen \in [Key -> Nat] BY DEF LimiterInv, LimiterTypeOK
  <2> QED BY <1>1, <1>2, <2>1 DEF Check
<1>4. PICK at \in {"refused", next} : To(c, at)
  BY <1>1 DEF Check
<1>5. orphaned' = orphaned \cup Abandoned(c)
  BY <1>1, NothingAbandoned DEF Check
<1>6. UNCHANGED <<count, expiring>>
  BY <1>1 DEF Check
<1>7. at \in Outcome \cup Step /\ at \notin {"expire_ip", "expire_global"}
  BY <1>4 DEF Outcome, Step
<1> HIDE DEF k, next
<1> QED BY <1>1, <1>3, <1>4, <1>5, <1>6, <1>7, MoveKeeps

(* INCR of the counter under k, whether the answer arrives or is lost: the *)
(* call goes on to set the expiry, or the key is orphaned, exactly when    *)
(* the command has made the key.                                           *)
LEMMA IncrKeeps ==
  ASSUME LimiterInv, NEW c \in Caller, NEW k \in Key, NEW at,
         \/ At(c) = "incr_ip" /\ k = call[c].ip /\ at \in {"expire_ip", "incr_global", "failed"}
         \/ At(c) = "incr_global" /\ k = Global /\ at \in {"expire_global", "recorded", "failed"},
         count' = [count EXCEPT ![k] = @ + call[c].orders],
         To(c, at),
         IF at = "failed"
         THEN orphaned' = IF count[k] = 0 THEN orphaned \cup {k} ELSE orphaned
         ELSE /\ UNCHANGED orphaned
              /\ at \in {"expire_ip", "expire_global"} <=> count'[k] = call[c].orders,
         UNCHANGED <<expiring, unseen>>
  PROVE  LimiterInv'
<1>1. /\ call[c] \in [at : Step \cup Outcome, ip : Address, orders : 1..MaxOrders]
      /\ call[c].orders \in Nat /\ call[c].orders > 0
      /\ call[c].ip # Global
  BY CallHasOrders DEF LimiterInv
<1>2. call' = [call EXCEPT ![c] = [call[c] EXCEPT !.at = at]]
  BY <1>1 DEF To
<1>3. /\ count \in [Key -> Nat]
      /\ \A j \in Key : count'[j] = IF j = k THEN count[k] + call[c].orders ELSE count[j]
  BY DEF LimiterInv, LimiterTypeOK
<1>4. count[k] = 0 <=> count'[k] = call[c].orders
  BY <1>1, <1>3
<1>5. LimiterTypeOK'
  <2>1. call' \in [Caller -> {NoCall} \cup
                     [at : Step \cup Outcome, ip : Address, orders : 1..MaxOrders]]
    BY <1>1, <1>2 DEF LimiterInv, LimiterTypeOK, Step, Outcome
  <2>2. count' \in [Key -> Nat]
    BY <1>1, <1>3
  <2>3. expiring' \subseteq {j \in Key : count'[j] > 0}
    BY <1>1, <1>3 DEF LimiterInv, LimiterTypeOK
  <2> QED BY <2>1, <2>2, <2>3 DEF LimiterInv, LimiterTypeOK
<1>6. \A d \in Caller, j \in Key :
        Setter(d, j)' <=> IF d = c THEN j = k /\ at \in {"expire_ip", "expire_global"}
                                  ELSE Setter(d, j)
  BY <1>1, <1>2 DEF LimiterInv, LimiterTypeOK, Setter, At, NoCall, Key
<1>7. \A j \in Key : ~ Setter(c, j)
  BY DEF Setter
<1>8. ExpiryIsComing'
  <2> SUFFICES ASSUME NEW j \in Key, count'[j] > 0
               PROVE  \/ j \in expiring \cup orphaned'
                      \/ \E d \in Caller : Setter(d, j)'
    BY DEF ExpiryIsComing
  <2>1. CASE j = k /\ count[k] = 0
    BY <1>4, <1>6, <2>1
  <2>2. CASE count[j] > 0
    <3>1. \/ j \in expiring \cup orphaned
          \/ \E d \in Caller : Setter(d, j)
      BY <2>2 DEF LimiterInv, ExpiryIsComing
    <3> QED BY <1>6, <1>7, <3>1
  <2> QED BY <1>3, <2>1, <2>2
<1>9. OneSetter'
  <2> SUFFICES ASSUME NEW j \in Key, NEW d \in Caller, Setter(d, j)'
               PROVE  /\ count'[j] > 0 /\ j \notin expiring
                      /\ \A e \in Caller : Setter(e, j)' => e = d
    BY DEF OneSetter
  <2>1. CASE d = c
    <3>1. j = k /\ count[k] = 0
      BY <1>4, <1>6, <2>1
    <3>2. k \notin expiring /\ \A e \in Caller : ~ Setter(e, k)
      BY <3>1 DEF LimiterInv, LimiterTypeOK, OneSetter
    <3> QED BY <1>1, <1>3, <1>6, <2>1, <3>1, <3>2
  <2>2. CASE d # c
    <3>1. /\ Setter(d, j) /\ count[j] > 0 /\ j \notin expiring
          /\ \A e \in Caller : Setter(e, j) => e = d
      BY <1>6, <2>2 DEF LimiterInv, OneSetter
    <3>2. ~ (Setter(c, j)')
      BY <1>4, <1>6, <3>1, <1>3
    <3> QED BY <1>1, <1>3, <1>6, <3>1, <3>2
  <2> QED BY <2>1, <2>2
<1> QED BY <1>5, <1>8, <1>9 DEF LimiterInv

(* EXPIRE by the one caller that has made the key. *)
LEMMA SetExpiryKeeps ==
  ASSUME LimiterInv, NEW c \in Caller, NEW k \in Key, Setter(c, k),
         NEW at \in {"incr_global", "recorded"}, SetExpiry(c, k, at)
  PROVE  LimiterInv'
<1>1. call[c] \in [at : Step \cup Outcome, ip : Address, orders : 1..MaxOrders]
  BY CallHasOrders DEF LimiterInv, Setter
<1>2. call' = [call EXCEPT ![c] = [call[c] EXCEPT !.at = at]]
  BY <1>1 DEF To, SetExpiry
<1>3. /\ count[k] > 0 /\ k \notin expiring
      /\ \A d \in Caller : Setter(d, k) => d = c
  BY DEF LimiterInv, OneSetter
<1>4. LimiterTypeOK'
  BY <1>1, <1>2, <1>3 DEF LimiterInv, LimiterTypeOK, SetExpiry, Step, Outcome
<1>5. \A d \in Caller, j \in Key : Setter(d, j)' <=> d # c /\ Setter(d, j)
  BY <1>1, <1>2 DEF LimiterInv, LimiterTypeOK, Setter, At, NoCall
<1>6. \A j \in Key : Setter(c, j) => j = k
  BY <1>1 DEF Setter, Key
<1>7. ExpiryIsComing'
  BY <1>5, <1>6 DEF LimiterInv, ExpiryIsComing, SetExpiry
<1>8. OneSetter'
  BY <1>3, <1>5 DEF LimiterInv, OneSetter, SetExpiry
<1> QED BY <1>4, <1>7, <1>8 DEF LimiterInv

(* A key is dropped only when nobody is about to set its expiry. *)
LEMMA ExpireKeeps ==
  ASSUME LimiterInv, NEW k \in Key, Expire(k)
  PROVE  LimiterInv'
<1>1. \A d \in Caller, j \in Key : Setter(d, j)' <=> Setter(d, j)
  BY DEF Expire, Setter, At
<1>2. \A j \in Key : count'[j] = IF j = k THEN 0 ELSE count[j]
  BY DEF LimiterInv, LimiterTypeOK, Expire
<1>3. \A d \in Caller : ~ Setter(d, k)
  BY DEF LimiterInv, OneSetter, Expire
<1>4. LimiterTypeOK'
  BY <1>2 DEF LimiterInv, LimiterTypeOK, Expire
<1>5. ExpiryIsComing'
  BY <1>1, <1>2 DEF LimiterInv, ExpiryIsComing, Expire
<1>6. OneSetter'
  BY <1>1, <1>2, <1>3 DEF LimiterInv, OneSetter, Expire
<1> QED BY <1>4, <1>5, <1>6 DEF LimiterInv

(* A request calls, or is done: a key it was about to mark is orphaned.    *)
LEMMA AskKeeps ==
  ASSUME LimiterInv, NEW c \in Caller, At(c) = "idle",
         NEW ip \in Address, NEW n \in 1..MaxOrders, Ask(c, ip, n) \/ RecordAgain(c, ip, n)
  PROVE  LimiterInv'
<1>1. PICK at \in {"check_ip", "incr_ip"} : call' = [call EXCEPT ![c] = CallTo(ip, n, at)]
  BY DEF Ask, RecordAgain
<1>2. unseen' \in [Key -> Nat]
  <2>1. CASE Ask(c, ip, n)
    BY <2>1 DEF LimiterInv, LimiterTypeOK, Ask
  <2>2. CASE RecordAgain(c, ip, n)
    <3>1. unseen \in [Key -> Nat] /\ ip \in Key /\ Global \in Key /\ n \in Nat
      BY DEF LimiterInv, LimiterTypeOK, Key
    <3>2. unseen' = [unseen EXCEPT ![ip] = @ + n, ![Global] = @ + n]
      BY <2>2 DEF RecordAgain
    <3> QED BY <3>1, <3>2
  <2> QED BY <2>1, <2>2
<1>3. UNCHANGED <<count, expiring, orphaned>>
  BY DEF Ask, RecordAgain
<1>4. LimiterTypeOK'
  <2>1. CallTo(ip, n, at) \in [at : Step \cup Outcome, ip : Address, orders : 1..MaxOrders]
    BY DEF CallTo, Step
  <2> QED BY <1>1, <1>2, <1>3, <2>1 DEF LimiterInv, LimiterTypeOK
<1>5. \A d \in Caller, j \in Key : Setter(d, j)' <=> Setter(d, j)
  BY <1>1 DEF LimiterInv, LimiterTypeOK, CallTo, Setter, At
<1> QED BY <1>3, <1>4, <1>5 DEF LimiterInv, ExpiryIsComing, OneSetter

LEMMA LeaveKeeps ==
  ASSUME LimiterInv, NEW c \in Caller, Leave(c)
  PROVE  LimiterInv'
<1>1. call[c] \in [at : Step \cup Outcome, ip : Address, orders : 1..MaxOrders]
  BY CallHasOrders DEF LimiterInv, Leave
<1>2. LimiterTypeOK'
  <2>1. Abandoned(c) \subseteq Key
    BY <1>1 DEF Abandoned, Key
  <2> QED BY <2>1 DEF LimiterInv, LimiterTypeOK, Leave
<1>3. \A d \in Caller, j \in Key : Setter(d, j)' <=> d # c /\ Setter(d, j)
  BY DEF LimiterInv, LimiterTypeOK, Leave, NoCall, Setter, At
<1>4. \A j \in Key : Setter(c, j) => j \in Abandoned(c)
  BY <1>1 DEF Setter, Abandoned, Key
<1>5. ExpiryIsComing'
  BY <1>3, <1>4 DEF LimiterInv, ExpiryIsComing, Leave
<1>6. OneSetter'
  BY <1>3 DEF LimiterInv, OneSetter, Leave
<1> QED BY <1>2, <1>5, <1>6 DEF LimiterInv

-----------------------------------------------------------------------------
(* Every command of a running call keeps the invariant. *)
LEMMA LimiterStepKeeps ==
  ASSUME LimiterInv, NEW c \in Caller, LimiterStep(c)
  PROVE  LimiterInv'
<1>1. CASE CheckAddress(c) \/ CheckGlobal(c)
  BY <1>1, CheckKeeps
<1>2. CASE IncrAddress(c) \/ IncrGlobal(c)
  <2> DEFINE k == IF At(c) = "incr_ip" THEN call[c].ip ELSE Global
             expire == IF At(c) = "incr_ip" THEN "expire_ip" ELSE "expire_global"
             done == IF At(c) = "incr_ip" THEN "incr_global" ELSE "recorded"
  <2>1. At(c) \in {"incr_ip", "incr_global"} /\ Incr(c, k, expire, done)
    BY <1>2 DEF IncrAddress, IncrGlobal
  <2>2. k \in Key
    BY <2>1, CallHasOrders DEF LimiterInv, Key
  <2>3. CASE count'[k] = call[c].orders
    BY <2>1, <2>2, <2>3, IncrKeeps DEF Incr
  <2>4. CASE count'[k] # call[c].orders
    BY <2>1, <2>2, <2>4, IncrKeeps DEF Incr
  <2> QED BY <2>3, <2>4
<1>3. CASE ExpireAddress(c)
  <2>1. call[c].ip \in Key /\ call[c].ip # Global
    BY <1>3, CallHasOrders DEF LimiterInv, ExpireAddress
  <2> QED BY <1>3, <2>1, SetExpiryKeeps DEF ExpireAddress, Setter
<1>4. CASE ExpireGlobal(c)
  BY <1>4, SetExpiryKeeps DEF ExpireGlobal, Setter, Key
<1>5. CASE LimiterFails(c)
  BY <1>5, MoveKeeps DEF LimiterFails, Step, Outcome, LimiterInv, LimiterTypeOK
<1>6. CASE AnswerLost(c)
  <2> DEFINE k == IF At(c) = "incr_ip" THEN call[c].ip ELSE Global
  <2>1. k \in Key
    BY <1>6, CallHasOrders DEF LimiterInv, Key, AnswerLost
  <2> QED BY <1>6, <2>1, IncrKeeps DEF AnswerLost
<1> QED BY <1>1, <1>2, <1>3, <1>4, <1>5, <1>6 DEF LimiterStep

LEMMA NextKeeps == LimiterInv /\ [LimiterNext]_limiterVars => LimiterInv'
<1> SUFFICES ASSUME LimiterInv, [LimiterNext]_limiterVars PROVE LimiterInv'
  OBVIOUS
<1>1. ASSUME NEW c \in Caller, Record(c) PROVE LimiterInv'
  BY <1>1, MoveKeeps, NothingAbandoned
     DEF Record, Step, Outcome, LimiterInv, LimiterTypeOK
<1>2. CASE UNCHANGED limiterVars
  BY <1>2 DEF limiterVars, LimiterInv, LimiterTypeOK, ExpiryIsComing, OneSetter, Setter, At
<1> QED BY <1>1, <1>2, AskKeeps, LeaveKeeps, LimiterStepKeeps, ExpireKeeps DEF LimiterNext

THEOREM LimiterInvariant == LimiterSpec => []LimiterInv
BY InitEstablishes, NextKeeps, PTL DEF LimiterSpec

(* The limiter's types hold for any callers, addresses and limits; a key   *)
(* that has an expiry always exists.                                       *)
THEOREM LimiterTypeCorrect == LimiterSpec => []LimiterTypeOK
<1>1. LimiterInv => LimiterTypeOK
  BY DEF LimiterInv
<1> QED BY <1>1, LimiterInvariant, PTL

(* However calls interleave, and whenever keys are dropped, a key without  *)
(* an expiry is about to get one, or the call that made it was stopped     *)
(* between its INCR and its EXPIRE: no other order of commands can block   *)
(* an address for good.                                                    *)
THEOREM ExpiryIsNeverForgotten == LimiterSpec => []ExpiryIsComing
<1>1. LimiterInv => ExpiryIsComing
  BY DEF LimiterInv
<1> QED BY <1>1, LimiterInvariant, PTL

-----------------------------------------------------------------------------
(* How far a counter may pass its limit.  What the admitted callers still  *)
(* have to charge is a sum, of which a step changes one term.              *)

CallOrders == [c \in Caller |-> call[c].orders]

LEMMA PendingIsSum ==
  ASSUME LimiterTypeOK, NEW k \in Key
  PROVE  Pending(k) = SumOver(CallOrders, AdmittedTo(k))
<1> DEFINE A == AdmittedTo(k)
           f == CallOrders
           rule(it, s) == IF s = {} THEN 0 ELSE call[Pick(s)].orders + it[s \ {Pick(s)}]
           it == CHOOSE it : it = [s \in SUBSET A |-> rule(it, s)]
<1>1. IsFiniteSet(A) /\ A \subseteq Caller
  BY CallersAreFinite, FS_Subset DEF AdmittedTo
<1>2. \A c \in A : f[c] = call[c].orders /\ f[c] \in Nat
  BY CallHasOrders DEF AdmittedTo, CallOrders
<1>3. \A jt : \A s \in SUBSET A : rule(jt, s) = Rule(jt, f, s)
  <2> SUFFICES ASSUME NEW jt, NEW s \in SUBSET A, s # {} PROVE call[Pick(s)].orders = f[Pick(s)]
    BY DEF Rule
  <2>1. Pick(s) \in s
    BY DEF Pick
  <2> QED BY <1>2, <2>1
<1> HIDE DEF A, f
<1>4. \A jt : IsTable(jt, f, A) <=> jt = [s \in SUBSET A |-> rule(jt, s)]
  BY <1>3 DEF IsTable
<1>5. \E jt : jt = [s \in SUBSET A |-> rule(jt, s)]
  BY <1>1, <1>4, TableExists
<1>6. it = [s \in SUBSET A |-> rule(it, s)]
  BY <1>5, Zenon
<1>7. Pending(k) = it[A]
  BY Zenon DEF Pending, MapThenSumSet, MapThenFoldSet, Pick, A
<1> HIDE DEF it
<1>8. IsTable(it, f, A)
  BY <1>4, <1>6
<1>9. PICK jt : IsTable(jt, f, A) /\ SumOver(f, A) = jt[A]
  BY <1>1, SumIsInTable
<1>10. it[A] = jt[A]
  BY <1>1, <1>2, <1>8, <1>9, SameTable
<1> QED BY <1>7, <1>9, <1>10 DEF A, f

(* What the admitted callers other than c have to charge, and what c has:  *)
(* a step of c changes only the latter.                                    *)
Others(k, c) == SumOver(CallOrders, AdmittedTo(k) \ {c})
Own(k, c) == IF c \in AdmittedTo(k) THEN call[c].orders ELSE 0

LEMMA PendingSplits ==
  ASSUME LimiterTypeOK, NEW k \in Key, NEW c \in Caller
  PROVE  /\ Pending(k) = Own(k, c) + Others(k, c)
         /\ Own(k, c) \in Nat /\ Others(k, c) \in Nat
         /\ Others(k, c) <= (Cardinality(Caller) - 1) * MaxOrders
<1>1. IsFiniteSet(AdmittedTo(k)) /\ AdmittedTo(k) \subseteq Caller
  BY CallersAreFinite, FS_Subset DEF AdmittedTo
<1>2. \A d \in AdmittedTo(k) : CallOrders[d] = call[d].orders /\ CallOrders[d] \in 0..MaxOrders
  BY CallHasOrders DEF AdmittedTo, CallOrders, LimiterTypeOK, NoCall, At
<1>3. \A d \in AdmittedTo(k) : CallOrders[d] \in Nat
  BY <1>2
<1> DEFINE A == AdmittedTo(k) \ {c}
<1>4. IsFiniteSet(A) /\ Cardinality(A) \in Nat /\ Cardinality(A) <= Cardinality(Caller) - 1
  <2>1. A \subseteq Caller \ {c}
    BY <1>1
  <2>2. IsFiniteSet(Caller \ {c}) /\ Cardinality(Caller \ {c}) = Cardinality(Caller) - 1
    BY CallersAreFinite, FS_RemoveElement
  <2> HIDE DEF A
  <2> QED BY <2>1, <2>2, FS_Subset, FS_CardinalityType
<1>5. SumOver(CallOrders, A) \in Nat
  BY <1>3, <1>4, SumIsNat
<1>6. SumOver(CallOrders, A) <= Cardinality(A) * MaxOrders
  BY <1>2, <1>4, SumIsBounded
<1>7. Cardinality(A) * MaxOrders <= (Cardinality(Caller) - 1) * MaxOrders
  <2>1. \A a, b, m \in Nat : a <= b => a * m <= b * m
    OBVIOUS
  <2>2. Cardinality(Caller) - 1 \in Nat
    BY <1>4, CallersAreFinite, FS_CardinalityType
  <2> QED BY <1>4, <2>1, <2>2
<1>8. Pending(k) = Own(k, c) + Others(k, c)
  <2>1. CASE c \in AdmittedTo(k)
    BY <1>1, <1>2, <1>3, <2>1, SumRemove, PendingIsSum DEF Own, Others
  <2>2. CASE c \notin AdmittedTo(k)
    <3>1. AdmittedTo(k) \ {c} = AdmittedTo(k)
      BY <2>2
    <3>2. SumOver(CallOrders, AdmittedTo(k)) \in Nat
      BY <1>1, <1>3, SumIsNat
    <3> QED BY <2>2, <3>1, <3>2, PendingIsSum DEF Own, Others
  <2> QED BY <2>1, <2>2
<1>9. Own(k, c) \in Nat
  BY <1>2, <1>3 DEF Own
<1>10. Cardinality(A) * MaxOrders \in Nat /\ (Cardinality(Caller) - 1) * MaxOrders \in Nat
  BY <1>4, CallersAreFinite, FS_CardinalityType
<1> HIDE DEF A
<1>11. SumOver(CallOrders, A) <= (Cardinality(Caller) - 1) * MaxOrders
  BY <1>5, <1>6, <1>7, <1>10
<1> QED BY <1>5, <1>8, <1>9, <1>11 DEF A, Others

PendingIsSplit ==
  \A k \in Key, c \in Caller : /\ Pending(k) = Own(k, c) + Others(k, c)
                                /\ Own(k, c) \in Nat

LEMMA SplitsBefore == LimiterTypeOK => PendingIsSplit
BY PendingSplits DEF PendingIsSplit

LEMMA SplitsAfter == LimiterTypeOK' => PendingIsSplit'
BY SplitsBefore, PTL

PendingsAreSums == \A k \in Key : Pending(k) = SumOver(CallOrders, AdmittedTo(k))

LEMMA SumsBefore == LimiterTypeOK => PendingsAreSums
BY PendingIsSum DEF PendingsAreSums

LEMMA SumsAfter == LimiterTypeOK' => PendingsAreSums'
BY SumsBefore, PTL

LEMMA OthersStay ==
  ASSUME LimiterTypeOK, LimiterTypeOK', NEW c \in Caller,
         \A d \in Caller \ {c} : call'[d] = call[d],
         NEW k \in Key
  PROVE  Others(k, c)' = Others(k, c)
<1>1. AdmittedTo(k)' \ {c} = AdmittedTo(k) \ {c}
  BY DEF AdmittedTo, At
<1>2. \A d \in AdmittedTo(k) \ {c} : CallOrders'[d] = CallOrders[d] /\ CallOrders[d] \in Nat
  BY CallHasOrders DEF AdmittedTo, CallOrders
<1>3. IsFiniteSet(AdmittedTo(k) \ {c})
  BY CallersAreFinite, FS_Subset DEF AdmittedTo
<1>4. SumOver(CallOrders, AdmittedTo(k) \ {c}) = SumOver(CallOrders', AdmittedTo(k) \ {c})
  BY <1>2, <1>3, SumSame
<1>5. Others(k, c)' = SumOver(CallOrders', AdmittedTo(k)' \ {c})
  BY DEF Others
<1> QED BY <1>1, <1>4, <1>5 DEF Others

(* A step of one caller keeps the bound if, for each key, it charges no    *)
(* more than the caller was admitted for, unless unseen grows by as much,  *)
(* or it admits the caller with the counter below the limit.               *)
LEMMA CallerKeepsBound ==
  ASSUME LimiterTypeOK, LimiterTypeOK', OvershootIsBounded, NEW c \in Caller,
         \A d \in Caller \ {c} : call'[d] = call[d],
         \A k \in Key :
           \/ count'[k] + Own(k, c)' + unseen[k] <= count[k] + Own(k, c) + unseen'[k]
           \/ count'[k] + Own(k, c)' <= Limit(k) + unseen'[k]
  PROVE  OvershootIsBounded'
<1> SUFFICES ASSUME NEW k \in Key
             PROVE  count'[k] + Pending(k)'
                      <= Limit(k) + (Cardinality(Caller) - 1) * MaxOrders + unseen'[k]
  BY DEF OvershootIsBounded, Limit
<1> DEFINE B == (Cardinality(Caller) - 1) * MaxOrders
<1>1. /\ Pending(k) = Own(k, c) + Others(k, c)
      /\ Own(k, c) \in Nat /\ Others(k, c) \in Nat /\ Others(k, c) <= B
  BY PendingSplits
<1>2. /\ Pending(k)' = Own(k, c)' + Others(k, c)'
      /\ Own(k, c)' \in Nat
  BY SplitsAfter DEF PendingIsSplit
<1>3. Others(k, c)' = Others(k, c)
  BY OthersStay
<1>4. count[k] \in Nat /\ count'[k] \in Nat /\ unseen[k] \in Nat /\ unseen'[k] \in Nat
  BY DEF LimiterTypeOK
<1>5. Limit(k) \in Nat /\ B \in Int
  BY CallersAreFinite, FS_CardinalityType DEF Limit
<1>6. count[k] + Pending(k) <= Limit(k) + B + unseen[k]
  BY DEF OvershootIsBounded
<1> HIDE DEF B
<1>7. count'[k] + Pending(k)' <= Limit(k) + B + unseen'[k]
  BY <1>1, <1>2, <1>3, <1>4, <1>5, <1>6
<1> QED BY <1>7 DEF B

(* What a call at a step has been admitted for under a key. *)
Due(c, k, at) ==
  IF IF k = Global THEN at \in {"allowed", "incr_ip", "expire_ip", "incr_global"}
                   ELSE k = call[c].ip /\ at \in {"check_global", "allowed", "incr_ip"}
  THEN call[c].orders ELSE 0

LEMMA OwnIsDue ==
  ASSUME LimiterTypeOK, NEW c \in Caller, At(c) # "idle", NEW k \in Key
  PROVE  /\ Own(k, c) = Due(c, k, At(c))
         /\ \A at \in Step \cup Outcome : To(c, at) => Own(k, c)' = Due(c, k, at)
<1>1. Own(k, c) = Due(c, k, At(c))
  BY DEF Own, Due, AdmittedTo
<1>2. ASSUME NEW at \in Step \cup Outcome, To(c, at) PROVE Own(k, c)' = Due(c, k, at)
  <2>1. call[c] \in [at : Step \cup Outcome, ip : Address, orders : 1..MaxOrders]
    BY CallHasOrders
  <2>2. call'[c] = [call[c] EXCEPT !.at = at]
    BY <1>2, <2>1 DEF To, LimiterTypeOK
  <2>3. call'[c].at = at /\ call'[c].ip = call[c].ip /\ call'[c].orders = call[c].orders
    BY <2>1, <2>2
  <2>4. at # "idle"
    BY DEF Step, Outcome
  <2> QED BY <2>3, <2>4 DEF Own, Due, AdmittedTo, At
<1> QED BY <1>1, <1>2

(* Every step keeps the bound. *)
LEMMA StepKeepsBound ==
  ASSUME LimiterTypeOK, LimiterTypeOK', OvershootIsBounded,
         NEW c \in Caller,
         \/ \E ip \in Address, n \in 1..MaxOrders :
              At(c) = "idle" /\ (Ask(c, ip, n) \/ RecordAgain(c, ip, n))
         \/ Record(c) \/ Leave(c) \/ LimiterStep(c)
  PROVE  OvershootIsBounded'
<1> DEFINE Fine(k) ==
      \/ count'[k] + Own(k, c)' + unseen[k] <= count[k] + Own(k, c) + unseen'[k]
      \/ count'[k] + Own(k, c)' <= Limit(k) + unseen'[k]
           Alone == \A d \in Caller \ {c} : call'[d] = call[d]
<1> SUFFICES ASSUME NEW k \in Key PROVE Fine(k) /\ Alone
  <2>1. Alone
    BY DEF Key
  <2> QED BY <2>1, CallerKeepsBound
<1>1. /\ count[k] \in Nat /\ count'[k] \in Nat /\ unseen[k] \in Nat /\ unseen'[k] \in Nat
      /\ Limit(k) \in Nat
      /\ count \in [Key -> Nat] /\ unseen \in [Key -> Nat]
  BY DEF LimiterTypeOK, Limit
<1>2. Own(k, c) \in Nat /\ Own(k, c)' \in Nat
  BY SplitsBefore, SplitsAfter DEF PendingIsSplit
<1>3. At(c) # "idle" =>
        /\ call[c].orders \in Nat /\ call[c].ip \in Key /\ call[c].ip # Global
        /\ Own(k, c) = Due(c, k, At(c))
        /\ \A at \in Step \cup Outcome : To(c, at) => Own(k, c)' = Due(c, k, at)
  BY CallHasOrders, OwnIsDue
<1>4. \A at \in Step \cup Outcome : To(c, at) => Alone
  BY DEF LimiterTypeOK, To
<1>5. CASE \E ip \in Address, n \in 1..MaxOrders : At(c) = "idle" /\ Ask(c, ip, n)
  <2>1. Own(k, c)' = 0
    BY <1>5 DEF Ask, CallTo, Own, AdmittedTo, At, LimiterTypeOK
  <2>2. Alone
    BY <1>5 DEF Ask, LimiterTypeOK
  <2> QED BY <1>1, <1>2, <1>5, <2>1, <2>2 DEF Ask
<1>12. CASE \E ip \in Address, n \in 1..MaxOrders : At(c) = "idle" /\ RecordAgain(c, ip, n)
  <2>1. PICK ip \in Address, n \in 1..MaxOrders : At(c) = "idle" /\ RecordAgain(c, ip, n)
    BY <1>12
  <2>2. /\ call' = [call EXCEPT ![c] = CallTo(ip, n, "incr_ip")]
        /\ unseen' = [unseen EXCEPT ![ip] = @ + n, ![Global] = @ + n]
        /\ count' = count
    BY <2>1 DEF RecordAgain
  <2>3. call'[c] = CallTo(ip, n, "incr_ip") /\ Alone
    BY <2>2 DEF LimiterTypeOK
  <2>4. k \notin {ip, Global} => Own(k, c)' = 0
    BY <2>3 DEF CallTo, Own, AdmittedTo, At
  <2>5. Own(k, c)' \in {0, n}
    BY <2>3 DEF CallTo, Own, AdmittedTo, At
  <2>6. ip \in Key /\ Global \in Key /\ ip # Global /\ n \in Nat
    BY GlobalIsNoAddress DEF Key
  <2>7. unseen'[k] = IF k \in {ip, Global} THEN unseen[k] + n ELSE unseen[k]
    BY <1>1, <2>2, <2>6
  <2> QED BY <1>1, <1>2, <2>2, <2>3, <2>4, <2>5, <2>6, <2>7
<1>6. CASE Record(c)
  <2>1. Own(k, c)' = Own(k, c)
    BY <1>3, <1>6 DEF Record, Due, Step
  <2> QED BY <1>1, <1>2, <1>4, <1>6, <2>1 DEF Record, Step
<1>7. CASE Leave(c)
  <2>1. Own(k, c)' = 0
    BY <1>7 DEF Leave, NoCall, Own, AdmittedTo, At, LimiterTypeOK
  <2>2. Alone
    BY <1>7 DEF Leave, LimiterTypeOK
  <2> QED BY <1>1, <1>2, <1>7, <2>1, <2>2 DEF Leave
<1>8. ASSUME NEW j \in Key, NEW next \in {"check_global", "allowed"}, Check(c, j, next),
             \/ At(c) = "check_ip" /\ j = call[c].ip /\ next = "check_global"
             \/ At(c) = "check_global" /\ j = Global /\ next = "allowed"
      PROVE  Fine(k) /\ Alone
  <2>1. PICK at \in {"refused", next} : To(c, at)
    BY <1>8 DEF Check
  <2>2. at \in Step \cup Outcome
    BY DEF Step, Outcome
  <2>3. Own(k, c)' = Due(c, k, at)
    BY <1>3, <1>8, <2>1, <2>2
  <2>4. CASE k # j \/ at = "refused"
    <3>1. Own(k, c)' <= Own(k, c)
      BY <1>2, <1>3, <1>8, <2>3, <2>4 DEF Due
    <3>2. count' = count /\ unseen[k] <= unseen'[k]
      BY <1>1, <1>3, <1>8 DEF Check
    <3> QED BY <1>1, <1>2, <1>4, <2>1, <2>2, <3>1, <3>2
  <2>5. CASE k = j /\ at # "refused"
    <3>1. Own(k, c) = 0 /\ Own(k, c)' = call[c].orders
      BY <1>3, <1>8, <2>1, <2>3, <2>5 DEF Due
    <3>2. \/ count[k] + call[c].orders <= Limit(k)
          \/ unseen'[k] = unseen[k] + call[c].orders
      <4>1. To(c, "refused") => Own(k, c)' = Due(c, k, "refused")
        BY <1>3, <1>8 DEF Outcome
      <4>2. ~ To(c, "refused")
        BY <1>1, <1>3, <1>8, <3>1, <4>1, CallHasOrders DEF Due
      <4>3. count[k] + call[c].orders \in Int /\ Limit(k) \in Int
        BY <1>1, <1>3, <1>8
      <4> QED BY <1>1, <1>3, <1>8, <2>5, <4>2, <4>3 DEF Check
    <3>3. count' = count
      BY <1>8 DEF Check
    <3> QED BY <1>1, <1>3, <1>4, <1>8, <2>1, <2>2, <3>1, <3>2, <3>3
  <2> QED BY <2>4, <2>5
<1>9. ASSUME NEW j \in Key, NEW at \in Step \cup Outcome, To(c, at), UNCHANGED unseen,
             \/ At(c) = "incr_ip" /\ j = call[c].ip /\ at \in {"expire_ip", "incr_global", "failed"}
             \/ At(c) = "incr_global" /\ j = Global /\ at \in {"expire_global", "recorded", "failed"},
             count' = [count EXCEPT ![j] = @ + call[c].orders]
      PROVE  Fine(k) /\ Alone
  <2>1. Own(k, c)' = Due(c, k, at)
    BY <1>3, <1>9
  <2>2. CASE k = j
    <3>1. Own(k, c) = call[c].orders /\ Own(k, c)' = 0
      BY <1>3, <1>9, <2>1, <2>2 DEF Due
    <3>2. count'[k] = count[k] + call[c].orders
      BY <1>1, <1>9, <2>2
    <3> QED BY <1>1, <1>3, <1>4, <1>9, <3>1, <3>2
  <2>3. CASE k # j
    <3>1. Own(k, c)' <= Own(k, c)
      BY <1>2, <1>3, <1>9, <2>1, <2>3 DEF Due
    <3>2. count'[k] = count[k]
      BY <1>1, <1>9, <2>3
    <3> QED BY <1>1, <1>2, <1>4, <1>9, <3>1, <3>2
  <2> QED BY <2>2, <2>3
<1>10. ASSUME NEW at \in Step \cup Outcome, To(c, at), UNCHANGED <<count, unseen>>,
              \/ At(c) = "expire_ip" /\ at = "incr_global"
              \/ At(c) = "expire_global" /\ at = "recorded"
              \/ At(c) # "idle" /\ at = "failed"
       PROVE  Fine(k) /\ Alone
  <2>1. Own(k, c)' <= Own(k, c)
    BY <1>2, <1>3, <1>10 DEF Due
  <2> QED BY <1>1, <1>2, <1>4, <1>10, <2>1
<1>11. CASE LimiterStep(c)
  <2>1. CASE CheckAddress(c)
    BY <1>3, <1>8, <2>1 DEF CheckAddress
  <2>2. CASE CheckGlobal(c)
    BY <1>8, <2>2 DEF CheckGlobal, Key
  <2>3. CASE IncrAddress(c)
    <3>1. call[c].ip \in Key /\ At(c) = "incr_ip"
      BY <1>3, <2>3 DEF IncrAddress
    <3> QED BY <1>9, <2>3, <3>1 DEF IncrAddress, Incr, Step, Outcome
  <2>4. CASE IncrGlobal(c)
    <3>1. Global \in Key
      BY DEF Key
    <3> QED BY <1>9, <2>4, <3>1 DEF IncrGlobal, Incr, Step, Outcome
  <2>5. CASE ExpireAddress(c) \/ ExpireGlobal(c)
    BY <1>10, <2>5 DEF ExpireAddress, ExpireGlobal, SetExpiry, Step, Outcome
  <2>6. CASE LimiterFails(c)
    BY <1>10, <2>6 DEF LimiterFails, Step, Outcome
  <2>7. CASE AnswerLost(c)
    <3> DEFINE j == IF At(c) = "incr_ip" THEN call[c].ip ELSE Global
    <3>1. j \in Key
      BY <1>3, <2>7 DEF AnswerLost, Key
    <3>2. count' = [count EXCEPT ![j] = @ + call[c].orders] /\ To(c, "failed") /\ UNCHANGED unseen
      BY <2>7 DEF AnswerLost
    <3>3. \/ At(c) = "incr_ip" /\ j = call[c].ip
          \/ At(c) = "incr_global" /\ j = Global
      BY <2>7 DEF AnswerLost
    <3> HIDE DEF j
    <3> QED BY <1>9, <3>1, <3>2, <3>3 DEF Outcome
  <2> QED BY <1>11, <2>1, <2>2, <2>3, <2>4, <2>5, <2>6, <2>7 DEF LimiterStep
<1> QED BY <1>5, <1>6, <1>7, <1>11, <1>12

(* A key that is dropped, or a step of something else. *)
LEMMA ExpireKeepsBound ==
  ASSUME LimiterTypeOK, LimiterTypeOK', OvershootIsBounded,
         (\E k \in Key : Expire(k)) \/ UNCHANGED limiterVars
  PROVE  OvershootIsBounded'
<1>1. \A j \in Key : /\ Pending(j)' = Pending(j)
                      /\ count'[j] <= count[j] /\ count'[j] \in Nat /\ count[j] \in Nat
                      /\ unseen'[j] = unseen[j] /\ unseen[j] \in Nat
  <2>1. \A j \in Key : Pending(j)' = Pending(j)
    <3>1. call' = call
      BY DEF Expire, limiterVars
    <3>2. CallOrders' = CallOrders /\ \A j \in Key : AdmittedTo(j)' = AdmittedTo(j)
      BY <3>1 DEF CallOrders, AdmittedTo, At
    <3>3. \A j \in Key : Pending(j)' = SumOver(CallOrders', AdmittedTo(j)')
      BY SumsAfter DEF PendingsAreSums
    <3> QED BY <3>2, <3>3, SumsBefore DEF PendingsAreSums
  <2> QED BY <2>1 DEF Expire, limiterVars, LimiterTypeOK
<1>2. \A j \in Key : Pending(j) \in Nat
  <2> SUFFICES ASSUME NEW j \in Key PROVE Pending(j) \in Nat
    OBVIOUS
  <2>1. IsFiniteSet(AdmittedTo(j))
    BY CallersAreFinite, FS_Subset DEF AdmittedTo
  <2>2. \A d \in AdmittedTo(j) : CallOrders[d] \in Nat
    BY CallHasOrders DEF AdmittedTo, CallOrders
  <2> QED BY <2>1, <2>2, PendingIsSum, SumIsNat
<1> DEFINE B == (Cardinality(Caller) - 1) * MaxOrders
<1>3. B \in Int /\ \A j \in Key : Limit(j) \in Nat
  BY CallersAreFinite, FS_CardinalityType DEF Limit
<1>4. \A j \in Key : count[j] + Pending(j) <= Limit(j) + B + unseen[j]
  BY DEF OvershootIsBounded
<1> HIDE DEF B
<1>5. \A j \in Key : count'[j] + Pending(j)' <= Limit(j) + B + unseen'[j]
  BY <1>1, <1>2, <1>3, <1>4
<1> QED BY <1>5 DEF B, OvershootIsBounded, Limit

LEMMA InitIsBounded == LimiterInit => OvershootIsBounded
<1> SUFFICES ASSUME LimiterInit, NEW k \in Key
             PROVE  count[k] + Pending(k)
                      <= Limit(k) + (Cardinality(Caller) - 1) * MaxOrders + unseen[k]
  BY DEF OvershootIsBounded
<1>1. AdmittedTo(k) = {} /\ count[k] = 0 /\ unseen[k] = 0
  BY DEF LimiterInit, AdmittedTo, At, NoCall
<1>2. Pending(k) = 0
  <2>1. LimiterTypeOK
    BY InitEstablishes DEF LimiterInv
  <2> QED BY <1>1, <2>1, SumsBefore, SumEmpty DEF PendingsAreSums
<1>3. Cardinality(Caller) - 1 \in Nat
  BY CallersAreFinite, FS_CardinalityType, FS_EmptySet
<1>4. (Cardinality(Caller) - 1) * MaxOrders \in Nat /\ Limit(k) \in Nat
  BY <1>3 DEF Limit
<1> QED BY <1>1, <1>2, <1>4

(* Checking and charging are separate, and still a counter passes its      *)
(* limit by no more than the other callers' orders and what was let past   *)
(* with no look at it, by a failed read or by a last chunk sent again: for *)
(* any number of callers and any limits.                                   *)
THEOREM OvershootNeverGrows == LimiterSpec => []OvershootIsBounded
<1>1. LimiterTypeOK /\ LimiterTypeOK' /\ OvershootIsBounded /\ [LimiterNext]_limiterVars
        => OvershootIsBounded'
  BY StepKeepsBound, ExpireKeepsBound DEF LimiterNext
<1> QED BY <1>1, InitIsBounded, LimiterTypeCorrect, PTL DEF LimiterSpec
=============================================================================
