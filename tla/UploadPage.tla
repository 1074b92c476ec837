----------------------------- MODULE UploadPage -----------------------------
(***************************************************************************)
(* The upload mode of the page (components/modeselect.rs) and its uploader *)
(* (utils/file_handler.rs) against UploadServer.  A file is picked and     *)
(* read by one task, submitted and uploaded by another; the tasks share    *)
(* the page's signals, and each await in one lets the others run.          *)
(***************************************************************************)
EXTENDS UploadServer

CONSTANTS Small,      \* text files below MAX_PREVIEWABLE_FILESIZE, with orders
          Large,      \* text files above it
          NotText,    \* files whose name does not end in .txt
          MaxPicks,   \* bound on the files picked
          NIL         \* None

ASSUME NilIsNoFile == NIL \notin Small \cup Large \cup NotText
ASSUME NilIsNoPanic == NIL \notin {"size", "signer", "assertion"}

File == Small \cup Large \cup NotText
Pick == 1..MaxPicks

VARIABLES
  selected_file, invalid_file, is_large_file,   \* signals of the same names
  parsed_orders,          \* the files whose orders it holds
  large_file_contents,    \* the file whose bytes it holds, or NIL
  server_processing,      \* the file of the progress bar, or NIL
  ob_results,             \* the upload whose results are shown, or NIL
  reader,                 \* the reading task of each pick
  uploader,               \* of each upload: its task, the next chunk and the
                          \* slot of the request it waits for
  crashed,                \* the panic that has stopped the page, or NIL
  submitted,              \* history: the file submitted, until it is taken
  mixed,                  \* history: whether two files were read at once
  quiet                   \* history: the uploads not yet taken whose file
                          \* was read alone and not followed by a pick

pageVars == <<selected_file, invalid_file, is_large_file, parsed_orders,
              large_file_contents, server_processing, ob_results, reader,
              uploader, crashed, submitted, mixed, quiet>>
vars == <<serverVars, pageVars>>

picked == <<selected_file, invalid_file, is_large_file, parsed_orders, large_file_contents>>
history == <<submitted, mixed, quiet>>

NoReader == [at |-> "none", file |-> NIL]
Finished == [at |-> "done", file |-> NIL]
NoUploader == [at |-> "none", chunk |-> 0, slot |-> 0]

Init ==
  /\ ServerInit
  /\ selected_file = NIL /\ invalid_file = FALSE /\ is_large_file = FALSE
  /\ parsed_orders = << >>
  /\ large_file_contents = NIL
  /\ server_processing = NIL
  /\ ob_results = NIL
  /\ reader = [p \in Pick |-> NoReader]
  /\ uploader = [u \in Upload |-> NoUploader]
  /\ crashed = NIL
  /\ submitted = [u \in Upload |-> NIL]
  /\ mixed = FALSE
  /\ quiet = {}

Reading == \E p \in Pick : reader[p].at \in {"size", "bytes"}
Running(u) == uploader[u].at \notin {"none", "ended"}

-----------------------------------------------------------------------------
(* upload_files and ondrop up to the first await: the page forgets the file *)
(* before, and the name of the new one is known.  The event may come        *)
(* without a file, NIL; a file still being read goes on.                   *)
PickFile_KeepsOrders(p, f) ==
  /\ crashed = NIL
  /\ reader[p].at = "none" /\ \A q \in 1..p-1 : reader[q].at # "none"
  /\ reader' = [reader EXCEPT ![p] =
                  IF f \in Small \cup Large THEN [at |-> "size", file |-> f] ELSE Finished]
  /\ selected_file' = f
  /\ invalid_file' = (f \in NotText)
  /\ is_large_file' = FALSE
  /\ large_file_contents' = NIL
  /\ ob_results' = NIL
  /\ mixed' = Reading
  /\ quiet' = {}
  /\ UNCHANGED <<serverVars, parsed_orders, server_processing, uploader, crashed, submitted>>
PickFile(p, f) ==
  /\ crashed = NIL
  /\ reader[p].at = "none" /\ \A q \in 1..p-1 : reader[q].at # "none"
  /\ reader' = [reader EXCEPT ![p] =
                  IF f \in Small \cup Large THEN [at |-> "size", file |-> f] ELSE Finished]
  /\ selected_file' = f
  /\ invalid_file' = (f \in NotText)
  /\ is_large_file' = FALSE
  /\ parsed_orders' = << >>
  /\ large_file_contents' = NIL
  /\ ob_results' = NIL
  /\ mixed' = Reading
  /\ quiet' = {}
  /\ UNCHANGED <<serverVars, server_processing, uploader, crashed, submitted>>

(* The size is known: a large file is announced before its bytes are read. *)
(* If the browser cannot tell it the task panics.                          *)
LearnSize(p) ==
  /\ crashed = NIL
  /\ reader[p].at = "size"
  /\ \/ /\ reader' = [reader EXCEPT ![p].at = "bytes"]
        /\ is_large_file' = (is_large_file \/ reader[p].file \in Large)
        /\ UNCHANGED crashed
     \/ /\ crashed' = "size"
        /\ UNCHANGED <<reader, is_large_file>>
  /\ UNCHANGED <<serverVars, selected_file, invalid_file, parsed_orders,
                 large_file_contents, server_processing, ob_results, uploader,
                 history>>

(* The contents have arrived, if the browser could read them: the orders   *)
(* of a small file are added to those the page holds, the bytes of a large *)
(* one replace them.                                                       *)
ReadFile(p) ==
  /\ crashed = NIL
  /\ reader[p].at = "bytes"
  /\ reader' = [reader EXCEPT ![p] = Finished]
  /\ LET f == reader[p].file
     IN  \/ UNCHANGED <<parsed_orders, large_file_contents>>
         \/ /\ f \in Small
            /\ parsed_orders' = Append(parsed_orders, f)
            /\ UNCHANGED large_file_contents
         \/ /\ f \in Large
            /\ large_file_contents' = f
            /\ UNCHANGED parsed_orders
  /\ UNCHANGED <<serverVars, selected_file, invalid_file, is_large_file,
                 server_processing, ob_results, uploader, crashed, history>>

(* The cross beside the name. *)
RemoveFile ==
  /\ crashed = NIL
  /\ selected_file # NIL
  /\ selected_file' = NIL
  /\ UNCHANGED <<serverVars, invalid_file, is_large_file, parsed_orders,
                 large_file_contents, server_processing, ob_results, reader,
                 uploader, crashed, history>>

-----------------------------------------------------------------------------
(* onsubmit up to the signature and the health check. *)
Submit(u) ==
  /\ crashed = NIL
  /\ selected_file # NIL /\ ~ invalid_file
  /\ is_large_file \/ parsed_orders # << >>
  /\ uploader[u].at = "none" /\ \A v \in 1..u-1 : uploader[v].at # "none"
  /\ uploader' = [uploader EXCEPT ![u].at = "health"]
  /\ server_processing' = selected_file
  /\ selected_file' = NIL
  /\ submitted' = [submitted EXCEPT ![u] = selected_file]
  /\ quiet' = IF mixed \/ Reading THEN quiet ELSE quiet \cup {u}
  /\ UNCHANGED <<serverVars, invalid_file, is_large_file, parsed_orders,
                 large_file_contents, ob_results, reader, crashed, mixed>>

(* onsubmit comes to its end, with a toast after an error. *)
End_KeepsBar(u) ==
  /\ uploader' = [uploader EXCEPT ![u] = [NoUploader EXCEPT !.at = "ended"]]
  /\ UNCHANGED server_processing
End(u) ==
  /\ uploader' = [uploader EXCEPT ![u] = [NoUploader EXCEPT !.at = "ended"]]
  /\ server_processing' = NIL

(* Without a signer the task panics. *)
LoseSigner(u) ==
  /\ crashed = NIL
  /\ uploader[u].at = "health"
  /\ crashed' = "signer"
  /\ UNCHANGED <<serverVars, picked, server_processing, ob_results, reader, uploader, history>>

FailHealthCheck(u) ==
  /\ crashed = NIL
  /\ uploader[u].at = "health"
  /\ End(u)
  /\ UNCHANGED <<serverVars, picked, ob_results, reader, crashed, history>>

(* What the page holds now, after those awaits, is what is uploaded; of no *)
(* content nothing is sent.                                                *)
Content ==
  IF ~ is_large_file THEN parsed_orders
  ELSE IF large_file_contents = NIL THEN << >> ELSE <<large_file_contents>>

TakeContent(u) ==
  /\ crashed = NIL
  /\ uploader[u].at = "health"
  /\ IF is_large_file
     THEN /\ route' = [route EXCEPT ![u] = "/largeupload"]
          /\ large_file_contents' = NIL
          /\ UNCHANGED parsed_orders
     ELSE /\ route' = [route EXCEPT ![u] = "/smallupload"]
          /\ parsed_orders' = << >>
          /\ UNCHANGED large_file_contents
  /\ IF Content = << >>
     THEN End(u)
     ELSE /\ uploader' = [uploader EXCEPT ![u].at = "send"]
          /\ UNCHANGED server_processing
  /\ submitted' = [submitted EXCEPT ![u] = NIL]
  /\ quiet' = quiet \ {u}
  /\ UNCHANGED <<sessions, handler, visits, charged, runs, repeats, wiped,
                 selected_file, invalid_file, is_large_file, ob_results, reader,
                 crashed, mixed>>

-----------------------------------------------------------------------------
(* upload_small_file and upload_large_file: one turn of their loop. *)

(* The signature of the next request fails, or the request goes out.       *)
SendChunk(u) ==
  /\ crashed = NIL
  /\ uploader[u].at = "send"
  /\ \/ End(u) /\ UNCHANGED handler
     \/ /\ \E i \in Slot :
             /\ Free(u, Slot, i)
             /\ handler' = [handler EXCEPT ![u][i] =
                              [at |-> "arrived", chunk |-> uploader[u].chunk]]
             /\ uploader' = [uploader EXCEPT ![u].at = "wait", ![u].slot = i]
        /\ UNCHANGED server_processing
  /\ UNCHANGED <<sessions, route, visits, charged, runs, repeats, wiped,
                 picked, ob_results, reader, crashed, history>>

LastChunk_OneMore(u) == uploader[u].chunk = Chunks[u]
LastChunk(u) == uploader[u].chunk = Chunks[u] - 1

Awaited(u) == At(u, uploader[u].slot)

(* The answer: an error status ends the upload, success leads on to the    *)
(* next chunk.  Of the last one the page asserts that it was processed.    *)
ReadAnswer(u) ==
  /\ crashed = NIL
  /\ uploader[u].at = "wait" /\ Awaited(u) \in Answer
  /\ handler' = [handler EXCEPT ![u][uploader[u].slot] = NoHandler]
  /\ \/ /\ Awaited(u) = "error"
        /\ End(u)
        /\ UNCHANGED <<ob_results, crashed>>
     \/ /\ Awaited(u) # "error" /\ ~ LastChunk(u)
        /\ uploader' = [uploader EXCEPT ![u] = [at |-> "send", chunk |-> uploader[u].chunk + 1,
                                                slot |-> uploader[u].slot]]
        /\ UNCHANGED <<server_processing, ob_results, crashed>>
     \/ /\ Awaited(u) = "ack" /\ LastChunk(u)
        /\ crashed' = "assertion"
        /\ UNCHANGED <<uploader, server_processing, ob_results>>
     \/ /\ Awaited(u) \in {"processed", "no_orders"} /\ LastChunk(u)
        /\ ob_results' = IF Awaited(u) = "processed" THEN u ELSE NIL
        /\ End(u)
        /\ UNCHANGED crashed
  /\ UNCHANGED <<sessions, route, visits, charged, runs, repeats, wiped,
                 picked, reader, history>>

(* The browser reports that the connection is gone, which it may be at any *)
(* time, and is once the handler is.                                       *)
FailRequest(u) ==
  /\ crashed = NIL
  /\ uploader[u].at = "wait"
  /\ End(u)
  /\ UNCHANGED <<serverVars, picked, ob_results, reader, crashed, history>>

(* Or it sends the request again, on a new connection. *)
RepeatRequest(u) ==
  /\ crashed = NIL
  /\ uploader[u].at = "wait"
  /\ MayFail
  /\ repeats' = [repeats EXCEPT ![u] = @ + 1]
  /\ \E i \in Slot :
       /\ Free(u, Slot \ {uploader[u].slot}, i)
       /\ handler' = [handler EXCEPT ![u][i] =
                        [at |-> "arrived", chunk |-> uploader[u].chunk]]
       /\ uploader' = [uploader EXCEPT ![u].slot = i]
  /\ UNCHANGED <<sessions, route, visits, charged, runs, wiped, picked,
                 server_processing, ob_results, reader, crashed, history>>

-----------------------------------------------------------------------------
User == \/ \E p \in Pick, f \in File \cup {NIL} : PickFile(p, f)
        \/ RemoveFile
        \/ \E u \in Upload : Submit(u)

Page == \/ \E p \in Pick : LearnSize(p) \/ ReadFile(p)
        \/ \E u \in Upload :
             \/ LoseSigner(u) \/ FailHealthCheck(u) \/ TakeContent(u)
             \/ SendChunk(u) \/ ReadAnswer(u)
             \/ Awaited(u) = "none" /\ FailRequest(u)

Server == (\E u \in Upload, i \in Slot : HandlerStep(u, i)) /\ UNCHANGED pageVars

Heard(u, i) == uploader[u].at = "wait" /\ uploader[u].slot = i

Faults == \/ \E u \in Upload : FailRequest(u) \/ RepeatRequest(u)
          \/ \E u \in Upload, i \in Slot : ~ Heard(u, i) /\ Drop(u, i) /\ UNCHANGED pageVars
          \/ Restart /\ UNCHANGED pageVars

Next == User \/ Page \/ Server \/ Faults

Spec == Init /\ [][Next]_vars

(* The page and the server run on.  An upload is finite work, so that no   *)
(* choice between their tasks can pass over one for ever.                  *)
FairSpec == Spec /\ WF_vars(Page) /\ WF_vars(Server)

-----------------------------------------------------------------------------
TypeOK ==
  /\ sessions \in [Upload -> SUBSET Nat]
  /\ handler \in [Upload -> [Slot -> [at : {"none"} \cup Place \cup Answer, chunk : Nat]]]
  /\ route \in [Upload -> Route \cup {"none"}]
  /\ visits \in [Upload -> Nat] /\ runs \in [Upload -> Nat] /\ repeats \in [Upload -> Nat]
  /\ charged \in [Upload -> [address : Nat, global : Nat]]
  /\ uploader \in [Upload -> [at : {"none", "health", "send", "wait", "ended"},
                              chunk : Nat, slot : Slot]]
  /\ \A u \in Upload : /\ sessions[u] \subseteq 0..Chunks[u] - 1
                       /\ uploader[u].chunk < Chunks[u]
                       /\ \A i \in Slot : Chunk(u, i) < Chunks[u]
  /\ selected_file \in File \cup {NIL}
  /\ parsed_orders \in Seq(Small)
  /\ large_file_contents \in Large \cup {NIL}
  /\ ob_results \in Upload \cup {NIL}
  /\ crashed \in {NIL, "size", "signer", "assertion"}

(* Nothing is run that was not counted under both keys, and nothing is     *)
(* counted without a row in the log of visits, whichever step is the last  *)
(* of a handler and however often a request was repeated.                  *)
RunsAreCharged ==
  \A u \in Upload : /\ runs[u] <= charged[u].global
                    /\ charged[u].global <= charged[u].address
                    /\ charged[u].address <= visits[u]

(* An upload is run once, and at most once more for each request that the  *)
(* browser sent twice: storing, testing and clearing are three sections,   *)
(* so that two handlers can both find an upload complete.                  *)
ProcessedOnce == \A u \in Upload : runs[u] <= 1 + repeats[u]

(* What the page asserts of the answer to its last chunk, "processing      *)
(* should be complete here!!", fails only when the server lost the chunks  *)
(* before in a restart, or a request was repeated.                         *)
LastAnswerIsProcessed ==
  crashed = "assertion" =>
    \E u \in Upload : repeats[u] > 0 \/ \E r \in DOMAIN wiped : u \in wiped[r]

(* What is uploaded is the file whose name was shown when the user clicked *)
(* on Submit, if it was read by then, no other file was read beside it and *)
(* none was picked before the health check was answered.                   *)
Taken(u) == route[u] = "none" /\ route'[u] # "none"
UploadsUnmixed ==
  [][ \A u \in quiet : Taken(u) /\ Content # << >> => Content = <<submitted[u]>> ]_vars

(* Results are shown of an upload that has been run, and unless a request  *)
(* was repeated the server has forgotten it by then and nothing goes on.   *)
ResultsAreFinal ==
  ob_results # NIL =>
    /\ runs[ob_results] > 0
    /\ repeats[ob_results] = 0 => /\ sessions[ob_results] = {}
                                 /\ \A i \in Slot : At(ob_results, i) = "none"

(* Every upload comes to an end, and with the last one the progress bar    *)
(* goes, unless a panic has stopped the page.                              *)
UploadsEnd ==
  <>[](crashed # NIL \/ (server_processing = NIL /\ \A u \in Upload : ~ Running(u)))
=============================================================================
