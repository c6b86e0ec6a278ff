------------------------------ MODULE ConnApp ------------------------------
(***************************************************************************)
(* The user's side of a connection: the methods of ConnHandler in          *)
(* crates/libncd-runtime/src/connection.rs, called in the way both of their*)
(* users call them, connection_run of crates/ncdd/src/device.rs and        *)
(* handle_connection of crates/ncd/src/runtime.rs: read and write in turn  *)
(* until one of them fails or the user wants to close, then close, and hand*)
(* on whatever messages come back with an error or from close.             *)
(***************************************************************************)
EXTENDS ConnTask

CONSTANTS
    MaxWrites,   \* bound: messages the user of each endpoint writes
    Closers      \* endpoints whose user may close on its own account

ASSUME AppAssumption ==
    /\ MaxWrites \in [Node -> Nat]
    /\ Closers \subseteq Node

VARIABLES
    app,      \* app[e]: where the user of e is
    written,  \* history: messages that write accepted
    got,      \* history: messages the user has received, in order
    cached,   \* task_handle is Finished
    cache,    \* the messages cached in it
    result    \* result[e]: what close returned: "Ok" (Ok(Ok(_))) or "Unknown"

appVars == <<app, written, got, cached, cache, result>>

AppState == {"opening", "loop", "writing", "breaking", "closeReq", "closing",
             "over", "panicked", "crashed"}

AppTypeOK ==
    /\ app \in [Node -> AppState]
    /\ written \in [Node -> Nat]
    /\ \A e \in Node : written[e] <= MaxWrites[e]
    /\ got \in [Node -> Seq(Nat)]
    /\ cached \in [Node -> BOOLEAN]
    /\ cache \in [Node -> Seq(Nat)]
    /\ result \in [Node -> {"none", "Ok", "Unknown"}]

AppInit ==
    /\ app = [e \in Node |-> "opening"]
    /\ written = [e \in Node |-> 0]
    /\ got = [e \in Node |-> <<>>]
    /\ cached = [e \in Node |-> FALSE]
    /\ cache = [e \in Node |-> <<>>]
    /\ result = [e \in Node |-> "none"]

-----------------------------------------------------------------------------
Become(e, state) == app' = [app EXCEPT ![e] = state]

Receive(e, msgs) == got' = [got EXCEPT ![e] = @ \o msgs]

\* The task has dropped its ends of the channels.
TaskGone(e) == pc[e] \in {"dropped", "finished"}

\* check_task_state says that the task has finished; it then caches what is
\* left in the channel, once, and returns the cache.
Finished(e) == cached[e] \/ pc[e] = "finished"

Remaining(e) == IF cached[e] THEN cache[e] ELSE resp[e]

CacheRemaining(e) ==
    /\ cached' = [cached EXCEPT ![e] = TRUE]
    /\ cache' = [cache EXCEPT ![e] = Remaining(e)]
    /\ resp' = [resp EXCEPT ![e] = <<>>]
    /\ UNCHANGED req

\* open returns.
Opened(e) ==
    /\ app[e] = "opening"
    /\ pc[e] \notin {"hello", "awaitHello", "ack", "awaitAck", "failed"}
    /\ Become(e, "loop")
    /\ UNCHANGED <<written, got, cached, cache, result, channels>>

OpenFailed(e) ==
    /\ app[e] = "opening"
    /\ pc[e] = "failed"
    /\ Become(e, "over")
    /\ UNCHANGED <<written, got, cached, cache, result, channels>>

-----------------------------------------------------------------------------
\* read: a message is there.
Read(e) ==
    /\ app[e] = "loop"
    /\ resp[e] # <<>>
    /\ Receive(e, <<Head(resp[e])>>)
    /\ resp' = [resp EXCEPT ![e] = Tail(@)]
    /\ UNCHANGED <<app, written, cached, cache, result, req>>

\* Mutant: the loop goes on after an error of read.
ReadClosedRetries(e) ==
    /\ app[e] = "loop"
    /\ resp[e] = <<>>
    /\ TaskGone(e)
    /\ Finished(e)
    /\ CacheRemaining(e)
    /\ UNCHANGED <<app, got, written, result>>

\* read: the channel is empty and closed.  The messages in the error are handed
\* on, and the loop is left.
ReadClosed(e) ==
    /\ app[e] = "loop"
    /\ resp[e] = <<>>
    /\ TaskGone(e)
    /\ Finished(e)
    /\ CacheRemaining(e)
    /\ Receive(e, Remaining(e))
    /\ Become(e, "breaking")
    /\ UNCHANGED <<written, result>>

\* The same before the JoinHandle reports the task as finished:
\* expect("Task should finished").
ReadPanics(e) ==
    /\ app[e] = "loop"
    /\ resp[e] = <<>>
    /\ TaskGone(e)
    /\ ~Finished(e)
    /\ Become(e, "panicked")
    /\ UNCHANGED <<written, got, cached, cache, result, channels>>

\* write begins; the loop waits for it, and reads nothing meanwhile.
Write(e) ==
    /\ app[e] = "loop"
    /\ written[e] < MaxWrites[e]
    /\ ~Finished(e)
    /\ Become(e, "writing")
    /\ UNCHANGED <<written, got, cached, cache, result, channels>>

\* Mutant: the messages in the error of write are handed on as well.
WriteClosedHandsOn(e) ==
    /\ app[e] = "loop"
    /\ written[e] < MaxWrites[e]
    /\ Finished(e)
    /\ CacheRemaining(e)
    /\ Receive(e, Remaining(e))
    /\ Become(e, "breaking")
    /\ UNCHANGED <<written, result>>

\* write fails since the task has finished; the messages in its error are left
\* to close.
WriteClosed(e) ==
    /\ app[e] = "loop"
    /\ written[e] < MaxWrites[e]
    /\ Finished(e)
    /\ CacheRemaining(e)
    /\ Become(e, "breaking")
    /\ UNCHANGED <<written, got, result>>

WriteQueued(e) ==
    /\ app[e] = "writing"
    /\ ~TaskGone(e)
    /\ Len(req[e]) < BufferSize
    /\ req' = [req EXCEPT ![e] = Append(@, Data(written[e] + 1))]
    /\ written' = [written EXCEPT ![e] = @ + 1]
    /\ Become(e, "loop")
    /\ UNCHANGED <<got, cached, cache, result, resp>>

\* The request channel closed meanwhile: Unknown.
WriteFails(e) ==
    /\ app[e] = "writing"
    /\ TaskGone(e)
    /\ Become(e, "breaking")
    /\ UNCHANGED <<written, got, cached, cache, result, channels>>

-----------------------------------------------------------------------------
WantsClose(e) == app[e] = "breaking" \/ (app[e] = "loop" /\ e \in Closers)

\* close finds the task finished: Ok(Ok(messages)), whatever the task returned.
CloseFinished(e) ==
    /\ WantsClose(e)
    /\ Finished(e)
    /\ CacheRemaining(e)
    /\ Receive(e, Remaining(e))
    /\ result' = [result EXCEPT ![e] = "Ok"]
    /\ Become(e, "over")
    /\ UNCHANGED written

Close(e) ==
    /\ WantsClose(e)
    /\ ~Finished(e)
    /\ Become(e, "closeReq")
    /\ UNCHANGED <<written, got, cached, cache, result, channels>>

CloseQueued(e) ==
    /\ app[e] = "closeReq"
    /\ ~TaskGone(e)
    /\ Len(req[e]) < BufferSize
    /\ req' = [req EXCEPT ![e] = Append(@, Ctl("Close"))]
    /\ Become(e, "closing")
    /\ UNCHANGED <<written, got, cached, cache, result, resp>>

\* The request channel closed meanwhile: Unknown, and the handler is dropped
\* with the messages in it.
CloseFails(e) ==
    /\ app[e] = "closeReq"
    /\ TaskGone(e)
    /\ result' = [result EXCEPT ![e] = "Unknown"]
    /\ Become(e, "over")
    /\ UNCHANGED <<written, got, cached, cache, channels>>

\* The task has finished: Ok(Ok(messages)), whatever it returned.
CloseReturns(e) ==
    /\ app[e] = "closing"
    /\ Finished(e)
    /\ CacheRemaining(e)
    /\ Receive(e, Remaining(e))
    /\ result' = [result EXCEPT ![e] = "Ok"]
    /\ Become(e, "over")
    /\ UNCHANGED written

-----------------------------------------------------------------------------
OpenStep(e)  == Opened(e) \/ OpenFailed(e)
ReadStep(e)  == Read(e) \/ ReadClosed(e) \/ ReadPanics(e)
WriteStep(e) == WriteQueued(e) \/ WriteFails(e)
EndOfApp(e)  == CloseQueued(e) \/ CloseFails(e) \/ CloseReturns(e)
                   \/ (app[e] = "breaking" /\ (Close(e) \/ CloseFinished(e)))

App(e) == \/ OpenStep(e) \/ ReadStep(e) \/ WriteStep(e) \/ EndOfApp(e)
          \/ Write(e) \/ WriteClosed(e) \/ Close(e) \/ CloseFinished(e)
=============================================================================
