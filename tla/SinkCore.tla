------------------------------ MODULE SinkCore ------------------------------
(***************************************************************************)
(* frontend/src/workers: the receive sink.  SinkCore (sink-core.ts) runs   *)
(* in a worker and processes its requests one at a time in the order they  *)
(* were posted; receive-sink-client.ts posts them and turns replies into   *)
(* callbacks.  abort terminates the worker: with it go the requests it has *)
(* not started and the replies the page has not seen.                      *)
(***************************************************************************)
EXTENDS DataChannel

VARIABLES sink,      \* the core: its state, the size announced, what it holds
          toSink,    \* requests posted to the worker
          fromSink   \* replies posted to the page

sinkVars == <<sink, toSink, fromSink>>

NoSink == [state |-> "none", totalBytes |-> 0, chunks |-> <<>>]

SinkInit == sink = NoSink /\ toSink = <<>> /\ fromSink = <<>>

(* The bytes committed are the ones held, until finalize hands them over.  *)
CommittedOffset == Len(sink.chunks)

-----------------------------------------------------------------------------
(* The page's calls *)

SinkBegin(size) ==
  /\ sink' = [NoSink EXCEPT !.state = "idle"]
  /\ toSink' = <<[type |-> "begin", totalBytes |-> size]>>
  /\ fromSink' = <<>>

SinkPost(req) == toSink' = Append(toSink, req) /\ UNCHANGED <<sink, fromSink>>

(* abort() and terminate() *)
SinkGone == /\ sink' = [NoSink EXCEPT !.state = "terminated"]
            /\ toSink' = <<>> /\ fromSink' = <<>>

SinkAbort == IF sink.state = "none" THEN UNCHANGED sinkVars ELSE SinkGone

-----------------------------------------------------------------------------
(* step(): the worker processes its next request. *)

Reply(r) == fromSink' = Append(fromSink, r)

SinkFailWith(code) ==
  /\ sink' = [sink EXCEPT !.state = "failed", !.chunks = <<>>]
  /\ Reply([type |-> "error", code |-> code])

(* Mutant: the digest is not compared. *)
FinalizeUnchecked(req) ==
  IF CommittedOffset # sink.totalBytes THEN SinkFailWith("short_write")
  ELSE /\ sink' = [sink EXCEPT !.state = "finalized", !.chunks = <<>>]
       /\ Reply([type |-> "done", ok |-> TRUE, result |-> sink.chunks])

Finalize(req) ==
  IF CommittedOffset # sink.totalBytes THEN SinkFailWith("short_write")
  ELSE /\ sink' = [sink EXCEPT !.state = "finalized", !.chunks = <<>>]
       /\ Reply([type |-> "done",
                 ok |-> req.expected = NoHash \/ Digest(sink.chunks) = req.expected,
                 result |-> sink.chunks])

SinkStep ==
  /\ toSink # <<>>
  /\ toSink' = Tail(toSink)
  /\ LET req == Head(toSink)
     IN \/ /\ sink.state = "failed"
           /\ UNCHANGED <<sink, fromSink>>
        \/ /\ sink.state # "failed" /\ req.type = "begin"
           /\ sink' = [state |-> "active", totalBytes |-> req.totalBytes, chunks |-> <<>>]
           /\ Reply([type |-> "ready"])
        \/ /\ sink.state = "active" /\ req.type = "write"
           /\ IF req.offset # CommittedOffset THEN SinkFailWith("sink_failure")
              ELSE LET held == sink.chunks \o req.data
                   IN /\ sink' = [sink EXCEPT !.chunks = held]
                      /\ Reply([type |-> "committed", committedOffset |-> Len(held)])
        \/ /\ sink.state = "active" /\ req.type = "finalize"
           /\ Finalize(req)
        \/ /\ "sink" \in setup.faults /\ sink.state # "failed"
           /\ SinkFailWith("sink_failure")
=============================================================================
