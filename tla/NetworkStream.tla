--------------------------- MODULE NetworkStream ---------------------------
(***************************************************************************)
(* The stream NetworkBridge::messages_for hands the voter for a round      *)
(* (core/crfg/src/lib.rs:224-248, 506-514).  messages_for queues a closure *)
(* on the network thread (service.with_gossip) and returns at once with    *)
(* the oneshot receiver `outer`; when the closure runs it subscribes to    *)
(* the round's topic and sends the engine's channel receiver through the   *)
(* oneshot.  The stream's poll first waits for the oneshot, then keeps the *)
(* receiver in `inner` and polls it from then on.                          *)
(*                                                                         *)
(* A stream is a record:                                                   *)
(*   outer    "Pending"   the closure has not run yet                      *)
(*            "Sent"      tx.send(inner_rx) done, not yet polled           *)
(*            "Canceled"  the closure was dropped with its sender          *)
(*            "Taken"     self.inner = Some(inner)                         *)
(*            "Failed"    poll returned Err(())                            *)
(*            "None"      no voter, so no stream                           *)
(*   pending  a message sits in the engine's channel, not yet yielded      *)
(*   notify   the task polling the stream has been woken                   *)
(*   interest what the last NotReady registered the task with (futures     *)
(*            0.1: a NotReady registers the current task with the          *)
(*            receiver that returned it, and only that one wakes it)       *)
(* One unread message at a time is enough to tell a delivered message from *)
(* one stuck in the channel.                                               *)
(***************************************************************************)

Outers == {"Pending", "Sent", "Canceled", "Taken", "Failed", "None"}

Streams ==
  [outer : Outers, pending : BOOLEAN, notify : BOOLEAN,
   interest : {"none", "outer", "inner"}]

\* A fresh NetworkStream { outer: rx, inner: None }, created on the voter's
\* task, which goes on to poll it.
NewStream ==
  [outer |-> "Pending", pending |-> FALSE, notify |-> TRUE, interest |-> "none"]

\* No voter runs, so nobody holds a stream.
NoStream ==
  [outer |-> "None", pending |-> FALSE, notify |-> FALSE, interest |-> "none"]

\* Waking the task registered with a receiver that just became ready.
Wake(s, rx) == s.notify \/ s.interest = rx

\* The with_gossip closure runs (lib.rs:509-512): it subscribes and sends
\* the receiver through the oneshot, waking a task waiting on it.
SendInner(s) == [s EXCEPT !.outer = "Sent", !.notify = Wake(s, "outer")]

\* The closure is dropped unrun (the network thread is gone): the oneshot
\* sender is dropped with it, which also wakes the waiting task.
CancelOuter(s) == [s EXCEPT !.outer = "Canceled", !.notify = Wake(s, "outer")]

\* The gossip engine pushes a message for the topic into the subscription's
\* unbounded channel (the engine is not in this tree).
Push(s) == [s EXCEPT !.pending = TRUE, !.notify = Wake(s, "inner")]

\* inner.poll(): Ready(Some(msg)) when a message waits, and the consumer
\* polls again; otherwise NotReady, registering the task with inner.
PollInner(s) ==
  IF s.pending THEN [s EXCEPT !.pending = FALSE]
  ELSE [s EXCEPT !.notify = FALSE, !.interest = "inner"]

\* The Ready(inner) arm storing the receiver but answering NotReady without
\* polling it.
PollStoreOnly(s) ==
  IF s.outer = "Taken" THEN PollInner(s)
  ELSE CASE s.outer = "Sent" -> [s EXCEPT !.outer = "Taken", !.notify = FALSE]
         [] s.outer = "Pending" -> [s EXCEPT !.notify = FALSE, !.interest = "outer"]
         [] OTHER -> [s EXCEPT !.outer = "Failed", !.notify = FALSE]

\* NetworkStream::poll (lib.rs:234-248): the stored receiver if there is
\* one; else the oneshot: Ready(inner) stores it and returns inner's first
\* poll, NotReady waits on the oneshot, Err (sender dropped) is Err(()).
Poll(s) ==
  IF s.outer = "Taken" THEN PollInner(s)
  ELSE CASE s.outer = "Sent" -> PollInner([s EXCEPT !.outer = "Taken"])
         [] s.outer = "Pending" -> [s EXCEPT !.notify = FALSE, !.interest = "outer"]
         [] OTHER -> [s EXCEPT !.outer = "Failed", !.notify = FALSE]
=============================================================================
