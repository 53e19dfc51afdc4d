---------------------------- MODULE VirtioBlock ----------------------------
(***************************************************************************)
(* The virtio block device: one request is in progress at a time, it ends  *)
(* at once or by a callback, and the callback goes on with the queue.      *)
(***************************************************************************)
EXTENDS VirtioQueue

CONSTANTS
  Value,      \* contents of a disk
  Type,       \* kinds of request the driver sends
  BusyReset   \* the driver resets also while a request is in progress

BlockAssumption == BusyReset \in BOOLEAN

Blank == CHOOSE v \in Value : TRUE

\* async: read_async or write_async returns a positive number and calls back.
\* ok: the request succeeds.  expect: what the driver expects to read.
Requests ==
  [type : Type \cap {"in", "out"}, val : Value, async : BOOLEAN, ok : BOOLEAN]
  \cup [type : Type \cap {"bad", "other"}, val : {Blank}, async : {FALSE}, ok : {FALSE}]

InitialBlock == [busy |-> FALSE, rq |-> 0, rh |-> CHOOSE h \in Chain : TRUE, disk |-> Blank,
                 result |-> [h \in Chain |-> "none"]]

-----------------------------------------------------------------------------
\* A mutant: the status byte is not written.
EndResultFault(d, r) == d.result[d.rh]

\* The data and the status byte that reach the guest's buffer.
EndResult(d, r) ==
  CASE ~r.ok -> "ioerr"
    [] r.type = "in" -> d.disk
    [] OTHER -> "ok"

\* virtio_block_req_end; the disk itself is external.
ReqEnd(d) ==
  LET r == table[d.rq][d.rh]
      done == [d EXCEPT !.disk = IF r.type = "out" /\ r.ok THEN r.val ELSE @,
                        !.result[d.rh] = EndResult(d, r)]
  IN ConsumeDesc(done, d.rq, d.rh)

TakesRequest(d) == ~d.busy

\* virtio_block_recv_request.  A header that cannot be read, or another type
\* of request, is left unanswered.
Recv(d, q, h) ==
  LET r == table[q][h]
      started == [d EXCEPT !.rq = q, !.rh = h]
  IN CASE ~TakesRequest(d) -> [dev |-> d, ret |-> -1]
       [] r.type = "other" -> [dev |-> d, ret |-> 0]
       [] r.async -> [dev |-> [started EXCEPT !.busy = TRUE], ret |-> 0]
       [] OTHER -> [dev |-> ReqEnd(started), ret |-> 0]

\* A mutant: the callback does not look at the queue again.
AfterCallbackFault(d) == d

AfterCallback(d) == QueueNotify(d, d.rq, Recv)

\* virtio_block_req_cb
Callback == /\ dev.busy
            /\ dev' = AfterCallback([ReqEnd(dev) EXCEPT !.busy = FALSE])
            /\ UNCHANGED <<avail, table, drv>>

-----------------------------------------------------------------------------
(* Driver.  last is what the disk holds when all queued writes are done.    *)

Publish(q, h, r) ==
  LET last == IF r.type = "out" /\ r.ok THEN r.val ELSE drv.last
  IN /\ PublishAs(q, h, r @@ [expect |-> last])
     /\ drv' = [drv EXCEPT !.kick = @ \cup {q}, !.last = last]
     /\ UNCHANGED dev

Collect == Drain([dev EXCEPT !.result = [h \in Chain |->
                    IF h \in Range(Unread(0)) THEN "none" ELSE @[h]]])

Reset == /\ BusyReset \/ ~dev.busy
         /\ WriteStatusZero([dev EXCEPT !.result = [h \in Chain |-> "none"]])
         /\ drv' = InitialDriver @@ [last |-> dev.disk]

Init == QueueInit(InitialBlock, [last |-> Blank])

Next == \/ Setup
        \/ \E q \in Queue : Notify(q, Recv)
        \/ Callback
        \/ ReadInterrupt \/ WriteAck
        \/ Collect
        \/ \E q \in Queue, h \in Chain, r \in Requests : Publish(q, h, r)
        \/ Reset

Spec == Init /\ [][Next]_vars

-----------------------------------------------------------------------------
(* Properties *)

(* A read that was queued after a write returns what was written, and every *)
(* answer carries the status of its own request: requests are performed in  *)
(* ring order and one at a time, though some end by a callback              *)
(* (virtio_block_recv_request, virtio_block_req_end).                       *)
ReadSeesWrites ==
  \A q \in Queue : \A h \in Range(Unread(q)) :
    dev.result[h] = CASE ~table[q][h].ok -> "ioerr"
                      [] table[q][h].type = "in" -> table[q][h].expect
                      [] OTHER -> "ok"

(* When no request is in progress and all notifications have been taken,    *)
(* every chain has been looked at: the ones still with the device are those *)
(* it cannot read or whose type it does not know (virtio_block_req_cb goes  *)
(* on with the queue).                                                      *)
NothingForgotten ==
  ~dev.busy /\ drv.kick = {} =>
    \A q \in Queue : dev.queue[q].ready =>
      /\ Pending(dev, q) = <<>>
      /\ \A h \in InFlight(q) \ Range(Unread(q)) : table[q][h].type \in {"bad", "other"}
=============================================================================
