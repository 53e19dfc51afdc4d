---------------------------- MODULE VirtioStream ----------------------------
(***************************************************************************)
(* The virtio console and network devices: the driver sends on queue 1,    *)
(* where device_recv passes each chain on at once; it gives buffers on     *)
(* queue 0, which the device fills when the host has data (manual_recv).   *)
(***************************************************************************)
EXTENDS VirtioQueue

CONSTANTS
  Kind,     \* "console" or "net"
  Size      \* sizes of the driver's receive buffers and of the host's packets

StreamAssumption ==
       /\ Kind \in {"console", "net"} /\ Size \subseteq Nat
       /\ 0 \in Queue /\ 1 \in Queue /\ Manual = {0}

\* What a driver queues: a buffer of some size, or data number val to be sent.
Buffers == [type : {"buf"}, size : Size, val : {0}]

\* Data are numbered modulo IdxMod.  The device keeps nothing of its own; out is
\* what the host got, in the order of the calls of write_packet or write_data,
\* as the next number expected there.  fill is what is in each receive buffer.
NoFill == [val |-> 0, len |-> 0]

InitialStream == [out |-> 0, lost |-> FALSE, fill |-> [c \in Chain |-> NoFill]]

-----------------------------------------------------------------------------
\* A mutant: the chain is passed on but not returned to the driver.
SentFault(d, q, h) == d

Sent(d, q, h) == ConsumeDesc(d, q, h)

\* A chain shorter than the header of a packet, which has size 1 here
Runt(q, h) == Kind = "net" /\ table[q][h].size < 1

\* virtio_net_recv_request, virtio_console_recv_request.  The next number the
\* host expects goes up if this is the data it expects; otherwise it notices.
\* A runt is passed over, and never given back to the driver.
Recv(d, q, h) ==
  IF q # 1 \/ Runt(q, h) THEN [dev |-> d, ret |-> 0]
  ELSE [dev |-> Sent([d EXCEPT !.out = (@ + 1) % IdxMod,
                               !.lost = @ \/ table[q][h].val # d.out], q, h),
        ret |-> 0]

\* A mutant: the buffer is filled and returned, but the device stays at it.
FillBufferFault(d, val, len) ==
  LET h == NextBuffer(d, 0)
  IN ConsumeDesc([d EXCEPT !.fill[h] = [val |-> val, len |-> len]], 0, h)

\* The data is copied, the buffer returned, the position advanced.
FillBuffer(d, val, len) ==
  LET h == NextBuffer(d, 0)
  IN Advance(ConsumeDesc([d EXCEPT !.fill[h] = [val |-> val, len |-> len]], 0, h), 0)

\* A mutant: the size of the buffer is not looked at.
FitsFault(d, len) == TRUE

\* The network device compares the packet with the buffer.  For the console
\* the caller asks for the size first (virtio_console_get_write_len) and reads
\* no more than that.
Fits(d, len) == len <= table[0][NextBuffer(d, 0)].size

\* virtio_net_can_write_packet, then virtio_net_write_packet: a packet that
\* does not fit is dropped.
NetWrite(len) ==
  /\ Kind = "net" /\ CanWrite(dev, 0)
  /\ IF Fits(dev, len)
     THEN /\ dev' = FillBuffer(dev, drv.sent, len)
          /\ drv' = [drv EXCEPT !.sent = (@ + 1) % IdxMod]
     ELSE UNCHANGED <<dev, drv>>
  /\ UNCHANGED <<avail, table>>

\* virtio_console_can_write_data, virtio_console_get_write_len, then
\* virtio_console_write_data.
ConsoleWrite(len) ==
  /\ Kind = "console" /\ CanWrite(dev, 0) /\ Fits(dev, len)
  /\ dev' = FillBuffer(dev, drv.sent, len)
  /\ drv' = [drv EXCEPT !.sent = (@ + 1) % IdxMod]
  /\ UNCHANGED <<avail, table>>

\* virtio_console_resize_event
Resize == /\ Kind = "console"
          /\ dev' = ConfigChanged(dev)
          /\ UNCHANGED <<avail, table, drv>>

-----------------------------------------------------------------------------
(* Driver: next is the number it puts on what it sends; got the one it      *)
(* expects to receive.  sent is the host's counter.                         *)

PublishBuffer(h, r) == /\ PublishAs(0, h, r)
                       /\ drv' = [drv EXCEPT !.kick = @ \cup {0}]
                       /\ UNCHANGED dev

\* This driver puts the whole header into what it sends.
PublishData(h) == /\ PublishAs(1, h, [type |-> "data", size |-> 1, val |-> drv.next])
                  /\ drv' = [drv EXCEPT !.kick = @ \cup {1}, !.next = (@ + 1) % IdxMod]
                  /\ UNCHANGED dev

Collect == Drain([dev EXCEPT !.fill = [h \in Chain |->
                    IF h \in Range(Unread(0)) THEN NoFill ELSE @[h]]])

\* Numbering starts again.
Reset == /\ WriteStatusZero([dev EXCEPT !.out = 0, !.fill = [h \in Chain |-> NoFill]])
         /\ drv' = InitialDriver @@ [next |-> 0, sent |-> 0]

Init == QueueInit(InitialStream, [next |-> 0, sent |-> 0])

Next == \/ Setup
        \/ \E q \in Queue : Notify(q, Recv)
        \/ \E len \in Size : NetWrite(len) \/ ConsoleWrite(len)
        \/ Resize
        \/ ReadInterrupt \/ WriteAck \/ Collect
        \/ \E h \in Chain : PublishData(h) \/ \E r \in Buffers : PublishBuffer(h, r)
        \/ Reset

Spec == Init /\ [][Next]_vars

-----------------------------------------------------------------------------
(* Properties *)

(* The host gets what the driver sent, each chain once and in the order of  *)
(* the ring, whatever notifications, resets and wraps come in between       *)
(* (queue_notify with virtio_console_recv_request or                        *)
(* virtio_net_recv_request).                                                *)
SentInOrder == ~dev.lost

(* The buffers returned to the driver hold the host's data in order and     *)
(* without a gap, and never more than they have room for (FillBuffer).      *)
ReceivedInOrder ==
  LET u == Unread(0)
  IN \A k \in 1..Len(u) :
       /\ dev.fill[u[k]].val = (drv.sent - Len(u) + k - 1) % IdxMod
       /\ dev.fill[u[k]].len <= table[0][u[k]].size
=============================================================================
