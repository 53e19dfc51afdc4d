---------------------------- MODULE VirtioInput ----------------------------
(***************************************************************************)
(* The virtio keyboard, mouse and tablet.  One action of the user is a     *)
(* group of events that ends with SYN; each event takes a buffer of queue  *)
(* 0, and the group is given up where the buffers run out.                 *)
(***************************************************************************)
EXTENDS VirtioQueue

CONSTANTS
  Mouse,    \* TRUE: mouse or tablet; FALSE: keyboard
  Button    \* buttons_list, as 1..n

InputAssumption == Mouse \in BOOLEAN /\ 0 \in Queue /\ Manual = {0}

NoEvent == [ev |-> "none", code |-> 0, down |-> FALSE]
Event(ev, code, down) == [ev |-> ev, code |-> code, down |-> down]
Syn == Event("syn", 0, FALSE)

InitialInput == [buttons |-> {}, fill |-> [c \in Chain |-> NoEvent]]

-----------------------------------------------------------------------------
\* virtio_input_queue_event; acc.ok is its result.
QueueEvent(acc, e) ==
  IF ~acc.ok \/ ~CanWrite(acc.dev, 0) THEN [acc EXCEPT !.ok = FALSE]
  ELSE LET h == NextBuffer(acc.dev, 0)
       IN [dev |-> Advance(ConsumeDesc([acc.dev EXCEPT !.fill[h] = e], 0, h), 0), ok |-> TRUE]

Send(d, events) == FoldLeft(QueueEvent, [dev |-> d, ok |-> TRUE], events)

\* One event for each button that changed, in the order of the list.
ButtonEvents(old, new) ==
  SelectSeq([b \in 1..Cardinality(Button) |-> Event("key", b, b \in new)],
            LAMBDA e : (e.code \in new) # (e.code \in old))

\* A mutant: the state is recorded before its events are sent.
ButtonsAfterFault(d, r, new) == new

\* buttons_state is written when all the button events have been sent.
ButtonsAfter(d, r, new) == IF r.ok THEN new ELSE d.buttons

\* virtio_input_send_mouse_event: the two axes, the wheel, the buttons, SYN.
SendMouse(new, wheel) ==
  /\ Mouse
  /\ LET moved == Send(dev, <<Event("rel", 0, FALSE), Event("rel", 1, FALSE)>>
                            \o (IF wheel THEN <<Event("rel", 8, FALSE)>> ELSE <<>>))
         r == FoldLeft(QueueEvent, moved, ButtonEvents(dev.buttons, new))
         kept == [r EXCEPT !.dev.buttons = ButtonsAfter(dev, r, new)]
         all == QueueEvent(kept, Syn)
     IN /\ dev' = all.dev
        /\ drv' = [drv EXCEPT !.user = new, !.told = r.ok,
                              !.whole = @ /\ (r.ok \/ r.dev = moved.dev)]
  /\ UNCHANGED <<avail, table>>

\* A mutant: SYN comes before the key event.
KeyEventsFault(d, key, down) == Send(d, <<Syn, Event("key", key, down)>>)

\* virtio_input_send_key_event
KeyEvents(d, key, down) == Send(d, <<Event("key", key, down), Syn>>)

SendKey(key, down) ==
  /\ ~Mouse
  /\ LET r == KeyEvents(dev, key, down)
     IN /\ dev' = r.dev
        /\ drv' = [drv EXCEPT !.user = IF down THEN @ \cup {key} ELSE @ \ {key},
                              !.whole = @ /\ r.ok]
  /\ UNCHANGED <<avail, table>>

\* virtio_input_recv_request: LED updates of the driver are taken and returned.
Recv(d, q, h) == IF q = 1 THEN [dev |-> ConsumeDesc(d, q, h), ret |-> 0]
                          ELSE [dev |-> d, ret |-> 0]

-----------------------------------------------------------------------------
(* Driver: view is what it believes to be pressed, open that it has seen    *)
(* events and no SYN after them.  user is what is pressed, told that the     *)
(* last group reported all its buttons, whole that no group was given up    *)
(* between two of its buttons and that the driver began with nothing        *)
(* pressed: a reset does not clear buttons_state.                           *)

\* The buffers are alike: the driver takes the first free one.
Publish(q, h) == /\ \A g \in Chain : g < h => table[q][g].type # "free"
                 /\ PublishAs(q, h, [type |-> "buf"])
                 /\ drv' = [drv EXCEPT !.kick = @ \cup {q}]
                 /\ UNCHANGED dev

Perceive(acc, h) ==
  LET e == dev.fill[h]
  IN [view |-> CASE e.ev = "key" /\ e.down -> acc.view \cup {e.code}
                 [] e.ev = "key" -> acc.view \ {e.code}
                 [] OTHER -> acc.view,
      open |-> e.ev # "syn",
      stray |-> acc.stray \/ (e.ev = "syn" /\ ~acc.open)]

Seen == FoldLeft(Perceive, [view |-> drv.view, open |-> drv.open, stray |-> drv.stray], Unread(0))

\* The part of Drain that the input driver adds.
Collect ==
  /\ drv.pc = "acked"
  /\ drv' = [drv EXCEPT !.pc = "idle", !.isr = {},
                        !.seen = [q \in Queue |-> dev.used[q].idx],
                        !.view = Seen.view, !.open = Seen.open, !.stray = Seen.stray]
  /\ DrainRings([dev EXCEPT !.fill = [h \in Chain |->
                   IF h \in Range(Unread(0)) THEN NoEvent ELSE @[h]]])

DriverView(user, known) ==
  [view |-> {}, open |-> FALSE, stray |-> FALSE, user |-> user, told |-> TRUE, whole |-> known]

Reset == /\ WriteStatusZero([dev EXCEPT !.fill = [h \in Chain |-> NoEvent]])
         /\ drv' = InitialDriver @@ DriverView(drv.user, drv.user = {} /\ dev.buttons = {})

Init == QueueInit(InitialInput, DriverView({}, TRUE))

Next == \/ Setup
        \/ \E q \in Queue : Notify(q, Recv)
        \/ \E b \in SUBSET Button, w \in BOOLEAN : SendMouse(b, w)
        \/ \E k \in Button, d \in BOOLEAN : SendKey(k, d)
        \/ ReadInterrupt \/ WriteAck \/ Collect
        \/ \E q \in Queue, h \in Chain : Publish(q, h)
        \/ Reset

Spec == Init /\ [][Next]_vars

-----------------------------------------------------------------------------
(* Properties *)

(* After a group whose buttons were all reported, the guest that has read   *)
(* its buffers believes pressed what the user presses, also when earlier    *)
(* groups were given up for want of buffers: changes are computed against   *)
(* the last state reported (virtio_input_send_mouse_event).  A group given  *)
(* up between two buttons is excepted, see whole.                           *)
ButtonsAgree ==
  dev.queue[0].ready /\ drv.whole /\ drv.told => Seen.view = drv.user

(* The guest never gets a SYN that ends no group: an event that was given   *)
(* up takes its SYN with it (virtio_input_send_key_event and                *)
(* virtio_input_send_mouse_event return early).                             *)
NoStraySyn == ~Seen.stray
=============================================================================
