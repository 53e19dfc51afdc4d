----------------------------- MODULE DwApbUart -----------------------------
(***************************************************************************)
(* The DesignWare UART of dw_apb_uart.cpp.  It has no clock: a character   *)
(* waits in the console until an access of the guest polls for it, and the *)
(* interrupt line moves only inside an access.                             *)
(***************************************************************************)
EXTENDS Integers, Sequences

CONSTANT NChars     \* characters the console has for the guest

UartAssumption == NChars \in Nat

Input == [i \in 1..NChars |-> i]

VARIABLES
  uart,     \* registers: dlab (bit 7 of lcr), ier, rx and thre (lsr), rhr, isr, irq
  console,  \* characters not read yet
  got       \* history: what the guest read from RHR while LSR said data ready

uartVars == <<uart, console, got>>

Cause == {"rdi", "thri", "msi"}     \* line status errors never happen
NoChar == 0

UartInit == /\ uart = [dlab |-> FALSE, div |-> 0, ier |-> {}, rx |-> FALSE, thre |-> FALSE,
                       rhr |-> NoChar, isr |-> "modem", irq |-> FALSE]
            /\ console = Input /\ got = <<>>

-----------------------------------------------------------------------------
\* The interrupt identification.  The delta bits of msr are never all set, so
\* that the modem status interrupt, once enabled, is always there.
Isr(u) == IF "rdi" \in u.ier /\ u.rx THEN "data"
          ELSE IF "thri" \in u.ier /\ u.thre THEN "empty"
          ELSE IF "msi" \in u.ier THEN "modem" ELSE "none"

\* update_isr; the line is moved only when its level changes.
UpdateIsr(u) == [u EXCEPT !.isr = Isr(u), !.irq = Isr(u) # "none"]

\* A mutant: the console is read although the last character was not taken.
PollFault(u, c) ==
  UpdateIsr(IF c = <<>> THEN u ELSE [u EXCEPT !.rx = TRUE, !.rhr = Head(c)])

\* dw_apb_uart_poll
Poll(u, c) ==
  IF u.rx THEN u
  ELSE UpdateIsr(IF c = <<>> THEN u ELSE [u EXCEPT !.rx = TRUE, !.rhr = Head(c)])

Rest(u, v, c) == IF ~u.rx /\ v.rx THEN Tail(c) ELSE c

\* read_rhr; with dlab set the divisor is read.
ReadRhr ==
  /\ uart' = IF uart.dlab THEN uart ELSE UpdateIsr([uart EXCEPT !.rx = FALSE])
  /\ got' = IF ~uart.dlab /\ uart.rx THEN Append(got, uart.rhr) ELSE got
  /\ UNCHANGED console

\* write_thr: the character goes out at once, and the console is polled.
WriteThr(ch) ==
  IF uart.dlab THEN /\ uart' = [uart EXCEPT !.div = ch]
                    /\ UNCHANGED <<console, got>>
  ELSE LET u == UpdateIsr([uart EXCEPT !.thre = FALSE])
       IN /\ uart' = Poll(u, console)
          /\ console' = Rest(u, uart', console)
          /\ UNCHANGED got

WriteIer(causes) ==
  /\ uart' = IF uart.dlab THEN uart ELSE UpdateIsr([uart EXCEPT !.ier = causes])
  /\ UNCHANGED <<console, got>>

WriteLcr(dlab) ==
  /\ uart' = [uart EXCEPT !.dlab = dlab]
  /\ UNCHANGED <<console, got>>

\* A mutant: the status is updated by the poll only, which a waiting character skips.
LsrFault(u, c) == Poll([u EXCEPT !.thre = TRUE], c)

Lsr(u, c) == UpdateIsr(Poll([u EXCEPT !.thre = TRUE], c))

ReadLsr ==
  /\ uart' = Lsr(uart, console)
  /\ console' = Rest(uart, uart', console)
  /\ UNCHANGED got

ReadMsr == /\ uart' = UpdateIsr(uart)
           /\ UNCHANGED <<console, got>>

UartNext == \/ ReadRhr \/ ReadLsr \/ ReadMsr
            \/ \E ch \in 1..2 : WriteThr(ch)
            \/ \E s \in SUBSET Cause : WriteIer(s)
            \/ \E b \in BOOLEAN : WriteLcr(b)

UartSpec == UartInit /\ [][UartNext]_uartVars

-----------------------------------------------------------------------------
(* Properties *)

(* No character is lost, doubled or reordered between the console and the   *)
(* guest, although one register holds them all and three different accesses *)
(* fill and empty it (dw_apb_uart_poll, read_rhr).                          *)
CharsInOrder == got \o (IF uart.rx THEN <<uart.rhr>> ELSE <<>>) \o console = Input

(* Once an access has run, the interrupt line and the identification agree  *)
(* with the causes the guest enabled: it neither waits for an interrupt     *)
(* that is due nor is called for none (update_isr).                         *)
LineFollowsCauses ==
  LET due == ("rdi" \in uart.ier /\ uart.rx) \/ ("thri" \in uart.ier /\ uart.thre) \/ "msi" \in uart.ier
  IN uart.irq = due /\ (due => uart.isr # "none")

-----------------------------------------------------------------------------
(* The inductive invariant *)

UartType == [dlab : BOOLEAN, div : 0..2, ier : SUBSET Cause, rx : BOOLEAN, thre : BOOLEAN,
             rhr : Int, isr : {"data", "empty", "modem", "none"}, irq : BOOLEAN]

UartInv ==
  /\ uart \in UartType /\ console \in Seq(Int) /\ got \in Seq(Int)
  /\ CharsInOrder /\ LineFollowsCauses
=============================================================================
