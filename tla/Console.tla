-------------------------------- MODULE Console --------------------------------
(***************************************************************************)
(* The UART that the VMs share where CONFIG_VSERIAL is 0                   *)
(* (drivers/vdev/vdev_pl01x.c).  One VM owns it: its vCPUs are given the   *)
(* interrupt, its reads of UARTDR are those of the device.  A read of      *)
(* UARTDR by another VM consumes a character too, but returns what that VM *)
(* has written last.  The owner changes when it reads the hot key.  Every  *)
(* other register is that of the device for every VM; of these, the ones   *)
(* that decide about the receive interrupt are here (UARTMSC, UARTICR).    *)
(***************************************************************************)
EXTENDS Naturals, Sequences

CONSTANTS
    NrGuests,  \* CONFIG_NR_VMS
    Key,       \* the hot key, Ctrl-Y
    Char,      \* any other character
    FifoSize,  \* bound: of the UART's receive FIFO
    MaxTyped   \* bound: characters typed

ASSUME ConsoleAssumption ==
    /\ NrGuests \in Nat \ {0} /\ Key # Char
    /\ FifoSize \in Nat \ {0} /\ MaxTyped \in Nat

VARIABLES
    ownerId,   \* owner_id
    fifo,      \* what has been typed and not been read
    typed,     \* how much has been typed
    uartIrq,   \* the VMs whose vCPU has virq 37, not yet acknowledged
    serving,   \* the VMs whose handler reads characters
    irqActive, \* SPI 37 is active in the distributor
    rxOn,      \* the device's UARTMSC lets the receive interrupts through
    raised,    \* the device's receive interrupt status
    strays     \* history: how often a VM read a character that it did not own

device == <<rxOn, raised>>
consoleVars == <<ownerId, fifo, typed, uartIrq, serving, irqActive, device, strays>>

Guests == 0 .. NrGuests - 1

ConsoleInit ==
    /\ ownerId = 0 /\ fifo = <<>> /\ typed = 0
    /\ uartIrq = {} /\ serving = {} /\ irqActive = FALSE /\ strays = 0
    /\ rxOn = FALSE /\ raised = FALSE \* the device out of reset

Type(ch) ==
    /\ Len(fifo) < FifoSize /\ typed < MaxTyped
    /\ fifo' = Append(fifo, ch) /\ typed' = typed + 1 /\ raised' = TRUE
    /\ UNCHANGED <<ownerId, uartIrq, serving, irqActive, rxOn, strays>>

\* The line of the UART is high.
Listening == raised /\ rxOn

\* vdev_pl01x_irq_handler.  There has to be a VM with the number of the owner.
UartIrq ==
    /\ Listening /\ ~ irqActive
    /\ ownerId \in Guests
    /\ irqActive' = TRUE
    /\ uartIrq' = uartIrq \cup {ownerId}
    /\ UNCHANGED <<ownerId, fifo, typed, serving, device, strays>>

\* The next owner.  Faulty variant: there is one for ever.
NextOwnerNoWrap(v) == v + 1
NextOwner(v) == (v + 1) % NrGuests

\* vuart_read of UARTDR, in the handler of a guest, which goes on as long as
\* UARTFR says that there is a character.
ReadChar(v) ==
    /\ v \in serving /\ fifo # <<>>
    /\ fifo' = Tail(fifo) /\ raised' = (raised /\ Tail(fifo) # <<>>)
    /\ IF v = ownerId
       THEN /\ ownerId' = IF Head(fifo) = Key THEN NextOwner(ownerId) ELSE ownerId
            /\ UNCHANGED strays
       ELSE /\ strays' = strays + 1
            /\ UNCHANGED ownerId
    /\ UNCHANGED <<typed, uartIrq, serving, irqActive, rxOn>>

\* What guests write to UARTMSC: nothing, receive only, receive and transmit.
Masks == {0, 80, 112}

\* vuart_write of UARTMSC, by any VM: a VM that does not own the console and
\* writes 0x70 is told at once that it may send, and the mask of the device,
\* which is the one of all VMs, becomes what was written.  Transmit
\* interrupts are left out.
WriteMsc(v, mask) ==
    /\ uartIrq' = IF mask = 112 /\ v # ownerId THEN uartIrq \cup {v} ELSE uartIrq
    /\ rxOn' = (mask # 0)
    /\ UNCHANGED <<ownerId, fifo, typed, serving, irqActive, raised, strays>>

\* vuart_write of UARTICR, by any VM: the device forgets that it has received.
WriteIcr(v) ==
    /\ raised' = FALSE
    /\ UNCHANGED <<ownerId, fifo, typed, uartIrq, serving, irqActive, rxOn, strays>>

\* The guest acknowledges the interrupt, and ends it when there is nothing to
\* read.  The maintenance interrupt deactivates SPI 37 whoever has ended it.
Serve(v) ==
    /\ v \in uartIrq \ serving
    /\ uartIrq' = uartIrq \ {v} /\ serving' = serving \cup {v}
    /\ UNCHANGED <<ownerId, fifo, typed, irqActive, device, strays>>

EndIrq(v) ==
    /\ v \in serving /\ fifo = <<>>
    /\ serving' = serving \ {v} /\ irqActive' = FALSE
    /\ UNCHANGED <<ownerId, fifo, typed, uartIrq, device, strays>>

ConsoleNext ==
    \/ \E ch \in {Key, Char} : Type(ch)
    \/ UartIrq
    \/ \E v \in Guests : ReadChar(v) \/ WriteIcr(v) \/ Serve(v) \/ EndIrq(v)
    \/ \E v \in Guests, mask \in Masks : WriteMsc(v, mask)

\* The interrupt is taken, and guests serve what they are given.
ConsoleFairness ==
    /\ WF_consoleVars(UartIrq)
    /\ \A v \in Guests : WF_consoleVars(ReadChar(v) \/ Serve(v) \/ EndIrq(v))

----------------------------------------------------------------------------
(* Correctness.                                                            *)

\* The UART asks for attention, or somebody has been given its interrupt.
Heard == Listening \/ irqActive

\* What is typed while the UART may interrupt is read, although each handler
\* may lose the console in the middle of its loop and another VM may read the
\* same FIFO (vdev_pl01x.c:82, :219): unless a VM, whichever, masks or clears
\* the interrupt of the device before it is taken (vdev_pl01x.c:187, :192).
\* Once it is taken, masking it stops nobody.
TypedIsRead == (fifo # <<>> /\ Heard) ~> (fifo = <<>> \/ ~ Heard)
=============================================================================
