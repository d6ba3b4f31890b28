------------------------------ MODULE CdcLink ------------------------------
(***************************************************************************)
(* The USB serial link: usb_cdc_send called by the main loop, by SysTick   *)
(* (the button) and by the USB interrupt itself, with one transmit buffer  *)
(* and no lock, and the callbacks by which the host opens the port, sends  *)
(* packets, fetches packets and takes the link away.                       *)
(*                                                                         *)
(* A message is named by its sender and has one or two packets of 64       *)
(* bytes; tx_b has room for two.  The length checks of the code are left   *)
(* out: no caller can exceed CDC_TX_DATA_SIZE, nor a packet                *)
(* CDC_RX_DATA_SIZE.  The first banner has 67 bytes, and what the          *)
(* interrupts send afterwards fits one packet; the main loop is given      *)
(* both lengths.                                                           *)
(***************************************************************************)
EXTENDS Integers, Sequences, Contexts

VARIABLES
  cdc_ready, cdc_ok,     \* as in the code
  attached,              \* USBD_Device.pClassData is not NULL
  TxState, TxLength,     \* fields of the CDC handle
  tx_b,                  \* whose bytes are in each half of the buffer
  ep,                    \* the transfer of the IN endpoint
  armed,                 \* the OUT endpoint accepts a packet
  pc, msg,               \* where each context is in usb_cdc_send, and with what
  fault,                 \* a store through the NULL pointer has trapped
  crossed,               \* history: the call was crossed by a write or by the host
  early,                 \* history: a packet came in before the port was ready
  boot                   \* history: what became of the first banner

flags == <<cdc_ready, cdc_ok>>
class == <<attached, TxState, TxLength>>
vars == <<flags, class, tx_b, ep, armed, pc, msg, fault, crossed, early, boot>>

Senders == Ctx \union {"boot"}      \* "boot" is the first banner, sent by "usb"

NoXfer == [by |-> "none", len |-> 0, data |-> <<>>, excused |-> TRUE]
NoMsg == [by |-> "none", len |-> 0]

\* The steps between the test of TxState and the start of the transfer.
Window == {"copy1", "copy2", "set", "test", "start"}

\* A context runs when no context of a higher priority does.
Running(c) == ~fault /\ \A d \in Ctx : Rank(d) > Rank(c) => pc[d] = "idle"

Fresh ==
  /\ cdc_ready = 0 /\ cdc_ok = 0
  /\ attached = FALSE /\ TxState = 0 /\ TxLength = 0
  /\ tx_b = <<"none", "none">>
  /\ ep = NoXfer /\ armed = FALSE
  /\ pc = [c \in Ctx |-> "idle"] /\ msg = [c \in Ctx |-> NoMsg]
  /\ fault = FALSE
  /\ crossed = [c \in Ctx |-> FALSE] /\ early = FALSE /\ boot = "none"

Init == Fresh

-----------------------------------------------------------------------------
\* usb_cdc_send
Enter(c, by, n) ==
  /\ pc' = [pc EXCEPT ![c] = "ready"]
  /\ msg' = [msg EXCEPT ![c] = [by |-> by, len |-> n]]

\* The main loop or SysTick has something to say.
Call(c, n) ==
  /\ Running(c) /\ pc[c] = "idle"
  /\ Enter(c, c, n)
  /\ UNCHANGED <<flags, class, tx_b, ep, armed, fault, crossed, early, boot>>

Goto(c, step) == pc' = [pc EXCEPT ![c] = step] /\ UNCHANGED <<msg, boot>>

Return(c, result) ==
  /\ pc' = [pc EXCEPT ![c] = "idle"]
  /\ msg' = [msg EXCEPT ![c] = NoMsg]
  /\ boot' = IF msg[c].by = "boot" THEN result ELSE boot

\* What the write of a context, or the host, does to the calls it interrupts.
Cross(c) == crossed' = [d \in Ctx |-> crossed[d] \/ (d # c /\ pc[d] \in Window)]

\* if (cdc_ready < 2) goto busy; first a form without it.
CheckReadyNever(c) ==
  /\ Running(c) /\ pc[c] = "ready"
  /\ Goto(c, "free")
  /\ UNCHANGED <<flags, class, tx_b, ep, armed, fault, crossed, early>>

CheckReady(c) ==
  /\ Running(c) /\ pc[c] = "ready"
  /\ IF cdc_ready < 2 THEN Return(c, "refused") ELSE Goto(c, "free")
  /\ UNCHANGED <<flags, class, tx_b, ep, armed, fault, crossed, early>>

\* if (hcdc->TxState != 0) goto busy.  A NULL hcdc reads a word of the flash.
\* First a form without the test.
CheckFreeNever(c) ==
  /\ Running(c) /\ pc[c] = "free"
  /\ Goto(c, "copy1")
  /\ crossed' = [crossed EXCEPT ![c] = FALSE]
  /\ UNCHANGED <<flags, class, tx_b, ep, armed, fault, early>>

CheckFree(c) ==
  /\ Running(c) /\ pc[c] = "free"
  /\ \/ /\ attached => TxState # 0
        /\ Return(c, "refused")
        /\ UNCHANGED crossed
     \/ /\ attached => TxState = 0
        /\ Goto(c, "copy1")
        /\ crossed' = [crossed EXCEPT ![c] = FALSE]
  /\ UNCHANGED <<flags, class, tx_b, ep, armed, fault, early>>

\* memcpy, one half of the buffer after the other
Copy1(c) ==
  /\ Running(c) /\ pc[c] = "copy1"
  /\ tx_b' = [tx_b EXCEPT ![1] = msg[c].by]
  /\ Goto(c, IF msg[c].len = 2 THEN "copy2" ELSE "set")
  /\ Cross(c)
  /\ UNCHANGED <<flags, class, ep, armed, fault, early>>

Copy2(c) ==
  /\ Running(c) /\ pc[c] = "copy2"
  /\ tx_b' = [tx_b EXCEPT ![2] = msg[c].by]
  /\ Goto(c, "set")
  /\ Cross(c)
  /\ UNCHANGED <<flags, class, ep, armed, fault, early>>

\* USBD_CDC_SetTxBuffer has no test for NULL: the store traps or is ignored.
SetTxBuffer(c) ==
  /\ Running(c) /\ pc[c] = "set"
  /\ \/ attached /\ TxLength' = msg[c].len /\ UNCHANGED fault
     \/ ~attached /\ fault' \in BOOLEAN /\ UNCHANGED TxLength
  /\ Goto(c, "test")
  /\ Cross(c)
  /\ UNCHANGED <<flags, attached, TxState, tx_b, ep, armed, early>>

\* USBD_CDC_TransmitPacket: fail on NULL, busy, or go on ...
TestTx(c) ==
  /\ Running(c) /\ pc[c] = "test"
  /\ IF attached /\ TxState = 0 THEN Goto(c, "start") ELSE Return(c, "refused")
  /\ UNCHANGED <<flags, class, tx_b, ep, armed, fault, crossed, early>>

\* ... and hand the buffer to the endpoint, which takes the first packet at once.
StartTx(c) ==
  /\ Running(c) /\ pc[c] = "start"
  /\ TxState' = 1
  /\ ep' = [by |-> msg[c].by, len |-> TxLength,
            data |-> IF TxLength = 0 THEN <<>> ELSE <<tx_b[1]>>,
            excused |-> crossed[c] \/ \E d \in Ctx \ {c} : pc[d] \in Window]
  /\ Return(c, "accepted")
  /\ Cross(c)
  /\ UNCHANGED <<flags, attached, TxLength, tx_b, armed, fault, early>>

SendStep(c) ==
  CheckReady(c) \/ CheckFree(c) \/ Copy1(c) \/ Copy2(c) \/ SetTxBuffer(c)
    \/ TestTx(c) \/ StartTx(c)

-----------------------------------------------------------------------------
\* The USB interrupt, in between its own calls of usb_cdc_send.
UsbIdle == ~fault /\ pc["usb"] = "idle"

\* The host selects the configuration: the class and CDC_Itf_Init.
Attach ==
  /\ UsbIdle /\ ~attached
  /\ attached' = TRUE /\ TxState' = 0 /\ TxLength' = 0
  /\ armed' = TRUE /\ early' = FALSE
  /\ Cross("usb")
  /\ UNCHANGED <<flags, tx_b, ep, pc, msg, fault, boot>>

\* The host resets the bus or is unplugged: the class forgets its handle.
Detach ==
  /\ UsbIdle /\ attached
  /\ attached' = FALSE
  /\ ep' = NoXfer /\ armed' = FALSE
  /\ Cross("usb")
  /\ UNCHANGED <<flags, TxState, TxLength, tx_b, pc, msg, fault, early, boot>>

\* CDC_SET_CONTROL_LINE_STATE; first a form that does not wait for the
\* speed.
ControlLineStateOpens ==
  /\ UsbIdle /\ attached
  /\ cdc_ready' = IF cdc_ready = 0 THEN 2 ELSE cdc_ready
  /\ UNCHANGED <<cdc_ok, class, tx_b, ep, armed, pc, msg, fault, crossed, early, boot>>

ControlLineState ==
  /\ UsbIdle /\ attached
  /\ cdc_ready' = IF cdc_ready = 0 THEN 1 ELSE cdc_ready
  /\ UNCHANGED <<cdc_ok, class, tx_b, ep, armed, pc, msg, fault, crossed, early, boot>>

\* CDC_SET_LINE_CODING at 115200 and usb_cdc_ready, which sends the banner and
\* notes in cdc_ok that the boot has been told.  Another speed changes nothing.
LineCoding ==
  /\ UsbIdle /\ attached
  /\ cdc_ready > 0
  /\ cdc_ready' = 2 /\ cdc_ok' = 1
  /\ IF cdc_ok = 0 THEN Enter("usb", "boot", 2) ELSE Enter("usb", "usb", 1)
  /\ UNCHANGED <<class, tx_b, ep, armed, fault, crossed, early, boot>>

\* CDC_Itf_Receive: arms the endpoint again, then the console may answer.  First
\* a form that arms it only when it has nothing to answer.
ReceiveOrAnswer ==
  /\ UsbIdle /\ attached /\ armed
  /\ early' = (early \/ cdc_ready < 2)
  /\ \/ cdc_ready > 1 /\ UNCHANGED <<armed, pc, msg>>
     \/ cdc_ready < 2 /\ armed' = FALSE /\ UNCHANGED <<pc, msg>>
     \/ cdc_ready > 1 /\ armed' = FALSE /\ Enter("usb", "usb", 1)
  /\ UNCHANGED <<flags, class, tx_b, ep, fault, crossed, boot>>

Receive ==
  /\ UsbIdle /\ attached /\ armed
  /\ early' = (early \/ cdc_ready < 2)
  /\ armed' = (cdc_ready > 1)
  /\ \/ UNCHANGED <<pc, msg>>
     \/ cdc_ready > 1 /\ Enter("usb", "usb", 1)
  /\ UNCHANGED <<flags, class, tx_b, ep, fault, crossed, boot>>

\* The host has fetched a packet: HAL_PCD_DataInStageCallback after the driver
\* has loaded the next packet, if any; without one the class is free again.
\* First a callback that does not tell the class.
DataInUntold ==
  /\ UsbIdle /\ ep # NoXfer
  /\ IF Len(ep.data) < ep.len
       THEN ep' = [ep EXCEPT !.data = Append(@, tx_b[Len(@) + 1])]
       ELSE ep' = NoXfer
  /\ UNCHANGED <<flags, class, tx_b, armed, pc, msg, fault, crossed, early, boot>>

DataIn ==
  /\ UsbIdle /\ ep # NoXfer
  /\ IF Len(ep.data) < ep.len
       THEN /\ ep' = [ep EXCEPT !.data = Append(@, tx_b[Len(@) + 1])]
            /\ UNCHANGED TxState
       ELSE ep' = NoXfer /\ TxState' = 0
  /\ UNCHANGED <<flags, attached, TxLength, tx_b, armed, pc, msg, fault, crossed,
                 early, boot>>

\* After a hard fault only the watchdog helps (Lifecycle): everything starts anew.
Restart ==
  /\ fault
  /\ cdc_ready' = 0 /\ cdc_ok' = 0
  /\ attached' = FALSE /\ TxState' = 0 /\ TxLength' = 0
  /\ tx_b' = <<"none", "none">>
  /\ ep' = NoXfer /\ armed' = FALSE
  /\ pc' = [c \in Ctx |-> "idle"] /\ msg' = [c \in Ctx |-> NoMsg]
  /\ fault' = FALSE
  /\ crossed' = [c \in Ctx |-> FALSE] /\ early' = FALSE /\ boot' = "none"

Next ==
  \/ \E n \in 1 .. 2 : Call("main", n)
  \/ Call("tick", 1)
  \/ \E c \in Ctx : SendStep(c)
  \/ Attach \/ Detach \/ ControlLineState \/ LineCoding \/ Receive \/ DataIn
  \/ Restart

Spec == Init /\ [][Next]_vars

\* The host fetches what is offered however much else it does, and handlers end.
FairSpec ==
  /\ Spec
  /\ \A c \in {"tick", "usb"} : WF_vars(SendStep(c))
  /\ SF_vars(DataIn)

-----------------------------------------------------------------------------
Names == Senders \union {"none"}

TypeOK ==
  /\ cdc_ready \in 0 .. 2 /\ cdc_ok \in 0 .. 1
  /\ attached \in BOOLEAN /\ TxState \in 0 .. 1 /\ TxLength \in 0 .. 2
  /\ tx_b \in [1 .. 2 -> Names]
  /\ ep \in [by : Names, len : 0 .. 2, data : Seq(Names), excused : BOOLEAN]
  /\ Len(ep.data) <= ep.len
  /\ armed \in BOOLEAN /\ fault \in BOOLEAN /\ early \in BOOLEAN
  /\ pc \in [Ctx -> {"idle", "ready", "free"} \union Window]
  /\ msg \in [Ctx -> [by : Names, len : 0 .. 2]]
  /\ crossed \in [Ctx -> BOOLEAN] /\ boot \in {"none", "accepted", "refused"}

\* The packets of a message are its sender's own, unless two calls of
\* usb_cdc_send overlapped beyond their tests of TxState, or the host reset the
\* link within one: the test alone keeps every later call off the shared tx_b
\* for as long as its packets are on their way.
UndisturbedIntact ==
  ~ep.excused => \A i \in 1 .. Len(ep.data) : ep.data[i] = ep.by

\* The banner that tells of the boot is never refused for another message and is
\* never torn: no sender gets past cdc_ready before it.
BootBannerShown ==
  /\ boot # "refused"
  /\ ep.by = "boot" => ~ep.excused /\ ep.len = 2

\* The device is deaf only for as long as the host keeps the link on which it
\* sent a packet too early: no answer, no message and no race stops the input.
DeafOnlyIfEarly == attached /\ ~early => armed

\* No message can make the device trap before the host has opened the port.
TrapsOnlyWhenOpened == fault => cdc_ready = 2

\* The class does not stay busy on a link that the host keeps.
BusyEnds == TxState = 1 ~> (TxState = 0 \/ ~attached)
=============================================================================
