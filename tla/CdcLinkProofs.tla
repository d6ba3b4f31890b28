---------------------------- MODULE CdcLinkProofs ----------------------------
(* Proofs about the serial link: three contexts in usb_cdc_send at once, with *)
(* any number of messages, resets of the bus and restarts of the board.       *)
EXTENDS CdcLink, TLAPS

LEMMA Contexts ==
  /\ "main" \in Ctx /\ "tick" \in Ctx /\ "usb" \in Ctx
  /\ \A c \in Ctx : c \in {"main", "tick", "usb"} /\ c \in Names /\ c # "boot"
  /\ "none" \in Names /\ "boot" \in Names
BY DEF Ctx, Names, Senders

(* Beyond cdc_ready. *)
Inside(c) == pc[c] \notin {"idle", "ready"}

(* Before the port is opened nobody gets beyond cdc_ready, and nobody has yet *)
(* told of the boot.                                                          *)
ClosedOK ==
  /\ cdc_ready = 2 <=> cdc_ok = 1
  /\ cdc_ready # 2 => ~fault /\ TxState = 0 /\ \A c \in Ctx : ~Inside(c)

(* The first banner finds a free link and has it for itself. *)
BannerOK ==
  /\ \A c \in Ctx : msg[c].by = "boot" => c = "usb" /\ pc[c] # "idle"
  /\ msg["usb"].by = "boot" =>
       /\ attached /\ TxState = 0 /\ cdc_ready = 2 /\ msg["usb"].len = 2
       /\ ~Inside("main") /\ ~Inside("tick")
       /\ pc["usb"] \in Window => ~crossed["usb"]
       /\ pc["usb"] \in {"test", "start"} => TxLength = 2

(* Until another call or the host crosses it, a call finds in tx_b what it has *)
(* copied there, and in the handle the length it has set.                      *)
Copied(c) ==
  CASE pc[c] = "copy1" -> 0
    [] pc[c] = "copy2" -> 1
    [] OTHER -> msg[c].len

CallsOK ==
  \A c \in Ctx : pc[c] \in Window /\ ~crossed[c] =>
    /\ \A i \in 1 .. Copied(c) : tx_b[i] = msg[c].by
    /\ pc[c] = "copy2" => msg[c].len = 2
    /\ pc[c] \in {"test", "start"} /\ attached => TxLength = msg[c].len
    /\ pc[c] = "start" => attached

(* A transfer that nobody has disturbed keeps everybody off tx_b. *)
TransferOK ==
  ~ep.excused =>
    /\ attached /\ TxState = 1
    /\ \A c \in Ctx : pc[c] \notin Window
    /\ \A i \in 1 .. ep.len : tx_b[i] = ep.by
    /\ \A i \in 1 .. Len(ep.data) : ep.data[i] = ep.by

IInv ==
  /\ TypeOK /\ ClosedOK /\ BannerOK /\ CallsOK /\ TransferOK
  /\ BootBannerShown /\ DeafOnlyIfEarly

(* The same state of the link for a board that starts, or starts again. *)
LEMMA FreshInv == Fresh => IInv
<1> SUFFICES ASSUME Fresh PROVE IInv
  OBVIOUS
<1>1. NoXfer \in [by : Names, len : 0 .. 2, data : Seq(Names), excused : BOOLEAN]
  BY Contexts DEF NoXfer
<1>2. TypeOK
  <2>1. ep = NoXfer /\ ep \in [by : Names, len : 0 .. 2, data : Seq(Names), excused : BOOLEAN]
    BY <1>1 DEF Fresh
  <2>2. Len(ep.data) <= ep.len
    BY <2>1 DEF NoXfer
  <2>3. msg \in [Ctx -> [by : Names, len : 0 .. 2]] /\ tx_b \in [1 .. 2 -> Names]
    BY Contexts DEF Fresh, NoMsg
  <2>4. /\ attached \in BOOLEAN /\ armed \in BOOLEAN /\ fault \in BOOLEAN /\ early \in BOOLEAN
        /\ crossed \in [Ctx -> BOOLEAN]
    BY DEF Fresh
  <2>5. /\ cdc_ready \in 0 .. 2 /\ cdc_ok \in 0 .. 1 /\ TxState \in 0 .. 1 /\ TxLength \in 0 .. 2
        /\ pc \in [Ctx -> {"idle", "ready", "free"} \union Window] /\ boot = "none"
    BY DEF Fresh
  <2> QED BY <2>1, <2>2, <2>3, <2>4, <2>5 DEF TypeOK
<1>3. ClosedOK /\ BannerOK
  BY Contexts DEF Fresh, ClosedOK, BannerOK, Inside, NoMsg
<1>4. CallsOK /\ TransferOK /\ BootBannerShown /\ DeafOnlyIfEarly
  BY DEF Fresh, CallsOK, TransferOK, BootBannerShown, DeafOnlyIfEarly, NoXfer, Window
<1> QED BY <1>2, <1>3, <1>4 DEF IInv


(* The USB interrupt is never preempted: while another context runs, no banner *)
(* is on its way into the buffer.                                              *)
LEMMA LowerRuns ==
  ASSUME NEW c \in Ctx, Running(c), BannerOK
  PROVE  ~fault /\ (c # "usb" => pc["usb"] = "idle" /\ msg["usb"].by # "boot")
<1>1. c # "usb" => Rank("usb") > Rank(c)
  BY Contexts DEF Rank
<1> QED BY <1>1, Contexts DEF Running, BannerOK

(* A call: whoever runs enters usb_cdc_send. *)
LEMMA CallSteps ==
  ASSUME IInv, NEW c \in {"main", "tick"}, NEW n \in 1 .. 2, Call(c, n)
  PROVE  IInv'
<1> USE Contexts DEF IInv, flags, class
<1>1. /\ c \in Ctx /\ ~fault /\ pc[c] = "idle"
      /\ pc' = [pc EXCEPT ![c] = "ready"] /\ msg' = [msg EXCEPT ![c] = [by |-> c, len |-> n]]
      /\ UNCHANGED <<flags, class, tx_b, ep, armed, fault, crossed, early, boot>>
  BY DEF Call, Enter, Running
<1>2. TypeOK'
  BY <1>1 DEF TypeOK
<1>3. ClosedOK' /\ BannerOK'
  BY <1>1 DEF TypeOK, ClosedOK, BannerOK, Inside
<1>4. CallsOK' /\ TransferOK'
  BY <1>1 DEF TypeOK, CallsOK, Copied, TransferOK, Window
<1>5. BootBannerShown' /\ DeafOnlyIfEarly'
  BY <1>1 DEF BootBannerShown, DeafOnlyIfEarly
<1> QED BY <1>2, <1>3, <1>4, <1>5

-----------------------------------------------------------------------------
(* A call that has been refused, or whose transfer has begun, is over. *)
LEMMA ReturnPart ==
  ASSUME IInv, NEW c \in Ctx, NEW r \in {"accepted", "refused"}, Return(c, r)
  PROVE  /\ pc' = [pc EXCEPT ![c] = "idle"] /\ msg' = [msg EXCEPT ![c] = NoMsg]
         /\ boot' \in {"none", "accepted", "refused"}
         /\ msg[c].by # "boot" => boot' = boot
         /\ msg[c].by = "boot" => boot' = r
BY DEF Return, IInv, TypeOK

(* A refusal at the tests: the banner is never refused. *)
LEMMA RefusedSteps ==
  ASSUME IInv, NEW c \in Ctx, Running(c), msg[c].by # "boot", Return(c, "refused"),
         UNCHANGED <<flags, class, tx_b, ep, armed, fault, crossed, early>>
  PROVE  IInv'
<1> USE Contexts DEF IInv, flags, class
<1>1. /\ pc' = [pc EXCEPT ![c] = "idle"] /\ msg' = [msg EXCEPT ![c] = NoMsg] /\ boot' = boot
  BY ReturnPart
<1>2. TypeOK'
  BY <1>1 DEF TypeOK, NoMsg
<1>3. ClosedOK' /\ BannerOK'
  BY <1>1 DEF TypeOK, ClosedOK, BannerOK, Inside, NoMsg
<1>4. CallsOK' /\ TransferOK'
  BY <1>1 DEF TypeOK, CallsOK, Copied, TransferOK, Window
<1>5. BootBannerShown' /\ DeafOnlyIfEarly'
  BY <1>1 DEF BootBannerShown, DeafOnlyIfEarly
<1> QED BY <1>2, <1>3, <1>4, <1>5

LEMMA ReadySteps == ASSUME IInv, NEW c \in Ctx, CheckReady(c) PROVE IInv'
<1> USE Contexts DEF IInv
<1>1. CASE cdc_ready < 2
  <2>1. msg[c].by # "boot"
    BY <1>1 DEF BannerOK
  <2> QED BY <1>1, <2>1, RefusedSteps DEF CheckReady
<1>2. CASE ~(cdc_ready < 2)
  <2> USE DEF flags, class
  <2>1. /\ pc[c] = "ready" /\ pc' = [pc EXCEPT ![c] = "free"] /\ cdc_ready = 2
        /\ UNCHANGED <<flags, class, tx_b, ep, armed, fault, crossed, early, boot, msg>>
    BY <1>2 DEF CheckReady, Goto, TypeOK
  <2>2. c # "usb" => msg["usb"].by # "boot"
    BY LowerRuns DEF CheckReady
  <2>3. TypeOK'
    BY <2>1 DEF TypeOK
  <2>4. ClosedOK' /\ BannerOK'
    BY <2>1, <2>2 DEF TypeOK, ClosedOK, BannerOK, Inside, Window
  <2>5. CallsOK' /\ TransferOK'
    BY <2>1 DEF TypeOK, CallsOK, Copied, TransferOK, Window
  <2>6. BootBannerShown' /\ DeafOnlyIfEarly'
    BY <2>1 DEF BootBannerShown, DeafOnlyIfEarly
  <2> QED BY <2>3, <2>4, <2>5, <2>6
<1> QED BY <1>1, <1>2

(* A call that finds TxState 0 finds no undisturbed transfer. *)
LEMMA FreeSteps == ASSUME IInv, NEW c \in Ctx, CheckFree(c) PROVE IInv'
<1> USE Contexts DEF IInv
<1>0. Running(c) /\ pc[c] = "free" /\ cdc_ready = 2
  BY DEF CheckFree, ClosedOK, Inside
<1>1. CASE (attached => TxState # 0) /\ Return(c, "refused") /\ UNCHANGED crossed
  <2>1. msg[c].by # "boot"
    BY <1>1 DEF BannerOK
  <2> QED BY <1>0, <1>1, <2>1, RefusedSteps DEF CheckFree
<1>2. CASE /\ attached => TxState = 0
           /\ Goto(c, "copy1") /\ crossed' = [crossed EXCEPT ![c] = FALSE]
  <2> USE DEF flags, class
  <2>1. /\ pc' = [pc EXCEPT ![c] = "copy1"] /\ crossed' = [crossed EXCEPT ![c] = FALSE]
        /\ UNCHANGED <<flags, class, tx_b, ep, armed, fault, early, boot, msg>>
    BY <1>2 DEF CheckFree, Goto
  <2>2. ep.excused
    BY <1>2 DEF TransferOK
  <2>3. TypeOK'
    BY <2>1 DEF TypeOK, Window
  <2>4. ClosedOK' /\ BannerOK'
    BY <1>0, <2>1 DEF TypeOK, ClosedOK, BannerOK, Inside, Window
  <2>5. CallsOK' /\ TransferOK'
    BY <2>1, <2>2 DEF TypeOK, CallsOK, Copied, TransferOK, Window
  <2>6. BootBannerShown' /\ DeafOnlyIfEarly'
    BY <2>1 DEF BootBannerShown, DeafOnlyIfEarly
  <2> QED BY <2>3, <2>4, <2>5, <2>6
<1> QED BY <1>1, <1>2 DEF CheckFree

-----------------------------------------------------------------------------
(* A write of one context is noted by every other one that is under way. *)
LEMMA CrossPart ==
  ASSUME TypeOK, NEW c \in Ctx, Cross(c)
  PROVE  /\ crossed' \in [Ctx -> BOOLEAN]
         /\ \A d \in Ctx : d # c /\ pc[d] \in Window => crossed'[d]
         /\ \A d \in Ctx : ~crossed'[d] => ~crossed[d]
         /\ ~crossed[c] => ~crossed'[c]
<1>1. crossed' = [d \in Ctx |-> crossed[d] \/ (d # c /\ pc[d] \in Window)]
  BY DEF Cross
<1> QED BY <1>1

(* The copy: what another call had copied is lost, and that call is crossed. *)
LEMMA CopySteps == ASSUME IInv, NEW c \in Ctx, Copy1(c) \/ Copy2(c) PROVE IInv'
<1> USE Contexts, CrossPart DEF IInv, flags, class
<1>1. PICK i \in 1 .. 2, next \in {"copy2", "set"} :
        /\ pc[c] = (IF i = 1 THEN "copy1" ELSE "copy2")
        /\ next = (IF i = 1 /\ msg[c].len = 2 THEN "copy2" ELSE "set")
        /\ tx_b' = [tx_b EXCEPT ![i] = msg[c].by] /\ pc' = [pc EXCEPT ![c] = next] /\ Cross(c)
        /\ UNCHANGED <<flags, class, ep, armed, fault, early, boot, msg>>
  <2>1. CASE Copy1(c)
    <3>1. CASE msg[c].len = 2
      BY <2>1, <3>1 DEF Copy1, Goto
    <3>2. CASE msg[c].len # 2
      BY <2>1, <3>2 DEF Copy1, Goto
    <3> QED BY <3>1, <3>2
  <2>2. CASE Copy2(c)
    BY <2>2 DEF Copy2, Goto
  <2> QED BY <2>1, <2>2
<1>2. Running(c) /\ pc[c] \in Window /\ Inside(c) /\ ep.excused
  BY <1>1 DEF Copy1, Copy2, Inside, Window, TransferOK
<1>3. c # "usb" => msg["usb"].by # "boot"
  BY <1>2, LowerRuns
<1>4. TypeOK'
  BY <1>1 DEF TypeOK, Window
<1>5. ClosedOK' /\ BannerOK'
  BY <1>1, <1>2, <1>3 DEF TypeOK, ClosedOK, BannerOK, Inside, Window
<1>6. CallsOK'
  <2> SUFFICES ASSUME NEW d \in Ctx, pc'[d] \in Window, ~crossed'[d]
               PROVE  /\ \A j \in 1 .. Copied(d)' : tx_b'[j] = msg[d].by
                      /\ pc'[d] = "copy2" => msg[d].len = 2
                      /\ pc'[d] \in {"test", "start"} /\ attached => TxLength = msg[d].len
                      /\ pc'[d] = "start" => attached
    BY <1>1 DEF CallsOK
  <2>1. d = c /\ ~crossed[c]
    BY <1>1 DEF TypeOK
  <2>2. pc'[c] = next /\ msg[c].len \in 0 .. 2
    BY <1>1, Contexts DEF TypeOK
  <2>3. CASE i = 1
    BY <1>1, <2>1, <2>2, <2>3 DEF TypeOK, Copied
  <2>4. CASE i = 2
    <3>1. tx_b[1] = msg[c].by /\ msg[c].len = 2
      BY <1>1, <1>2, <2>1, <2>4 DEF CallsOK, Copied
    <3> QED BY <1>1, <2>1, <2>2, <2>4, <3>1 DEF TypeOK, Copied
  <2> QED BY <2>3, <2>4
<1>7. TransferOK' /\ BootBannerShown' /\ DeafOnlyIfEarly'
  BY <1>1, <1>2 DEF TransferOK, BootBannerShown, DeafOnlyIfEarly
<1> QED BY <1>4, <1>5, <1>6, <1>7

(* The length: without a handle the board traps or goes on. *)
LEMMA SetSteps == ASSUME IInv, NEW c \in Ctx, SetTxBuffer(c) PROVE IInv'
<1> USE Contexts, CrossPart DEF IInv, flags, class
<1>1. /\ pc[c] = "set" /\ pc' = [pc EXCEPT ![c] = "test"] /\ Cross(c) /\ Running(c)
      /\ attached => TxLength' = msg[c].len
      /\ ~attached => TxLength' = TxLength
      /\ fault' \in BOOLEAN
      /\ UNCHANGED <<flags, attached, TxState, tx_b, ep, armed, early, boot, msg>>
  BY DEF SetTxBuffer, Goto, TypeOK
<1>2. pc[c] \in Window /\ Inside(c) /\ ep.excused /\ cdc_ready = 2
  BY <1>1 DEF Inside, Window, TransferOK, ClosedOK
<1>3. c # "usb" => msg["usb"].by # "boot"
  BY <1>1, LowerRuns
<1>4. TypeOK'
  BY <1>1 DEF TypeOK, Window
<1>5. ClosedOK' /\ BannerOK'
  BY <1>1, <1>2, <1>3 DEF TypeOK, ClosedOK, BannerOK, Inside, Window
<1>6. CallsOK'
  BY <1>1, <1>2 DEF TypeOK, CallsOK, Copied, Window
<1>7. TransferOK' /\ BootBannerShown' /\ DeafOnlyIfEarly'
  BY <1>1, <1>2 DEF TransferOK, BootBannerShown, DeafOnlyIfEarly
<1> QED BY <1>4, <1>5, <1>6, <1>7

LEMMA TestSteps == ASSUME IInv, NEW c \in Ctx, TestTx(c) PROVE IInv'
<1> USE Contexts DEF IInv
<1>1. CASE ~(attached /\ TxState = 0)
  <2>1. msg[c].by # "boot"
    BY <1>1 DEF BannerOK
  <2> QED BY <1>1, <2>1, RefusedSteps DEF TestTx
<1>2. CASE attached /\ TxState = 0
  <2> USE DEF flags, class
  <2>1. /\ pc[c] = "test" /\ pc' = [pc EXCEPT ![c] = "start"]
        /\ UNCHANGED <<flags, class, tx_b, ep, armed, fault, crossed, early, boot, msg>>
    BY <1>2 DEF TestTx, Goto
  <2>2. TypeOK'
    BY <2>1 DEF TypeOK, Window
  <2>3. ClosedOK' /\ BannerOK'
    BY <2>1 DEF TypeOK, ClosedOK, BannerOK, Inside, Window
  <2>4. CallsOK' /\ TransferOK'
    BY <1>2, <2>1 DEF TypeOK, CallsOK, Copied, TransferOK, Window
  <2>5. BootBannerShown' /\ DeafOnlyIfEarly'
    BY <2>1 DEF BootBannerShown, DeafOnlyIfEarly
  <2> QED BY <2>2, <2>3, <2>4, <2>5
<1> QED BY <1>1, <1>2

(* The start: an undisturbed call hands over its own text, and is the only one *)
(* beyond the test of TxState.                                                 *)
LEMMA StartSteps == ASSUME IInv, NEW c \in Ctx, StartTx(c) PROVE IInv'
<1> USE Contexts, CrossPart DEF IInv, flags, class
<1> DEFINE others == \E d \in Ctx \ {c} : pc[d] \in Window
<1>1. /\ pc[c] = "start" /\ Running(c) /\ Return(c, "accepted") /\ Cross(c) /\ TxState' = 1
      /\ UNCHANGED <<flags, attached, TxLength, tx_b, armed, fault, early>>
  BY DEF StartTx
<1>2. /\ pc' = [pc EXCEPT ![c] = "idle"] /\ msg' = [msg EXCEPT ![c] = NoMsg]
      /\ boot' \in {"none", "accepted", "refused"}
      /\ boot' # boot => boot' = "accepted"
  BY <1>1, ReturnPart
<1>3. /\ ep'.by = msg[c].by /\ ep'.len = TxLength
      /\ ep'.data = IF TxLength = 0 THEN <<>> ELSE <<tx_b[1]>>
      /\ ep'.excused = (crossed[c] \/ others)
      /\ ep' \in [by : Names, len : 0 .. 2, data : Seq(Names), excused : BOOLEAN]
      /\ Len(ep'.data) <= ep'.len
  <2>1. ep' = [by |-> msg[c].by, len |-> TxLength,
               data |-> IF TxLength = 0 THEN <<>> ELSE <<tx_b[1]>>,
               excused |-> crossed[c] \/ others]
    BY DEF StartTx
  <2>2. (crossed[c] \/ others) \in BOOLEAN
    OBVIOUS
  <2>3. msg[c].by \in Names /\ TxLength \in 0 .. 2 /\ tx_b[1] \in Names
    BY DEF TypeOK
  <2> HIDE DEF others
  <2> QED BY <2>1, <2>2, <2>3
<1>4. TypeOK'
  BY <1>1, <1>2, <1>3 DEF TypeOK, NoMsg
<1>5. Inside(c) /\ cdc_ready = 2
  BY <1>1 DEF Inside, ClosedOK
<1>6. c # "usb" => msg["usb"].by # "boot"
  BY <1>1, LowerRuns
<1>7. ClosedOK' /\ BannerOK'
  BY <1>1, <1>2, <1>5, <1>6 DEF TypeOK, ClosedOK, BannerOK, Inside, NoMsg
<1>8. CallsOK'
  BY <1>1, <1>2 DEF TypeOK, CallsOK, Copied, Window
<1>9. TransferOK'
  <2> SUFFICES ASSUME ~ep'.excused
               PROVE  /\ attached /\ \A d \in Ctx : pc'[d] \notin Window
                      /\ \A i \in 1 .. TxLength : tx_b[i] = msg[c].by
                      /\ \A i \in 1 .. Len(ep'.data) : ep'.data[i] = msg[c].by
    BY <1>1, <1>3 DEF TransferOK
  <2>1. ~crossed[c] /\ ~others
    BY <1>3
  <2>2. attached /\ TxLength = msg[c].len /\ \A i \in 1 .. TxLength : tx_b[i] = msg[c].by
    BY <1>1, <2>1 DEF CallsOK, Copied, Window
  <2>3. \A d \in Ctx : pc'[d] \notin Window
    BY <1>2, <2>1 DEF TypeOK, Window
  <2>4. \A i \in 1 .. Len(ep'.data) : ep'.data[i] = msg[c].by
    BY <1>3, <2>2 DEF TypeOK
  <2> QED BY <2>2, <2>3, <2>4
<1>10. BootBannerShown'
  <2>1. msg[c].by = "boot" => ~crossed[c] /\ ~others /\ TxLength = 2
    BY <1>1 DEF BannerOK, Inside, Window
  <2> QED BY <1>2, <1>3, <2>1 DEF BootBannerShown
<1>11. DeafOnlyIfEarly'
  BY <1>1 DEF DeafOnlyIfEarly
<1> QED BY <1>4, <1>7, <1>8, <1>9, <1>10, <1>11

-----------------------------------------------------------------------------
(* The host takes the link or the handle away, or gives it back: every call   *)
(* that is under way is crossed.                                              *)
LEMMA HandleSteps == ASSUME IInv, Attach \/ Detach PROVE IInv'
<1> USE Contexts, CrossPart DEF IInv, flags
<1>1. CASE Attach
  <2>1. /\ ~attached /\ attached' = TRUE /\ TxState' = 0 /\ TxLength' = 0 /\ armed' = TRUE
        /\ early' = FALSE /\ pc["usb"] = "idle" /\ Cross("usb")
        /\ UNCHANGED <<flags, tx_b, ep, pc, msg, fault, boot>>
    BY <1>1 DEF Attach, UsbIdle
  <2>2. ep.excused /\ msg["usb"].by # "boot"
    BY <2>1 DEF TransferOK, BannerOK
  <2>3. TypeOK'
    <3>1. attached' \in BOOLEAN /\ armed' \in BOOLEAN /\ early' \in BOOLEAN
      BY <2>1
    <3> QED BY <2>1, <3>1 DEF TypeOK
  <2>4. ClosedOK' /\ BannerOK'
    BY <2>1, <2>2 DEF ClosedOK, BannerOK, Inside
  <2>5. CallsOK'
    BY <2>1 DEF CallsOK, Window
  <2>6. TransferOK' /\ BootBannerShown' /\ DeafOnlyIfEarly'
    BY <2>1, <2>2 DEF TransferOK, BootBannerShown, DeafOnlyIfEarly
  <2> QED BY <2>3, <2>4, <2>5, <2>6
<1>2. CASE Detach
  <2>1. /\ attached' = FALSE /\ ep' = NoXfer /\ armed' = FALSE
        /\ pc["usb"] = "idle" /\ Cross("usb")
        /\ UNCHANGED <<flags, TxState, TxLength, tx_b, pc, msg, fault, early, boot>>
    BY <1>2 DEF Detach, UsbIdle
  <2>2. msg["usb"].by # "boot"
    BY <2>1 DEF BannerOK
  <2>3. /\ ep' \in [by : Names, len : 0 .. 2, data : Seq(Names), excused : BOOLEAN]
        /\ Len(ep'.data) <= ep'.len /\ ep'.excused /\ ep'.by # "boot"
    BY <2>1 DEF NoXfer
  <2>4. TypeOK'
    BY <2>1, <2>3 DEF TypeOK
  <2>5. ClosedOK' /\ BannerOK'
    BY <2>1, <2>2 DEF ClosedOK, BannerOK, Inside
  <2>6. CallsOK'
    BY <2>1 DEF CallsOK, Window
  <2>7. TransferOK' /\ BootBannerShown' /\ DeafOnlyIfEarly'
    BY <2>1, <2>3 DEF TransferOK, BootBannerShown, DeafOnlyIfEarly
  <2> QED BY <2>4, <2>5, <2>6, <2>7
<1> QED BY <1>1, <1>2

(* The host opens the port: the speed lets the first banner in, before anybody *)
(* else.                                                                       *)
LEMMA OpenSteps == ASSUME IInv, ControlLineState \/ LineCoding PROVE IInv'
<1> USE Contexts DEF IInv, flags, class
<1>1. CASE ControlLineState
  <2>1. /\ cdc_ready' = IF cdc_ready = 0 THEN 1 ELSE cdc_ready
        /\ UNCHANGED <<cdc_ok, class, tx_b, ep, armed, pc, msg, fault, crossed, early, boot>>
    BY <1>1 DEF ControlLineState
  <2>2. TypeOK' /\ ClosedOK' /\ BannerOK'
    BY <2>1 DEF TypeOK, ClosedOK, BannerOK, Inside
  <2>3. CallsOK' /\ TransferOK' /\ BootBannerShown' /\ DeafOnlyIfEarly'
    BY <2>1 DEF CallsOK, Copied, TransferOK, BootBannerShown, DeafOnlyIfEarly
  <2> QED BY <2>2, <2>3
<1>2. CASE LineCoding
  <2>1. PICK by \in {"boot", "usb"}, n \in 1 .. 2 :
          /\ by = "boot" <=> cdc_ok = 0
          /\ by = "boot" => n = 2
          /\ Enter("usb", by, n)
    <3>1. CASE cdc_ok = 0
      BY <1>2, <3>1 DEF LineCoding
    <3>2. CASE cdc_ok # 0
      BY <1>2, <3>2 DEF LineCoding
    <3> QED BY <3>1, <3>2
  <2>2. /\ attached /\ ~fault /\ pc["usb"] = "idle" /\ cdc_ready' = 2 /\ cdc_ok' = 1
        /\ pc' = [pc EXCEPT !["usb"] = "ready"] /\ msg' = [msg EXCEPT !["usb"] = [by |-> by, len |-> n]]
        /\ UNCHANGED <<class, tx_b, ep, armed, fault, crossed, early, boot>>
    BY <1>2, <2>1 DEF LineCoding, UsbIdle, Enter
  <2>3. by = "boot" => TxState = 0 /\ ~Inside("main") /\ ~Inside("tick")
    BY <2>1 DEF TypeOK, ClosedOK
  <2>4. TypeOK' /\ ClosedOK'
    BY <2>2 DEF TypeOK, ClosedOK
  <2>5. BannerOK'
    BY <2>1, <2>2, <2>3 DEF TypeOK, BannerOK, Inside, Window
  <2>6. CallsOK' /\ TransferOK'
    BY <2>2 DEF TypeOK, CallsOK, Copied, TransferOK, Window
  <2>7. BootBannerShown' /\ DeafOnlyIfEarly'
    BY <2>2 DEF BootBannerShown, DeafOnlyIfEarly
  <2> QED BY <2>4, <2>5, <2>6, <2>7
<1> QED BY <1>1, <1>2

(* The host sends a packet: the endpoint stays without a buffer only if the    *)
(* port was not open.                                                          *)
LEMMA ReceiveSteps == ASSUME IInv, Receive PROVE IInv'
<1> USE Contexts DEF IInv, flags, class
<1>1. /\ pc["usb"] = "idle" /\ armed' = (cdc_ready > 1) /\ early' = (early \/ cdc_ready < 2)
      /\ UNCHANGED <<flags, class, tx_b, ep, fault, crossed, boot>>
  BY DEF Receive, UsbIdle
<1>2. \/ UNCHANGED <<pc, msg>>
      \/ /\ pc' = [pc EXCEPT !["usb"] = "ready"]
         /\ msg' = [msg EXCEPT !["usb"] = [by |-> "usb", len |-> 1]]
  BY DEF Receive, Enter
<1>3. armed' \in BOOLEAN /\ early' \in BOOLEAN /\ (~early' => armed')
  <2>1. CASE cdc_ready > 1
    BY <1>1, <2>1 DEF TypeOK
  <2>2. CASE cdc_ready < 2
    <3>1. (cdc_ready > 1) = FALSE /\ (early \/ cdc_ready < 2) = TRUE
      BY <2>2 DEF TypeOK
    <3>2. armed' = FALSE /\ early' = TRUE
      BY <1>1, <3>1
    <3> QED BY <3>2
  <2> QED BY <2>1, <2>2 DEF TypeOK
<1>4. TypeOK'
  BY <1>1, <1>2, <1>3 DEF TypeOK
<1>5. ClosedOK' /\ BannerOK'
  BY <1>1, <1>2 DEF TypeOK, ClosedOK, BannerOK, Inside
<1>6. CallsOK' /\ TransferOK'
  BY <1>1, <1>2 DEF TypeOK, CallsOK, Copied, TransferOK, Window
<1>7. BootBannerShown' /\ DeafOnlyIfEarly'
  BY <1>1, <1>3 DEF BootBannerShown, DeafOnlyIfEarly
<1> QED BY <1>4, <1>5, <1>6, <1>7

(* The host has fetched a packet: the next one is read from tx_b now. *)
LEMMA DataSteps == ASSUME IInv, DataIn PROVE IInv'
<1> USE Contexts DEF IInv, flags, class
<1>1. /\ pc["usb"] = "idle"
      /\ UNCHANGED <<flags, attached, TxLength, tx_b, armed, pc, msg, fault, crossed, early, boot>>
  BY DEF DataIn, UsbIdle
<1>2. msg["usb"].by # "boot"
  BY <1>1 DEF BannerOK
<1>3. CASE Len(ep.data) < ep.len
  <2> DEFINE more == Append(ep.data, tx_b[Len(ep.data) + 1])
  <2>1. ep' = [ep EXCEPT !.data = more] /\ TxState' = TxState
    BY <1>3 DEF DataIn
  <2>2. tx_b[Len(ep.data) + 1] \in Names /\ ep.data \in Seq(Names) /\ ep.len \in 0 .. 2
    BY <1>3 DEF TypeOK
  <2>3. /\ more \in Seq(Names) /\ Len(more) = Len(ep.data) + 1
        /\ \A i \in 1 .. Len(more) :
             more[i] = IF i <= Len(ep.data) THEN ep.data[i] ELSE tx_b[Len(ep.data) + 1]
    BY <2>2
  <2> HIDE DEF more
  <2>4. /\ ep' \in [by : Names, len : 0 .. 2, data : Seq(Names), excused : BOOLEAN]
        /\ ep'.by = ep.by /\ ep'.len = ep.len /\ ep'.excused = ep.excused /\ ep'.data = more
    BY <2>1, <2>3 DEF TypeOK
  <2>5. TypeOK'
    BY <1>1, <1>3, <2>1, <2>2, <2>3, <2>4 DEF TypeOK
  <2>6. ClosedOK' /\ BannerOK' /\ CallsOK'
    BY <1>1, <2>1 DEF ClosedOK, BannerOK, Inside, CallsOK, Copied
  <2>7. TransferOK'
    BY <1>1, <1>3, <2>1, <2>2, <2>3, <2>4 DEF TransferOK
  <2>8. BootBannerShown' /\ DeafOnlyIfEarly'
    BY <1>1, <2>4 DEF BootBannerShown, DeafOnlyIfEarly
  <2> QED BY <2>5, <2>6, <2>7, <2>8
<1>4. CASE ~(Len(ep.data) < ep.len)
  <2>1. ep' = NoXfer /\ TxState' = 0
    BY <1>4 DEF DataIn
  <2>2. /\ ep' \in [by : Names, len : 0 .. 2, data : Seq(Names), excused : BOOLEAN]
        /\ Len(ep'.data) <= ep'.len /\ ep'.excused /\ ep'.by # "boot"
    BY <2>1 DEF NoXfer
  <2>3. TypeOK'
    BY <1>1, <2>1, <2>2 DEF TypeOK
  <2>4. ClosedOK' /\ BannerOK' /\ CallsOK'
    BY <1>1, <1>2, <2>1 DEF ClosedOK, BannerOK, Inside, CallsOK, Copied
  <2>5. TransferOK' /\ BootBannerShown' /\ DeafOnlyIfEarly'
    BY <1>1, <2>2 DEF TransferOK, BootBannerShown, DeafOnlyIfEarly
  <2> QED BY <2>3, <2>4, <2>5
<1> QED BY <1>3, <1>4

(* The state after a restart is the first one, whatever came before. *)
LEMMA RestartStep == ASSUME Restart PROVE IInv'
<1>1. Fresh'
  BY DEF Restart, Fresh
<1> QED BY <1>1, FreshInv, PTL

LEMMA StepInv == IInv /\ [Next]_vars => IInv'
<1> SUFFICES ASSUME IInv, [Next]_vars PROVE IInv'
  OBVIOUS
<1>1. ASSUME NEW c \in Ctx, SendStep(c) PROVE IInv'
  BY <1>1, ReadySteps, FreeSteps, CopySteps, SetSteps, TestSteps, StartSteps DEF SendStep
<1>2. CASE UNCHANGED vars
  BY <1>2 DEF vars, flags, class, IInv, TypeOK, ClosedOK, BannerOK, Inside, CallsOK, Copied,
              TransferOK, BootBannerShown, DeafOnlyIfEarly
<1>3. ASSUME NEW n \in 1 .. 2, Call("main", n) \/ Call("tick", n) PROVE IInv'
  BY <1>3, CallSteps
<1> QED BY <1>1, <1>2, <1>3, HandleSteps, OpenSteps, ReceiveSteps, DataSteps, RestartStep DEF Next

-----------------------------------------------------------------------------
(* The invariant of the senders and the host together. *)
THEOREM Inductive == Spec => []IInv
<1>1. Init => IInv
  BY FreshInv DEF Init
<1> QED BY <1>1, StepInv, PTL DEF Spec

(* Every variable keeps its type. *)
THEOREM TypeCorrect == Spec => []TypeOK
<1>1. IInv => TypeOK
  BY DEF IInv
<1> QED BY Inductive, <1>1, PTL

(* However the senders preempt each other and the host resets and opens the   *)
(* link, the test of TxState alone keeps a message whole for as long as its   *)
(* call has not overlapped another one.                                       *)
THEOREM MessagesIntact == Spec => []UndisturbedIntact
<1>1. IInv => UndisturbedIntact
  BY DEF IInv, TransferOK, UndisturbedIntact
<1> QED BY Inductive, <1>1, PTL

(* The banner that tells of the boot is neither refused nor torn. *)
THEOREM BannerIsShown == Spec => []BootBannerShown
<1>1. IInv => BootBannerShown
  BY DEF IInv
<1> QED BY Inductive, <1>1, PTL

(* The input stops only after a packet that came before the port was open. *)
THEOREM DeafnessExplained == Spec => []DeafOnlyIfEarly
<1>1. IInv => DeafOnlyIfEarly
  BY DEF IInv
<1> QED BY Inductive, <1>1, PTL

(* A board whose port was never opened does not store through the NULL handle. *)
THEOREM ClosedNeverTraps == Spec => []TrapsOnlyWhenOpened
<1>1. IInv => TrapsOnlyWhenOpened
  BY DEF IInv, ClosedOK, TrapsOnlyWhenOpened
<1> QED BY Inductive, <1>1, PTL
=============================================================================
