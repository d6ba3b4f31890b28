-------------------------- MODULE LifecycleProofs --------------------------
(* Proofs about the watchdog and the reset type, for every timeout, beep and *)
(* command length that LoadAssumption admits.                                *)
EXTENDS Lifecycle, TLAPS

USE ExecAssumption, LoadAssumption

(* Every variable stays in its range; the watchdog counter never passes the  *)
(* period.                                                                   *)
THEOREM TypeCorrect == Spec => []TypeOK
<1> DEFINE FlagsOK == flags \subseteq Flags /\ reset_type \subseteq Flags
           RestOK == /\ stage \in {"reset", "clock", "usb", "temp", "wdt", "beep", "loop",
                                  "exec", "panic", "hang", "crash"}
                     /\ dogOn \in BOOLEAN /\ dog \in 0 .. WdtPeriod
                     /\ spent \in 0 .. WdtPeriod + 1
                     /\ cause \in Causes /\ traced \in BOOLEAN
<1>1. Init => TypeOK
  <2>1. Init => FlagsOK
    BY DEF Init, Flags
  <2>2. Init => traced \in BOOLEAN /\ dogOn \in BOOLEAN
    BY Zenon DEF Init
  <2>3. Init => RestOK
    BY <2>2 DEF Init, Causes
  <2> QED BY <2>1, <2>3 DEF TypeOK
<1>2. TypeOK /\ [Next]_vars => TypeOK'
  <2> SUFFICES ASSUME TypeOK, [Next]_vars PROVE FlagsOK' /\ RestOK'
    BY DEF TypeOK
  <2>a. FlagsOK /\ RestOK
    BY DEF TypeOK
  <2>1. CASE Boot
    <3>1. /\ flags' = flags \/ flags' = {}
          /\ reset_type' = flags \/ reset_type' = reset_type
      BY <2>1 DEF Boot, SaveResetType, ClockInit, UsbInit, TempInit, WdtInit, BootBeep
    <3>2. FlagsOK'
      BY <2>a, <3>1
    <3>3. dogOn' \in BOOLEAN /\ traced' \in BOOLEAN
      BY <2>1, <2>a, Zenon DEF Boot, SaveResetType, ClockInit, UsbInit, TempInit, WdtInit,
         BootBeep
    <3>4. RestOK'
      BY <2>1, <2>a, <3>3 DEF Boot, SaveResetType, ClockInit, UsbInit, TempInit, WdtInit,
         BootBeep, Go
    <3> QED BY <3>2, <3>4
  <2>2. CASE App \/ Exec
    BY <2>2, <2>a DEF App, Exec, Go
  <2>3. ASSUME NEW c \in Causes, NEW n, n \subseteq Flags, Reset(c, n)
        PROVE  FlagsOK' /\ RestOK'
    <3>1. FlagsOK'
      BY <2>3, <2>a DEF Reset
    <3>2. traced' \in BOOLEAN /\ dogOn' \in BOOLEAN
      BY <2>3, Zenon DEF Reset
    <3>3. stage' = "reset" /\ dog' = 0 /\ spent' = 0 /\ cause' = c
      BY <2>3 DEF Reset
    <3>4. RestOK'
      BY <2>3, <3>2, <3>3
    <3> QED BY <3>1, <3>4
  <2>4. CASE DogBites \/ External
    <3>1. /\ {"PIN", "BOR"} \subseteq Flags /\ flags \union {"PIN"} \subseteq Flags
          /\ flags \union {"PIN", "SFT"} \subseteq Flags
          /\ flags \union {"PIN", "IWDG"} \subseteq Flags
      <4>1. "PIN" \in Flags /\ "BOR" \in Flags /\ "SFT" \in Flags /\ "IWDG" \in Flags
        BY DEF Flags
      <4> QED BY <2>a, <4>1
    <3>2. {"power", "button", "software", "iwdt"} \subseteq Causes
      BY DEF Causes
    <3> QED
      BY <2>3, <2>4, <3>1, <3>2 DEF DogBites, External, PowerCycle, PressReset, DebuggerReset
  <2>5. CASE Tick
    BY <2>5, <2>a DEF Tick
  <2>6. CASE UNCHANGED vars
    BY <2>6, <2>a DEF vars
  <2> QED
    BY <2>1, <2>2, <2>4, <2>5, <2>6 DEF Next
<1> QED
  BY <1>1, <1>2, PTL DEF Spec

-----------------------------------------------------------------------------
(* What the flags are on the way from a reset to wdt_init, when no older flag *)
(* was left: those of the cause, and what board_init saved is the same.       *)
FlagsOf(c) ==
  CASE c = "button" -> {"PIN"}
    [] c = "software" -> {"PIN", "SFT"}
    [] c = "iwdt" -> {"PIN", "IWDG"}
    [] OTHER -> {"PIN", "BOR"}

TypeSaved ==
  /\ traced => IF stage = "reset" THEN flags = FlagsOf(cause)
                                  ELSE reset_type = FlagsOf(cause)
  /\ dogOn => flags = {}

(* The printed reset type is the cause of the last reset, unless a boot before *)
(* it stopped short of wdt_init and left its flags behind.                     *)
THEOREM ResetTypeIsTrue == Spec => []ResetTypeTrue
<1> USE DEF Causes, Go
<1>1. Init => TypeSaved
  BY DEF Init, TypeSaved, FlagsOf
<1>2. TypeSaved /\ TypeOK /\ [Next]_vars => TypeSaved'
  <2> SUFFICES ASSUME TypeSaved, TypeOK, [Next]_vars PROVE TypeSaved'
    OBVIOUS
  <2>1. CASE Boot
    BY <2>1 DEF TypeSaved, FlagsOf, Boot, SaveResetType, ClockInit, UsbInit, TempInit,
       WdtInit, BootBeep
  <2>2. CASE App \/ Exec
    BY <2>2 DEF TypeSaved, FlagsOf, App, Exec
  <2>3. ASSUME NEW c \in Causes, NEW n, Reset(c, n),
               traced' => n = FlagsOf(c)
        PROVE  TypeSaved'
    BY <2>3 DEF TypeSaved, FlagsOf, Reset
  <2>4. CASE PowerCycle
    BY <2>3, <2>4 DEF PowerCycle, FlagsOf
  <2>5. CASE PressReset
    <3>1. traced' => flags = {}
      BY <2>5 DEF PressReset, Reset, TypeSaved
    <3> QED BY <2>3, <2>5, <3>1 DEF PressReset, FlagsOf
  <2>6. CASE DebuggerReset
    <3>1. traced' => flags = {}
      BY <2>6 DEF DebuggerReset, Reset, TypeSaved
    <3> QED BY <2>3, <2>6, <3>1 DEF DebuggerReset, FlagsOf
  <2>7. CASE DogBites
    <3>1. traced' => flags = {}
      BY <2>7 DEF DogBites, Reset, TypeSaved
    <3> QED BY <2>3, <2>7, <3>1 DEF DogBites, FlagsOf
  <2>8. CASE Tick
    BY <2>8 DEF TypeSaved, FlagsOf, Tick
  <2>9. CASE UNCHANGED vars
    BY <2>9 DEF vars, TypeSaved, FlagsOf
  <2> QED
    BY <2>1, <2>2, <2>4, <2>5, <2>6, <2>7, <2>8, <2>9 DEF Next, External
<1>3. TypeSaved /\ TypeOK => ResetTypeTrue
  <2> SUFFICES ASSUME TypeSaved, TypeOK, stage # "reset", traced
               PROVE  ResetTypeStr = cause
    BY DEF ResetTypeTrue
  <2>1. cause \in Causes /\ reset_type = FlagsOf(cause)
    BY DEF TypeOK, TypeSaved
  <2> QED
    BY <2>1 DEF ResetTypeStr, FlagsOf
<1> QED
  BY <1>1, <1>2, <1>3, TypeCorrect, PTL DEF Spec

-----------------------------------------------------------------------------
(* How far the watchdog can have counted in each stage of a live main thread. *)
DogBound ==
  /\ stage \in {"reset", "clock", "usb", "temp", "wdt"} => ~dogOn
  /\ stage = "beep" => dog <= spent /\ spent <= BeepUnits + 1
  /\ stage = "loop" =>
       /\ spent <= 1
       /\ dog <= BeepUnits + 1 + spent \/ dog <= ExecUnits + spent
  /\ stage = "exec" => dog <= spent /\ spent <= ExecUnits

(* A live main thread is never reset by the watchdog.                          *)
THEOREM NoResetOfTheLiving == Spec => []NoSpuriousReset
<1> USE DEF Go
<1>1. Init => DogBound
  BY DEF Init, DogBound
<1>2. DogBound /\ TypeOK /\ [Next]_vars => DogBound'
  <2> SUFFICES ASSUME DogBound, TypeOK, [Next]_vars PROVE DogBound'
    OBVIOUS
  <2>1. CASE Boot
    BY <2>1 DEF DogBound, TypeOK, Boot, SaveResetType, ClockInit, UsbInit, TempInit,
       WdtInit, BootBeep
  <2>2. CASE App
    BY <2>2 DEF DogBound, TypeOK, App
  <2>3. CASE Exec
    BY <2>3 DEF DogBound, TypeOK, Exec
  <2>4. CASE DogBites \/ External
    BY <2>4 DEF DogBound, DogBites, External, PowerCycle, PressReset, DebuggerReset, Reset
  <2>5. CASE Tick
    BY <2>5 DEF DogBound, TypeOK, Tick, Stuck, Limit
  <2>6. CASE UNCHANGED vars
    BY <2>6 DEF vars, DogBound
  <2> QED
    BY <2>1, <2>2, <2>3, <2>4, <2>5, <2>6 DEF Next
<1>3. DogBound /\ TypeOK => NoSpuriousReset
  BY DEF DogBound, TypeOK, NoSpuriousReset, Stuck
<1> QED
  BY <1>1, <1>2, <1>3, TypeCorrect, PTL DEF Spec
=============================================================================
