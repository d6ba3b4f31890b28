----------------------------- MODULE Lifecycle -----------------------------
(***************************************************************************)
(* The life of the board from one reset to the next: board_init and its    *)
(* panics, main, the independent watchdog, and the reset flags from which  *)
(* the firmware tells what restarted it.  Time passes in units of UnitMs.  *)
(***************************************************************************)
EXTENDS Naturals

CONSTANTS
  UnitMs,        \* the grain of time of the model, in milliseconds
  WDT_TIMEOUT,   \* of lib.c, in seconds of 32000 / 32 watchdog clocks
  BEEP_DELAY,    \* of app.h, in milliseconds
  ExecUnits      \* bound: the longest run of exec_cmd that does not hang

ASSUME ExecAssumption == ExecUnits \in Nat

WdtPeriod == (((32000 \div 32) * WDT_TIMEOUT) + UnitMs - 1) \div UnitMs
BeepUnits == (BEEP_DELAY + UnitMs - 1) \div UnitMs

\* The code refreshes the watchdog once per pass of the loop, before exec_cmd.
ASSUME LoadAssumption ==
  /\ WdtPeriod \in Nat /\ BeepUnits \in Nat
  /\ BeepUnits + 2 < WdtPeriod
  /\ ExecUnits + 1 < WdtPeriod

VARIABLES
  flags,         \* the reset flags in RCC->CSR
  reset_type,    \* status.reset_type
  stage,         \* how far the main thread is, or how it stopped
  dogOn, dog,    \* the watchdog: started, units since its last refresh
  spent,         \* units spent in this stage
  cause,         \* history: what the last reset was
  traced         \* history: power was off, or wdt_init had run, before it

vars == <<flags, reset_type, stage, dogOn, dog, spent, cause, traced>>

Flags == {"PIN", "BOR", "SFT", "IWDG"}
Causes == {"button", "power", "software", "iwdt"}

\* The main thread will not go on by itself.
Stuck == stage \in {"panic", "hang", "crash"}

\* get_reset_type_str
ResetTypeStr ==
  CASE reset_type = {"PIN"} -> "button"
    [] reset_type = {"PIN", "SFT"} -> "software"
    [] reset_type = {"PIN", "IWDG"} -> "iwdt"
    [] reset_type = {"PIN", "BOR"} -> "power"
    [] OTHER -> "unknown"

Go(s) == stage' = s /\ spent' = 0

-----------------------------------------------------------------------------
Init ==
  /\ flags = {"PIN", "BOR"}
  /\ reset_type = {}
  /\ stage = "reset"
  /\ dogOn = FALSE /\ dog = 0
  /\ spent = 0
  /\ cause = "power" /\ traced = TRUE

\* board_init: memset(&status), then the flags are saved.
SaveResetType ==
  /\ stage = "reset"
  /\ reset_type' = flags
  /\ Go("clock")
  /\ UNCHANGED <<flags, dogOn, dog, cause, traced>>

\* SystemClock_Config, which panics when the oscillators do not start.
ClockInit ==
  /\ stage = "clock"
  /\ Go("usb") \/ Go("panic")
  /\ UNCHANGED <<flags, reset_type, dogOn, dog, cause, traced>>

\* The inits that cannot fail, and usb_init with its four panics.
UsbInit ==
  /\ stage = "usb"
  /\ Go("temp") \/ Go("panic")
  /\ UNCHANGED <<flags, reset_type, dogOn, dog, cause, traced>>

\* temp_init: two panics, and a calibration that is retried for ever.
TempInit ==
  /\ stage = "temp"
  /\ Go("wdt") \/ Go("panic") \/ Go("hang")
  /\ UNCHANGED <<flags, reset_type, dogOn, dog, cause, traced>>

\* wdt_init: the flags are cleared, then the watchdog is started.  It runs even
\* when HAL_IWDG_Init reports that its registers did not settle.  First a form
\* that forgets to clear the flags.
WdtInitKeepsFlags ==
  /\ stage = "wdt"
  /\ dogOn' = TRUE /\ dog' = 0
  /\ Go("beep") \/ Go("panic")
  /\ UNCHANGED <<flags, reset_type, cause, traced>>

WdtInit ==
  /\ stage = "wdt"
  /\ flags' = {}
  /\ dogOn' = TRUE /\ dog' = 0
  /\ Go("beep") \/ Go("panic")
  /\ UNCHANGED <<reset_type, cause, traced>>

\* main: beep, HAL_Delay(BEEP_DELAY), beep.
BootBeep ==
  /\ stage = "beep"
  /\ spent >= BeepUnits
  /\ Go("loop")
  /\ UNCHANGED <<flags, reset_type, dogOn, dog, cause, traced>>

\* app: refresh the watchdog, then execute a command if there is one; first a
\* form without the refresh.
AppNoRefresh ==
  /\ stage = "loop"
  /\ Go("loop") \/ Go("exec")
  /\ UNCHANGED <<flags, reset_type, dogOn, dog, cause, traced>>

App ==
  /\ stage = "loop"
  /\ dog' = 0
  /\ Go("loop") \/ Go("exec")
  /\ UNCHANGED <<flags, reset_type, dogOn, cause, traced>>

\* exec_cmd: it ends, or hangs ('r', or the ADC never answers get_mcu_temp), or
\* causes a hard fault ('R'), whose handler panics.
Exec ==
  /\ stage = "exec"
  /\ Go("loop") \/ Go("hang") \/ Go("crash")
  /\ UNCHANGED <<flags, reset_type, dogOn, dog, cause, traced>>

-----------------------------------------------------------------------------
\* Any reset pulls the reset pin as well.  Flags add up until they are cleared;
\* only power that comes on clears the others.
Reset(c, newFlags) ==
  /\ flags' = newFlags
  /\ stage' = "reset" /\ spent' = 0
  /\ dogOn' = FALSE /\ dog' = 0
  /\ cause' = c
  /\ traced' = (c = "power" \/ dogOn)
  /\ UNCHANGED reset_type

PowerCycle == Reset("power", {"PIN", "BOR"})
PressReset == Reset("button", flags \union {"PIN"})
DebuggerReset == Reset("software", flags \union {"PIN", "SFT"})

\* The watchdog counts to its period and resets the board.
DogBites ==
  /\ dogOn
  /\ dog = WdtPeriod
  /\ Reset("iwdt", flags \union {"PIN", "IWDG"})

\* How long the main thread stays in a stage before it moves on.
Limit ==
  CASE stage = "beep" -> BeepUnits + 1
    [] stage = "exec" -> ExecUnits
    [] stage = "loop" -> 1
    [] OTHER -> WdtPeriod

\* A form whose watchdog is refreshed by the tick interrupt.
TickRefreshes ==
  /\ Stuck \/ spent < Limit
  /\ spent' = IF spent < WdtPeriod + 1 THEN spent + 1 ELSE spent
  /\ dog' = 0
  /\ UNCHANGED <<flags, reset_type, stage, dogOn, cause, traced>>

\* Time passes; the watchdog's own step comes first when it is due.
Tick ==
  /\ dogOn => dog < WdtPeriod
  /\ Stuck \/ spent < Limit
  /\ spent' = IF spent < WdtPeriod + 1 THEN spent + 1 ELSE spent
  /\ dog' = IF dogOn THEN dog + 1 ELSE dog
  /\ UNCHANGED <<flags, reset_type, stage, dogOn, cause, traced>>

Boot == SaveResetType \/ ClockInit \/ UsbInit \/ TempInit \/ WdtInit \/ BootBeep
External == PowerCycle \/ PressReset \/ DebuggerReset

Next == Boot \/ App \/ Exec \/ DogBites \/ Tick \/ External

Spec == Init /\ [][Next]_vars

\* Time passes and the watchdog acts when it is due.
FairSpec == Spec /\ WF_vars(Tick) /\ WF_vars(DogBites)

-----------------------------------------------------------------------------
TypeOK ==
  /\ flags \subseteq Flags /\ reset_type \subseteq Flags
  /\ stage \in {"reset", "clock", "usb", "temp", "wdt", "beep", "loop", "exec",
                "panic", "hang", "crash"}
  /\ dogOn \in BOOLEAN /\ dog \in 0 .. WdtPeriod
  /\ spent \in 0 .. WdtPeriod + 1
  /\ cause \in Causes /\ traced \in BOOLEAN

\* The reset type that the info command prints is what reset the board, if the
\* boot before it got as far as wdt_init or the power was off in between.
ResetTypeTrue == stage # "reset" /\ traced => ResetTypeStr = cause

\* The watchdog never resets a board whose main thread is alive: neither the
\* boot beeps nor the longest command use up its period.
NoSpuriousReset == dogOn /\ dog = WdtPeriod => Stuck

\* Once wdt_init has run, a panic, a hang and a hard fault end in a reset.
StuckEndsInReset == Stuck /\ dogOn ~> stage = "reset"
=============================================================================
