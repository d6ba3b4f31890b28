# Verification of the STMcool firmware and its host terminal

STMcool is a fan controller on an STM32L4 (`app.c`, `lib.c`, `handlers.c`,
`ring.c`, `usbd_cdc_interface.c`) with a command line on a USB serial port, and
a small terminal program for the host (`tty.cpp`). The firmware has no operating
system: one main loop is preempted by interrupts that share its variables
without locks. The modules here model that sharing, the failures the firmware
handles, and the algorithms whose boundaries are hard to test. TLC checks them on
small instances; TLAPS proves some of the results for all values of the
constants.

## 1. Inventory

Contexts, from the highest priority (`usbd_conf.c`, `lib.c`): HardFault and NMI;
TIM2 (0, the buzzer); EXTI (2, the fans); USB (7); SysTick (15, the HAL's default);
the main loop. A context runs to its end before a lower one resumes.

| part | state | operations | interacts through |
|---|---|---|---|
| echo ring, `ring.c` | `data`, `head`, `tail` | `ring_write`, `ring_read`, `ring_freespace`, `ring_datalen` | written by the USB interrupt (`process_input`), read by the main loop (`app`) |
| command line, `app.c` | `cmd[3][17]`, two indices, `status.cmd`, `status.new_cmd`, `status.time` | `process_input`, `app`, `exec_cmd`, `set_time` | USB interrupt edits and hands over, main loop executes |
| start, panic, watchdog, `lib.c`, `app.c`, `handlers.c` | reset flags, `status.reset_type`, watchdog | `board_init` and its parts, `panic`, fault handlers, `wdt_reset`, `get_reset_type_str` | main loop refreshes the watchdog; the reset clears all RAM |
| clock, `handlers.c`, `lib.c`, `app.c` | `status.seconds`, `milliseconds`, `time`, `ms_cnt`, buffer of `mcu_time`, static struct of `gmtime`, green LED | `SysTick_Handler`, `_100_ms_tick`, `mcu_time`, `set_time` | SysTick counts, main loop and interrupts print through one static buffer |
| calendar, `lib.c` | none | `gmtime` | called by `mcu_time` |
| fan sensors, `handlers.c`, `app.c`, `lib.c` | EXTI pending bits, `status.fan` | EXTI handlers, `HAL_GPIO_EXTI_Callback`, `pin2fan`, `get_fan` | EXTI counts, main loop reads and clears |
| USB serial link, `usbd_cdc_interface.c`, `usbd_conf.c` | `cdc_ready`, `status.cdc_ok`, `tx_b`, the CDC handle of the USB library | `usb_cdc_send` and its wrappers, `CDC_Itf_Init`, `CDC_Itf_Control`, `CDC_Itf_Receive`, `usb_cdc_ready` | called from the main loop, SysTick and the USB interrupt |
| buzzer, button, alarm, `lib.c`, `handlers.c`, `app.c` | `buzzer_timer`, and the bits `buzzer_on`, `user_btn`, `panic` of one byte | `beep`, `buzzer`, the TIM2 callback, the button part of `SysTick_Handler`, `user_btn_cb`, the loop of `panic` | main thread, USB, SysTick and TIM2 all update that byte |
| traffic LEDs, `lib.c`, `handlers.c` | `status.led_blink`, the pins | `blink`, `set_led`, the loop of `SysTick_Handler` | `usb_cdc_send` lights, SysTick ends |
| host terminal, `tty.cpp` | echo mode, `stmcool` port, `show_prompt` | `main`, `app`, `process_input`, `read_stdin`, `sigquit_handler` | keyboard, screen, serial port, signals |
| what the user sees: `app.c`, `ring.c`, `usbd_cdc_interface.c` together | echo ring, line, flag, busy link | `process_input` with the cursor keys and ctrl-l, `app`, `exec_cmd` with its paced messages | an echo goes through the ring and the main loop, other answers directly to the link |
| temperature, `lib.c` | ADC | `temp_init`, `get_mcu_temp` | main loop only |
| not program logic | constants | `usbd_desc.c`, `syscalls.c`, start-up code, linker script, `timestamp.js`, Makefile, udev rule | - |

What is hard to test in it: interrupts between two accesses to shared data
(ring indices, `tx_b`, `status` bit-fields, fan counters, the clock, the history
slots under a running command), lost state after a USB reset, resets at any
moment, and arithmetic at its edges (wraps, negative times, the 17th byte of a
line). `PROJECT.json` lists each of these hazards at its line, with the properties
that cover it or the reason why none does. What makes each part correct is stated
with its module below.

## 2. Modules

Each component module has its variables named after the code, one action per
operation (or per access to shared data, where a context can be preempted
between two of them), and history variables marked as such. A definition with a
name like `FinishKeepsFlag`, next to `Finish`, is a wrong form of its neighbour,
used by no specification: it shows that a property would notice that bug. A
variable `pc` says where a context is; a context steps only when those above it
are idle.

**Fifo, Ring, RingProofs.** `Fifo` is the promise: a bounded queue with
non-atomic block calls. `Ring` is `ring.c` with one action per access that the
other side can fall before; `head` and `tail` are the code's. `ring_write` runs only in
the USB interrupt, so the reader stands still during it: the loads of `tail` in
`ring_freespace` agree with each other and are one step. The stores of `ring_write` are
separate steps all the same and the reader may run between them, which is more than the
code does. `ImplementsFifo` is the refinement,
with the queue mapped to the slots from `tail` to `head`. `WriterHasRoom` says that
the room found by the single test in `ring_write` still exists at each store,
`UnreadBytesKept` that an unread byte is changed by nobody. `ring.h` asks for a
power of two as the size; the proofs show that every size works.

**Executor, Console, ConsoleProofs.** `Console` is `process_input` as seen by the main
loop (one action per kind of byte, since it runs inside the USB interrupt), and `app`,
`exec_cmd` and `set_time` step by step. `StringsEnd`: every slot ends in a zero byte,
although `Key` stores before it tests and `memset` clears 16 of 17 bytes.
`TextIntact`: the text under execution is the one entered unless two more lines are
entered meanwhile; with more, the slots come round. `Executor` is what the two
contexts promise with their slots and one flag: lines are carried out one at a time,
always the newest (older ones that wait are dropped), none twice, each as it was
typed, down to the time that is set, unless too many were handed over behind it.
`ImplementsExecutor` is that refinement. With fairness, `EnteredLineTaken` (for a line
handed over while none executes: one that is handed over during an execution is
dropped when `app` clears the flag afterwards).

**Terminal, TerminalProofs.** What the user sees: `process_input`, the echo ring, `app`,
`exec_cmd` and `usb_cdc_send` composed, with the ring and the link reduced to what
`Ring` and `CdcLink` show of them. An echo travels through the ring and the main loop;
the answers to Enter, backspace, ctrl-l and the cursor keys go to the link at once and
overtake it; either is lost when the link is busy. `Fetched` is the screen as `app` of
`tty.cpp` makes it: the 0xC that answers ctrl-l is dropped there (its clearing of the screen
is a TODO), so ctrl-l leaves the line as it was, while the answer to a cursor key ends in a
new prompt under it (`cut`). `Stop` is a line that begins with `r` or `R`: `exec_cmd` does
not come back, interrupts go on editing and answering below an `r` (none below a hard
fault), and the reset that follows is `Lifecycle`'s. `EchoesInOrder`: an echo is shown at
most once and never before an older one, and what waits in the ring, in the hand of the
main loop and on the wire is younger, in this order. `PatientSeesLine`: who waits for
the answer to each byte sees the line being edited. `PacedNothingRefused`: the
millisecond after each message of the main loop is enough to lose none, if the host
fetches within it and the interrupt answers only a settled terminal. `Answered`: the
terminal settles on each byte of a user who waits, and every echo leaves the ring, unless
the main loop has been stopped by such a line.

**Lifecycle, LifecycleProofs.** From reset to reset: `board_init` with every panic,
the boot beep, the loop, commands that hang or crash, and the watchdog in units of
100 ms. `ResetTypeTrue`: the printed reset type is the cause, if the boot before
got as far as clearing the flags. `NoSpuriousReset`: neither the beep nor a command
starves the watchdog. `StuckEndsInReset`: every stop after `wdt_init` ends in a
reset. Before `wdt_init` (a panic of `SystemClock_Config`, `usb_init`, `temp_init`,
or the calibration that never ends) the board stops for good; the code has no
answer to that and no property pretends one.

**Clock, ClockProofs.** `SysTick_Handler` as four steps (the USB interrupt can print
between them), `mcu_time` as one step per read, for the uptime and for the date, which
goes through the static struct of `gmtime`; a date counts here as the second it stands
for. `set_time` takes ten characters, a sign among them, so the time of day can be below 0;
`SysTick_Handler` advances it only while it is not 0, and a clock that comes up to 0 stops
there and counts as not set. `CountersTrue` ties the counters to the number of ticks, with
the 100 ms that the start value of `ms_cnt` adds for good, ties the time of day to the
uptime, up to that stop, and bounds what an interrupt can see between two stores.
`PrintNotAhead` and `PrintExact` say what a print interrupted by ticks can show, past every carry and the wrap of `days`;
`LedCadence` says when the green LED changes, past the restarts of `ms_cnt` at the seconds.

**Gmtime, ClockProofs.** The actions `NextDay` and `PreviousDay` are a calendar that walks
away from 1970-01-01 and only knows how one day follows another. `Call` is the first half
of `gmtime` (day, time of day, weekday, with C's truncating division), `Correct` a turn
of its loop that guesses the year, `Finish` the search for the month. `GmtimeCorrect`:
the result is the calendar's, and on a day that `set_time` can name the loop takes two
turns at most. The month counts from 1 and the year is the full one, as the code has them
and `mcu_time` prints them, not as the comments of `struct tm` say (see section 3).

**FanSensors, FanSensorsProofs.** Pins that move while handlers run, EXTI pending bits,
handlers that serve the lowest pending line, end with `HAL_NVIC_ClearPendingIRQ` and leave,
and `get_fan` with the handler between its load and its store. The NVIC is not in the
repository. Assumed of it is what the ARMv7-M manual says of level-sensitive interrupts: a
request is latched when it rises and taken by the entry of the handler, and one that still
stands at the return is latched again. Whether `HAL_NVIC_ClearPendingIRQ` can drop the latch
of a request that stands is left to the worse answer, that it does. With a controller that
latched edges only, the clear would lose pulses, and `NoneForgotten` and `PendingServed`
would not hold. `NeverOvercounted`, `LongPulsesCounted`,
`CountsAccounted`: pulses are lost only if they end before the handler looks, or fall
into that window, or wrap the counter. `NoneForgotten`: no line is ever
pending without an interrupt that is latched for it or a handler whose return will see it.
`PendingServed`: what an entry leaves pending is served by a later one.

**CdcLink, CdcLinkProofs.** `usb_cdc_send` in three contexts, each access of its own:
`cdc_ready`, `TxState`, the two halves of `tx_b`, the length, the class's own test, the
start. The host attaches, detaches, opens, writes and fetches packets between any two.
`UndisturbedIntact`: a message is torn only if two calls overlapped beyond their tests
or the host reset the link within one. `BootBannerShown`: the banner that reports the
boot is never refused or torn. `DeafOnlyIfEarly`: the input stops only when the host
sent before opening, and until it enumerates again. `TrapsOnlyWhenOpened`: the NULL
handle after a bus reset is reached only by a board whose port had been opened
(`cdc_ready` is never taken back). `BusyEnds`.

**Buzzer, BuzzerProofs.** The bit-fields compile to a load and a store of one byte, so
each update is two steps, in `beep` (main thread and USB), in the button part of
SysTick and in a panic of `board_init`, and one step in TIM2. `SoundBounded`: the buzzer
outlives its timer only when an update straddles the stop. `SilentPinLow`,
`EventuallyQuiet`, `AlarmSounds`, `ButtonSettles`. A panic
in a fault handler masks TIM2, SysTick and USB: nothing of this module moves any more,
its alarm is silent, and the watchdog (`Lifecycle`) ends it.

**Leds, BuzzerProofs.** `blink` in three contexts against the loop in SysTick, every access a
step: `NeverStuckLit`, `DarkInTheEnd`. `Contexts` has the priorities that `CdcLink`,
`Buzzer` and `Leds` share.

**HostTty, TerminalProofs.** The loop of `tty.cpp` with keys, device bytes, unplugs and
signals at every step. History variables keep the keys of each call of `read_stdin` and,
with each write that arrives, the call it is for. `KeysInOrder` (every write is the keys of
one call, translated, cursor keys whole; the writes come in the order of the calls and
none twice; the request for a prompt first or never; a call that is neither written nor in
the program's hand is counted as lost), `LossBounded` (an unplug costs one write at most),
`LossNoticed`, `KeysServedWhenSilent` (the device is read first, so a device that never
stops starves the keyboard; one that falls silent does not).

Module `MCx` instantiates module `x` for TLC.

## 3. Runs and bounds

| run | instance | shows |
|---|---|---|
| `ring` | 3 slots, blocks up to 3 | every interleaving of one writer and one reader; full, empty, refused and wrapping all occur |
| `console` | 3 slots of 3 + 1 bytes, 3 lines and one being typed | `Console` implements `Executor`; the history comes round and laps a running command; full lines, commands that return, hang and crash, restarts; a line handed over to an idle main loop is taken up |
| `lifecycle` | the code's own 2 s and 300 ms; commands up to 300 ms | all behaviours; a stuck board is reset |
| `clock` | 4 ticks to the second and 2 to the tenth, `ms_cnt` starts at 2; 2 s, 2 min, 2 h, 2 days; 70 ticks | every carry and the wrap of the days, the restart of `ms_cnt` between two tenths, prints of the uptime and of the date; the time is set at any moment, to 0, above it, and to 2 s below it, so that it comes to 0 and stops |
| `gmtime` | every whole day of 32 bits of seconds, 1901-2038 (TLC's own integers end there), 4 times of the day | complete for these days; the theorem has no bound |
| `fan_sensors` | lines 9, 10, 15; 4 pulses in all; counters of 2 values | both shared handlers, two lines of one, wrap of a counter, pulses between the service of a line and the clear of the interrupt; no line stays pending |
| `cdc_link` | no bound | all behaviours of the model; the class becomes free again |
| `buzzer` | timer of 8 values, beeps of 1, 2 and 3, 3 moves of the button | wraps of the timer, all beeps, presses, a panic; the buzzer stops, the alarm comes again, and the button settles |
| `leds` | 2 LEDs, blinks of 2 ticks, 6 calls | expiry of one blink under the next; dark in the end |
| `host_tty` | 3 keys, 2 device bytes waiting, 2 unplugs | pairs, nul, loss and reopening; the loss is noticed and the keyboard served |
| `terminal` | ring of 2 echoes, 3 keys | full ring, busy link, answers that overtake echoes, a command under way while keys come, a line that stops the main loop |

Each run checks the safety and the liveness of its module on one instance. `TypeOK`
is in no run: in the modules with proofs it is a theorem, and the other modules state
it as documentation of their variables.

The numbers scale the code's down so that the boundaries come within reach: what
matters of a size is that the structure fills, wraps and is lapped, and each run
is large enough for that more than once. Bounds on histories (`MaxLines`,
`MaxTicks`, `MaxEdges`, `MaxBlinks`, `MaxFlips`, `MaxKeys`, `MaxBytes`, `MaxUnplugs`)
limit how much the environment does, not the program; `MaxBytes` bounds only the
bytes that wait, and the device may send for ever. `MaxEdges` also hides starvation:
endless pulses on a low line would starve a higher one of its group, and the liveness
property of that module says so.

One run ends in a violation and records where the code and its comments differ:
`host_tty_ctrl_d` (ctrl-d is a byte for the device; with ICANON off, only a nul ends
the program). Three more differences of the code and its words are visible without a run,
and the modules follow the code:

- `wdt_init` announces a timeout of 1 s (lib.c:289) and, with `WDT_TIMEOUT` 2, gets 2 s,
  which is what `WdtPeriod` is.
- `struct tm` says `Month (0-11)` and `Year - 1900` (lib.c:375-376). `gmtime` stores the
  month from 1 (lib.c:440) and the full year (lib.c:434, with `- 1900` commented out), and
  `mcu_time` prints both as they are (lib.c:450-451). `GmtimeCorrect` asks for what is
  stored; that its month is 1 to 12 and its year the calendar's is part of it.
- `fans are connected to EXTI_Line[0..7]` (lib.c:200): the pins of `app.h` are 8 to 15, and
  so are the lines of `FanSensors` (`LineAssumption`); the priorities set for EXTI0 to EXTI4
  next to that comment serve no fan.

### Fairness

Time passes and interrupts end: weak fairness of the interrupt steps, of the tick and of
the watchdog, all hardware. The main loop is resumed after interrupts: weak fairness of
its steps where the model has no preemption in between (`Console`), and strong where it
is disabled again and again by ticks (`blink` in `Leds`; SysTick under USB, and the main
thread under both, in `Buzzer`). In `cdc_link` the host is assumed to go on fetching
packets (strong fairness of `DataIn`; weak in `Terminal`, where nothing takes the link
down): USB polls while the port is open, and a host that stops is not the firmware's to
answer for. Nobody is assumed to type, press, plug, or spin a fan.

## 4. Proofs

All proofs are for every value of the constants within the named assumptions.

`RingProofs`: `TypeCorrect`; `Inductive`, the invariant `IInv`, which adds to the
types that the room left covers the rest of the accepted block, that the writer
between its store and its step of `head` has stored its byte at `head`, and that the
reader between its copy and its step of `tail` holds the byte at `tail`. Without these
`WriterHasRoom` is not inductive: nothing would tie the test at the call to the
stores. From it follow `RoomStaysFree`, `UnreadKept` and `Refinement`
(`Spec => ImplementsFifo`: initial states map to initial states, each step to a step
of the queue or a stutter). The lemmas describe the modulo arithmetic of the
indices and the sequence of unread bytes. Assumption: `Size` is positive.

`LifecycleProofs`: `TypeCorrect`; `ResetTypeIsTrue`, by an invariant on the flags
per cause and stage; `NoResetOfTheLiving`, by an invariant that bounds the watchdog
count by the time spent in the stage. Assumption: the beep plus 2 units and the
longest command plus 1 are shorter than the watchdog period (`LoadAssumption`,
evaluated on the code's values by the run).

`ConsoleProofs`: `TypeCorrect`, `EveryStringEnds`, `TextStaysIntact`, and `Refinement`
(`Spec => ImplementsExecutor`). `TextIntact` is not inductive, because it speaks of
slots and `Behind` of lines. The invariant ties the two: as long as the history has not
come round, the line being typed is `Behind + 1` slots ahead of the text under execution
(`TextKept`), the line handed over last is in the slot before the one being typed
(`HandedOver`), each slot is a text followed by zeros (`LinesEnd`), and a raised flag
belongs to a line not yet taken (`FlagFresh`). For `Refinement` the lemmas `StringWhole`
and `StringTail` show that the two reads of `set_time`, from byte 0 and from byte 2, see
the same line. Assumptions: the history, a line and a time stamp have at least one byte,
no key is the zero byte, and the first bytes of the commands are told apart
(`CommandAssumption`).

`ClockProofs`: `TypeCorrect`, `CountersAreTrue`, `LedKeepsCadence`, `PrintsNotAhead`,
`PrintsExact`. The invariant gives the counters at each of the four stores of
`SysTick_Handler` (`CountsTicks`, `TimeOfDay`), and of each part that a print has read
that it is behind the clock (`PartsBehind`, `DateBehind`), exact if no second has passed
(`PartsExact`) and read after `seen` (`SeenBefore`). `PrintsNotAhead` rests on the lemma
`Digit`: the whole units of a number are the whole larger units and one digit, so
that each further read, however late, completes the parts before it at most to the time of
its own moment (`NextPart`). Assumption (`UnitAssumption`): the larger units are
multiples of the smaller ones, and of a tenth; the times that are set have either sign.

`FanSensorsProofs`: `TypeCorrect`, `AllAccounted`, `NoneInvented`,
`NoLongPulseLost`, `AllRemembered`. `NeverOvercounted` alone says nothing of a pulse on its way; the
invariant says of each line that a pulse is pending, in service or counted and
never two of these, that a pulse which has not ended is still high and waits once,
and that what `get_fan` has loaded is accounted for up to its load. The lemma
`Wiring` proves that `p2f` of `app.c` inverts the pin table of `app.h`, `LowestLine`
that the loop of a handler finds a line. Assumptions: the lines are among 8 to 15
and a counter has at least one value.

`CdcLinkProofs`: `TypeCorrect`, `MessagesIntact`, `BannerIsShown`,
`DeafnessExplained`, `ClosedNeverTraps`, without any assumption. The invariant
has an owner for the shared buffer at every moment: an uncrossed call finds in `tx_b`
what it has copied (`CallsOK`), an undisturbed transfer keeps `TxState` at 1 and
everybody out of the window (`TransferOK`), the first banner has the link to itself
(`BannerOK`), and before the port is open nobody is beyond `cdc_ready` (`ClosedOK`).

`BuzzerProofs`, on `Buzzer`: `TypeCorrect`, `SoundIsBounded`, `SilenceIsLow`,
`PanicStays`. The strengthening (`UpdatesBounded`) says that whoever is about to turn
the buzzer on has set its timer since the last stop, or straddles that stop;
`PanicStays` (no store of an older byte takes `status.panic` back) needs that whoever stores
the byte has loaded the panic flag as it still is (`PanicSeen`). It is in no run: only the
main thread sets the flag, everybody else who stores the byte preempts it, and so no small
change of this code could break it. Assumptions: the timer has at least one value and holds what `beep`
writes into it.

On `Leds`: `LedTypeCorrect`, `NobodyStaysLit`. The strengthening
(`LastValueShort`) says that a counter has its last value only until SysTick clears
it. Assumption: there is an LED.

`ClockProofs`, on `Gmtime`: `GmtInductive`, `GmtimeIsCorrect`, for every day in either
direction and every second of it. `CalendarOK` counts the calendar's days: today is the
first of January of its year (`NewYear`) plus the day of the year, and that is what the
month table says of month and day. `CallOK` is the loop's invariant: the guessed year and
the remaining days are always another name of today. Each turn keeps it whatever the guess,
because the correction is the distance of two first days of January; so the loop can only
end in a wrong year if a day had two names, and `OneYear` shows that it has one
(`YearAfter`, `YearsGrow`). `MonthFound` does the same for the months. The arithmetic
lemmas (`LeapRule`, `LeapCount`, `SplitTime`, `ClockTime`, `Weekday`, `GuessDown`) prove
that C's division, which rounds towards zero, with the corrections the code makes for it
is division that rounds down. `TurnsOK` bounds the loop: on a settable day the first
guess is off by less than the leap days in between, at most 80 days, so that a second turn,
by one year, is the last. Assumption: a second of the day is below 86400.

`TerminalProofs`, on `Terminal`: `TypeCorrect`, `EchoesStayInOrder`, `PatientUserSeesLine`,
`PacedTerminalRefusesNothing`, from `Inductive`. The invariant has three parts. The order
(`InOrder`, `EchoIsMine`): told, wire, hand, ring and typed are strictly increasing, and
beyond the tests of `usb_cdc_send` an echo in `tx_b` is the one the main loop has copied,
although the interrupt may have overwritten it. Who is on the link (`LinkFree`): as long as
the host keeps pace, the main loop finds the link free each time it sends, and what is on
the wire outside its delay is an answer to a terminal at rest. What a patient user sees
(`PatientOK`): the screen, after the packet on the wire is fetched, is the line without the
one key that is still in the ring, in the hand or on the wire. Without this third
part `PatientSeesLine` says nothing of the moment between a key and its echo. Assumptions:
the ring has room for an echo, and a line for a key.

`TerminalProofs`, on `HostTty`: `TtyInductive`, `KeysStayInOrder`, `LossIsBounded`. What the
program holds is known at each of its steps (`HandOK`: a `[` that waits for its successor, or
the keys of the last call), the prompt comes before any key (`PromptFirst`), the call in
hand has not been written (`SentBefore`), and a program past its poll on a port that has
gone has a write to lose and an unplug to blame it on (`Doomed`, `LossOK`). Without
`Doomed`, `LossBounded` is not inductive. Assumptions: the bounds are numbers, and the keys
are among those of the module.

Every safety property and every action property of the runs that end well, and both
refinements, are theorems. Only model-checked are the liveness properties, which are out of
the prover's reach: `EnteredLineTaken`, `StuckEndsInReset`, `PendingServed`, `BusyEnds`,
`EventuallyQuiet`, `AlarmSounds`, `ButtonSettles`, `DarkInTheEnd`, `LossNoticed`,
`KeysServedWhenSilent`, `Answered`. The bounds on the environment (`MaxLines`,
`MaxEdges`, `MaxFlips`, `MaxBlinks`, `MaxKeys`, `MaxPresses`, `MaxUnplugs`, `FirstDay`,
`LastDay`) are constants of these theorems like any other: they hold for every value.

## 5. Not modelled

The temperature sensor (one polled conversion; its failures are in `Lifecycle`),
`syscalls.c` (constant stubs and `_sbrk`), `usbd_desc.c` (tables), the calls of
`usbd_conf.c` that only pass arguments on, the vendor's start-up code, RTT logging, the
panic's own LED. `get_serial` returns a constant, so the hexadecimal conversion in
`usbd_desc.c` has one input. `Terminal` leaves out the reports of the button (they are
senders of `CdcLink`). The USB library, the HAL and the hardware are not in the
repository; what is modelled of them is marked external in the map of `PROJECT.json`:
`TxState` and the handle that is NULL between a bus reset and the next configuration,
the endpoints, EXTI, the watchdog, the reset flags. A load through that NULL pointer
reads an unknown word of the flash, and a store may trap or not: both are choices.

## 6. Plan

Done first, because most of the rest hangs on it: the ring, the command line and
the life of the board; then the other parts one by one; then what joins them: the
terminal as the user sees it, the executor that the console implements, the alarm of a
panic on the byte it shares with beeps and the button, and the proofs of the clock.
What is left:

1. `Terminal` with the button's reports and a reset of the link, which `CdcLink` has
   alone.
2. A panic under USB traffic composed with `Leds`: SysTick then ends no blink.
3. That the queue of `Terminal` and the ring agree is so far an argument in words (`Ring`
   implements `Fifo`, and `Written` is a `Write` of it); it could be a theorem.
