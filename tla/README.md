# Verification of the expert-car firmware

The repository is the firmware of a remote-controlled car: an STM32G431 under
RT-Thread 4.1.0, with a PlayStation 2 gamepad, two driven wheels, two servos, a
temperature/humidity sensor, a gas sensor, an LCD, two push buttons, a
presence sensor, a siren and a lamp. The program's own code is
`src/applications`; `src/drivers` is the board support, `src/cubemx` is
generated, `src/libraries` and `src/rt-thread` are vendored. There are no tests
and no documents besides the comments in the code.

All of `src/applications` that runs is modelled, and of the rest what the
firmware depends on while it runs: the scheduler and the timers of the kernel,
the PWM driver and the pin interrupts.

## Inventory

| Part | State it keeps | Operations | Talks to |
|---|---|---|---|
| gamepad thread, `ps2.c`, priority 8 | `Data[9]`, `PS2_LX/LY/RX/RY/KEY` | configure the pad, poll every 50 ms, decode the key | publishes sticks and key as globals; sets `beep_value` |
| motor thread, `motor.c`, priority 9 | `prev_usual`, `prev_delta`, bridge pins, pulses | every 10 ms: smooth, rate-limit, mix, program wheel A, then wheel B | reads `PS2_LX`, `PS2_LY`; PWM device `pwm1` |
| servo thread, `duoji.c`, priority 10 | two pulses, home hold (`ps2_flag`, `i`) | every 10 ms: home key, range-checked move, program both channels | reads `PS2_RX`, `PS2_RY`, `PS2_KEY` (twice each for the sticks); PWM device `pwm8` |
| push buttons, `key.c`, interrupt and thread of priority 7 | `beep_value2`, `buf`, `i` | interrupt: raise the flag, move the review cursor; thread: drop the flag after about 250 ms | `number` of the sensor thread; hardware thread |
| siren, lamp, visitor counter, `hardware.c`, priority 7 | siren/lamp, `people_number`, `n`, `n_flag` | sample four alarm sources, sound or silence, count visitors with a cool-down | reads `beep_value`, `beep_value2`, `beep_value3`, the presence pin |
| sensor thread, `dht11_handle` in `aht10.c`, priority 7 | `dht11_data`, `review_buf[20][3]`, `number`, `key_flag`, `beep_value3` | read the sensor every 5 s, raise an alarm, record or clear rows on pad keys | reads `PS2_KEY`; writes to the LCD |
| display thread, `aht10_handle` in `aht10.c`, priority 10 | text buffers, `ADC_Value` | sample the ADC, print everything once a second | reads `dht11_data`, `review_buf[buf]`, `people_number`; writes to the LCD |
| LCD driver, `lcd.c` | pins of a bit-banged bus, the panel's window | bytes, windows, strings, lines, circles | called by the sensor and the display thread |
| PWM driver, `drv_pwm.c`, `rt_drv_pwm.c` | prescaler, reload and compare registers | set, get, write, enable, disable | called by the motor and the servo thread, one timer each |
| pin interrupts, `drv_gpio.c` | table of handlers, mask of enabled lines | attach, detach, enable, disable, dispatch | called by `key.c`; calls its interrupt handlers |
| microsecond delay, `drv_common.c` | none | busy wait on SysTick | all bit-banged protocols |
| kernel timers, `timer.c` | ordered list, tick, flags | start, stop, control, detach; expiry in the tick interrupt | every `rt_thread_mdelay` ends through one |
| scheduler, `scheduler.c`, `thread.c`, `clock.c`, `idle.c` | ready lists and their bitmap, states, slices, lock | schedule, sleep, yield, suspend, resume, exit | everything |
| `led.c`, `main.c` | - | the LED thread is not exported, `main` returns | - |

The application shares everything through plain globals without locks. What
orders accesses is priority: a thread sees a group of stores of a more urgent
thread either not at all or complete, because the latter only gives up the
processor in `rt_thread_mdelay`; but it can be preempted between any two
accesses of its own. Threads of equal priority (7) are time-sliced, and the
button interrupt comes between any two instructions.

What is hard to test, with the line at which it bites and the property that
would catch it, is the list `hazards` of `PROJECT.json`.

## Modules

| Module | Contents | Implements / composes |
|---|---|---|
| `Motor`, `MotorTuning`, `MotorProofs` | `motor.c`, its numbers, and theorems about it | implements `SlewLimiter` |
| `Servo`, `ServoProofs` | `duoji.c` and theorems about it | |
| `Ps2` | `ps2.c` with an external pad and operator | |
| `Drive`, `DriveProofs` | from the hands to the wheels, and theorems about its gamepad half | composes `Ps2` and `Motor` |
| `Alarm` | `key.c` and `hardware.c` with discrete time | |
| `PinIrq` | `drv_gpio.c` and the HAL's GPIO functions | |
| `ButtonProofs` | theorems about `Alarm` and `PinIrq` | |
| `ReviewLog` | recording, clearing and showing rows of `review_buf` | implements `RecordLog` |
| `Dht11` | the sensor's one-wire protocol and the alarm | |
| `LcdBus` | two threads on the display's unlocked bus, and the panel | |
| `SensorProofs` | theorems about `ReviewLog`, `Dht11` and `LcdBus`, the three parts of `aht10.c` | |
| `PwmDriver` | `drv_pwm.c`, `rt_drv_pwm.c` and a running timer | |
| `ServoPulses` | the pulses the servos get | composes the calls of `duoji.c` with `PwmDriver` |
| `PwmProofs` | theorems about `PwmDriver` and `ServoPulses` | |
| `TimerList`, `HardTimer`, `TimerProofs` | timers run by the tick interrupt, and theorems | implements `Countdown` |
| `Scheduler`, `SchedulerProofs` | ready lists, time slices, thread operations, and theorems | |
| `MC...` | instances for TLC | |

Operators named `<definition>_<slip>` (for instance `limit_change_UpOnly`) are
plausible mistakes in the code behind `<definition>`. No specification uses
them; replacing a definition by its slip must make TLC report a violation,
which shows that the property depends on the code.

### Motor

One action per access to something another thread can see: `ReadLY`, `ReadLX`
(with all arithmetic on the thread's own variables), the two pin writes and the
pulse write of each wheel, `Wake`. `Publish` is the gamepad thread storing two
readings between any two of them. `Start` leaves open whether the PWM device
exists, because the code goes on without it. The smoothing filter is computed in
`float` and truncated; `Smooth` gives the exact quotient truncated, or, where
the exact value is an integer, also its neighbour towards zero. This set
contains the result of single precision arithmetic, with and without fused
multiply-add, for all stick and filter values of the code: the rounding error of
the sum is below 0.1, and a non-integral exact value is at least 0.2 away from
the next integer.

`Drive(w)` is the signed drive of a wheel: its pulse in the direction of its
pins, zero if the pins agree. `ImplementsSlewLimiter` says that the sequence of
drives is a behaviour of `SlewLimiter`, hence also that a reversal is harmless
wherever it is interrupted: the rate limit makes the old and the new pulse small
whenever the sign of a speed changes. `MotorTuning` holds the constants, which
`Drive` shares.

### Servo and ServoPulses

One action per read of a global: the key, `PS2_RX` in the gate, `PS2_RY` in its
test, `PS2_RY` for the speed, `PS2_RX` for the speed. A compiler may merge the
two reads of one stick; that is the behaviour without a `Publish` in between.
Pulses are added modulo `Word`, as C does for `rt_uint32_t`.

`ServoPulses` looks at the other side of the same thread: what its calls on the
driver do to a timer that counts on in between. Every set starts the period of
both channels again, and the loop does so twice as often as the timer would, so
the pulses exist only because of these restarts. `PulsesWhole` says that no
pulse is cut short and how long one can get when restarts fall into it;
`KeepsPulsing` says that both lines keep pulsing. `SetNext` leaves out the test of
`duoji.c:94`, which skips both sets during a hold or at one stick reading: the
model has all the sets the code has, and more. `SweepsToLimit` is stated for every
reading that is held, so that it says of both ends of the range that a servo
reaches them, and, since it starts from anywhere, that it leaves the other one.
Two history variables: `width`
is for how long a line has been high, `joined` holds the lines that were enabled
while the counter was inside their pulse: enabling the second channel joins a
timer the first has started, so that its first pulse may be short.

### Ps2 and Drive

A byte is the set of its one-bits, because the code only ever ORs bits into a
cleared buffer. A transaction on the bus is one action: threads that preempt it
touch neither `Data` nor the bus. The pad (`Hear`, `Answer`) is external, taken
from the commands the code sends and the bytes it reads: configuration commands
count only in configuration mode, a locked pad ignores its MODE button, and
bytes nobody drives read as ones because DI is pulled up. The operator moves,
presses MODE, unplugs and plugs in at any time. `wire` is a history variable:
the answers of the last two polls.

`Drive` puts `Ps2` and `Motor` on the same stick variables and adds
their sleeping times in units of 10 ms. It shows the way from hand to wheel
(`HandsOffStops`) and what a lost pad does (`LostPadMeansReverse`: the code reads
all ones and drives backwards). The operator acts just before a
transaction: earlier moves would not be noticed before it. The run also checks
the properties of `Ps2` and of `Motor`, whose sticks are the published ones.

### Alarm and ReviewLog

In `Alarm` the key thread's test and reset of `beep_value2` are two actions, the
interrupt may come in between. Time advances in units of 10 ms once no thread
has anything left to do in the current one; within a unit all orders are
possible. The computing time of the threads is taken to be below one unit.
`Source` is what this component sees of the gamepad, sensor and presence
inputs. `wait` and `gap` are history variables: the age of the oldest
unanswered press, and the iterations since the last count. Presses before the
hardware thread first looks are not covered: its initialisation sleeps for two
seconds, longer than a press is remembered.

`ReviewLog` is the log the cursor moves over. The display thread's four reads of
`buf` are four actions. Rows are stored as `uint8_t`, so the readings are
truncated. `number` indexes `review_buf` unchecked, as in the code: `RecordPastEnd`
and `ForgetPastEnd` are what a full log does. What their writes hit is up to the
linker; the model lets them change `number` to any byte and besides it `key_flag`,
`buf` or, when `number` changes between two of the three stores, the rest of some
row. The abstract `RecordLog` is a sequence that grows at its end or is emptied and
that a record into a full log loses; the refinement says that nothing else loses
it, and that forgetting makes it sound again. `Draw` overwrites the characters of the
new text only: `upto` is how far a line was ever written since the last 19 blanks,
so `ScreenHeals` says that the text drawn last is the right one, and no more. After
` note:10` a ` note:9` reads ` note:90`, and stays so.

### Dht11

Time passes in units; in each the line moves on, and the thread polls it once or
is held up by a thread of its own priority or an interrupt. The waits are loops
without a timeout, as in the code. `Slack` is how much a hold-up may take per
bit before it matters: `DecodesTheFrame` promises the exact frame below it,
`EndedReadKeptStep` that a read which ends has counted the sensor's bits,
`CaughtOnlyByHoldUp` that nothing but a silent sensor or a longer hold-up stops
the thread in a loop. `AlarmIsJustified` is about the stored bytes, which the
code overwrites before it verifies the checksum. `Dht11Assumption` states the
proportions of the protocol (the sample point lies between the two lengths of a
high level, and `Slack` below all of them) and that a reading is due before the
alarm's counter runs out, 5 s against 20 s in the code. `delay_us(50)` waits 25 us
(`aht10.c:32` halves it), where a zero of a DHT11 is high for up to 28 us: that a zero is
over when it is sampled (`HighZero =< Sample`) rests on the sensor and on the time the
polling and the calls take.

### LcdBus

`LcdBus` models pins, the panel's shift register, its modes, its window and its
pixels. The display thread initialises, fills, writes its labels once and repeats
its text, one bit per step; the sensor thread cuts in between any two bits and
sends its whole text. Texts may run over the right edge of the screen, as
`temperature:` and the 19 blanks do: the panel ignores pixels that are not on it.
After a cut the display thread goes on with the bytes it has left of its job, into
the window the alarm text left: they land on its last character. Hence
`WrittenStays` says what remains on a lit panel at any later time: the labels, and
the alarm text but for its last character and, if the cut fell inside a byte, its
first. The text that is repeated can lose characters to a cut that eats its window;
`TextHeals` says that it comes right once the alarm stays away. A cut inside a
byte can be taken for another command, and only such a cut brings the panel out
of the state `TFT_init` left it in (`DarkOnlyInsideAByte`): reset, which also
forgets the pixel format, sleep, display off, inversion off. The rest speaks of a
panel that is `Lit`, for nothing brings one back.

`Joined` is the bytes of several calls in a row, `Sent` the panel after them;
`DisplayThread` is what `aht10_handle` does on the bus. `LcdAssumption` says that
coordinates fit into the two bytes sent of them, `ApartAssumption` that characters of a
text do not overlap (`x += 16`) and that texts have lines of their own (20 apart).
`LcdFairSpec` adds to `LcdSpec` the fairness of the display thread. Texts are
constant here; `ReviewLog` has the changing ones.

### PwmDriver, PinIrq

`PwmDriver` has the truncating divisions of the code and a timer that counts
between the register writes, with buffered prescaler and compare values. Times
are scaled down so that prescalers 1, 2 and 44 occur. `AsAskedAtTimClock` is about
the conversion and the order of the register writes: on the clock the driver
assumes, a channel has the times asked for. `TimesAreNs` is the same on the clock the
timer really has, which is what `rt_drv_pwm.h` promises, and is violated
(run `pwm_units`).

`PinIrq` has lines shared by pins, interrupts shared by lines, edges at any
moment and handlers served one after the other. Clients are taken to touch a
line only while their attach holds, because the driver does not check it.

### TimerList, HardTimer

`TimerList` is the comparison of wrapping ticks and the ordered insertion. In
`HardTimer` a step is a call with the interrupts off or one step of
`rt_timer_check`; a timer's function makes up to `MaxOps` calls itself. It
implements `Countdown`, which has neither ticks nor a list: every timer has a
number of ticks left and is called when it has none; of those it takes the one
that was started first, for which both keep the relation `order` of running
timers, in `HardTimer` a history variable. A periodic timer of zero
ticks would keep `rt_timer_check` busy for ever, so `Times` leaves zero out.
`madeOneShot` is a history variable: the periodic timers that their own function made
one-shot and that were neither started nor stopped since. They are the exception of
`FlagMeansListed` (`timer.c:669` looks at the new flag and leaves the old mark).

### Scheduler

`Scheduler` changes a record `k` by operators named after the kernel's
functions; an action is what happens with the interrupts off, so the tick comes
between a thread's suspension and its `rt_schedule`. `TakesTurns` is what the
fairness of the other modules rests on. `ResumeTest` and `ResumeDo` are a thread
that calls `rt_thread_resume` with the interrupts on: the state is tested first,
and everything may happen before the rest. Resuming does not schedule:
`CodeSchedules` is a caller's `rt_schedule`, which may come or not. `moved` is a
history variable: the threads resumed or given another priority since somebody
last scheduled, the exception `HighestRuns` needs. Three calls are taken to come with
the scheduler unlocked, as the kernel demands of callers that block
(`rt_thread_sleep`, `rt_thread_suspend`, exit). A thread that ends between the two
halves of a `rt_thread_resume` of it has its timer detached; `RT_ASSERT` in
`rt_timer_stop` (`timer.c:529`) then stops the program, for `RT_DEBUG` is on. The model
goes on, as a build without assertions does, so it has more behaviours.
`Order` is the order in which the application starts the threads of a priority.

## Runs

Every run but `pwm_units` passes, with deadlock checking on. TLC's bounds are scaled-down
constants of the code, chosen so that every limit, clamp and wrap-around is
reached; no bound is on the length of behaviours.

| Run | Instance | Shows |
|---|---|---|
| `servo` | 5 readings (ends, ignored one, centres), hold 3, words of 32 | `InRange`, `MovesSmoothly`, `ReturnsHome`, `SweepsToLimit` |
| `drive` | bytes of 2 bits, 4 buttons, two positions of the hands, a pad that may be gone, delays of 1 unit, a slew of 1, limits of 5 to 8 | `PadReady`, `PublishesThePoll`, `BrakeIsGentle`, `ImplementsSlewLimiter`, `SettlesOnStick`: filters and pulses settle on a stick that is held, `HandsOffStops`, `LostPadMeansReverse` |
| `alarm` | the delays of the code, cool-down 2 | `PressIsHeard`, `FallsSilent`, `CountsAreSpaced`, `CooldownEnds` |
| `review` | 2 rows, one-bit columns, digits of base 2, counters up to 3 that can leave the rows | `CursorFollows`, `ImplementsRecordLog`, `ScreenHeals` |
| `dht11` | bytes of 2 bits, levels of 2 to 4 units, hold-ups up to 4 per read | `DecodesTheFrame`, `EndedReadKeptStep`, `CaughtOnlyByHoldUp`, `AlarmIsJustified`, `KeepsLooping` |
| `lcd` | 5x6 pixels, characters of 2x2 on the screen, over its edge and beyond it, real bytes of 8 bits, cuts at least a repetition of the text apart | `InitTakesEffect`, `WrittenStays`, `DarkOnlyInsideAByte`, `TextHeals` |
| `pwm` | 2 channels, counter of 4 bits, prescalers 1, 2 and 44, periods and pulses at both ends | `AsAskedAtTimClock`, `NeverStuck` |
| `pwm_units` | the same | `TimesAreNs` is violated: periods and pulses last twice what the unit of `rt_drv_pwm.h:27` says |
| `servo_pulses` | period of 61 ticks, sleep of 30, pulses of 2 to 7 | `PulsesWhole`, `KeepsPulsing` |
| `pin_irq` | two pins of one line, one that shares their interrupt, one apart | `EnabledIsHeard`, `EdgeIsHandled` |
| `scheduler` | two threads of one priority, changeable, and idle; slice 2, sleeps 1 and 2, one level of lock | `ReadyAgrees`, `HighestRuns`, `TimerMeansSuspended`, `TakesTurns` |
| `hard_timers` | 3 timers, tick modulo 7, all times below the half, one call per function | `FlagMeansListed`, `ImplementsCountdown` |

Why the bounds are enough: all safety and action properties but `WrittenStays`, refinements
included, are also proved for all constants (see Proofs), so that the bounds
matter for it and for the 13 liveness properties. In `lcd` there is a character of
every kind: on the screen, over the edge, beyond it, and two in one line of which
the second, when a cut eats its column, lands on the first. In `drive` two bits per byte give every combination of a
stick's end, centre and all ones, and two buttons in different bytes distinguish
the lowest from the others. In `review` two rows allow a record before and
after the cursor; `number` and `buf` reach two places behind them, and numbers have
one digit or two. In `pwm` the period of 45 ns
is the first that needs a prescaler, and the shortest is below the minimum. In
`hard_timers` a third timer can be inserted between two others, and with a tick
modulo 7 running timers straddle the wrap.

Type invariants are proved rather than listed in a run: those of `Motor`,
`Servo`, `Ps2` within `Drive`, `Alarm`, `ReviewLog`, `Dht11`, `LcdBus`, `PinIrq`,
`HardTimer` and `Scheduler` are theorems, and the types of `PwmDriver` and
`ServoPulses` are part of their inductive invariants.

## Fairness

Threads of the firmware block only in `rt_thread_mdelay`, and everything more
urgent than they are sleeps as well, so weak fairness of each thread (and of the
tick) is what the kernel provides; `TakesTurns` is the kernel's side of it, since
threads of priority 7 share it. The operator, the interrupt and the other
sources are never fair. Two modules assume more:

- `Scheduler`: strong fairness of the running thread's pending kernel call and
  of `rt_exit_critical`: interrupts leave a thread the time to finish a kernel
  function, and no one keeps the scheduler locked for ever.
- `PinIrq`: strong fairness of taking an interrupt: edges are slower than
  handlers, so no interrupt line is always served before another.

A DHT11 that never answers would hold the processor at priority 7 for good and
starve the motor, servo, gamepad and display threads (`CaughtOnlyByHoldUp` is about
that loop): the liveness properties of the other modules are about a car whose sensor
answers or whose sensor thread waits in `rt_thread_mdelay`.

`Dht11` is fair as a whole: either the line moves on or the thread polls.

## Proofs

Every proof holds for all constants that satisfy the assumptions named in the
module, which TLC evaluates on the instances. Each rests on an inductive
invariant (`IInv`, `DhtInv`, `LcdInv`, `PulseInv`), which TLC checked on the instance of
the run before it was proved; the modules define it next to the reason why the
property alone is not inductive.

The prover does not instantiate the library's induction theorems, so where
something holds for all lengths of a sequence or all bits of a byte the proof
takes the least number for which it would fail (`LeastNumber`, from the
well-foundedness of the naturals), and unfolds a recursive function (`Sent`,
`Joined`) from the fact that a function with its equations exists. Exponentiation
is unknown to the prover: `PowersOfTwo` and `BytePowers` state the two equations
of powers of two that are used, and TLC evaluates them.

`MotorProofs` (from `MotorAssumption`: readings, gains and limits are naturals), about
the motor thread with any publication between any two of its steps. What `Drive`
publishes is a case of that; the step from one to the other, that a byte's bits add
up to a reading, is induction over a set and left to the run.

- `MotorTypeCorrect`: `Spec => []TypeOK`; inductive by itself.
- `MotorBrakeIsGentle` and `MotorImplementsSlewLimiter` rest on `IInv`. The
  drive equals the computed speed between iterations; a wheel that is still to
  be programmed lags its new speed by at most one slew; while its pins are being
  rewritten either they already select the new direction, or the old and the new
  pulse together fit in one slew; without the device the pulses are zero. Neither
  property is inductive without this: whether a pin write is harmless depends on
  how far the pulse is from the speed computed several steps before.
  `FollowBound`, `ClampContracts` and `MixBound` carry the arithmetic: the cap
  and the clamps never enlarge a change, so a mixed speed moves by at most twice
  the rate limit.

`ServoProofs` (from `ServoAssumption`: boot and home positions lie in the range,
which keeps one step away from 0 and from the word size)

- `ServoTypeCorrect`, `ServoInRange`, `ServoMovesSmoothly`. The invariant `IInv`
  adds to range and type where the target of each servo is: at its channel, at
  home, or one step away from either between the arithmetic and the programming
  of the channel. `MovedBound` shows that the unsigned sum never wraps.

`DriveProofs` (from `Ps2Assumption`: bytes have at least one bit; and
`DriveAssumption`: delays are positive)

- `DriveImplementsPs2`: a step of the composition is a step of `Ps2` or leaves it
  alone, so what holds of the gamepad thread holds with motor thread and clock
  beside it. `DriveTypeCorrect`, `DrivePadReady`, `DrivePublishesThePoll` follow.
- `PadReady` says nothing before the configuration ends; `Handshake` says for every
  step of it what a pad that was there from the start has taken in by then.
  `PublishesThePoll` needs that nothing is published before the first poll
  (`QuietSetup`) and what the wire carries. `KeyOfIsLowest` shows that the decoding
  finds the lowest button, in either byte and for bytes of any width; it rests on
  the least-number principle.
- What the run says of the motor half of `Drive` is liveness and stays with TLC.

`ButtonProofs`, first about `Alarm` (from `AlarmAssumption` and `HoldAssumption`: the key thread holds
`beep_value2` for longer than one poll of the hardware thread, 25 against 5 units
in the code; without it `PressIsHeard` is false)

- `AlarmTypeCorrect`, `AlarmPressIsHeard`, `AlarmCountsAreSpaced`. The core is
  `HeldSinceLook`: while the siren is off and the next look is still to come, the
  key thread has held the flag for no longer than has passed since the last look,
  so it cannot drop a press that nobody has seen. `Waiting` bounds how long a press
  has waited in each phase, `Cooling` relates `gap` to the counter `n`.

`ButtonProofs`, then about `PinIrq` (from `PinAssumption`: pins have a line from 0 to 15)

- `PinIrqTypeCorrect`, `PinIrqEnabledIsHeard`. What `EnabledIsHeard` leaves out is why
  disabling one line keeps the interrupt others share: `Masked`, an enabled pin's
  line is in `pin_irq_enable_mask`, and `SameInterrupt`, the driver looks at exactly
  the lines of that interrupt.

`SensorProofs`, first about `ReviewLog` (from `ReviewAssumption`: sizes are positive, readings natural)

- `ReviewTypeCorrect`, `ReviewCursorFollows`, `ReviewImplementsRecordLog`. The
  refinement maps the first `number` rows to the log; recording
  is an append, forgetting empties the log, a row past the end loses it, whatever the
  write hits, and everything else is a stutter.

`SensorProofs`, then about `Dht11` (from `Dht11Assumption` and `PowersOfTwo`; for
bytes of any width and levels of any length in the assumed proportions)

- `DhtTypeCorrect`, `DhtDecodesTheFrame`, `DhtEndedReadKeptStep`,
  `DhtCaughtOnlyByHoldUp`, `DhtAlarmIsJustified`. The properties speak of the end
  of a read or of a stopped line; `DhtInv` says where thread and line are with
  respect to each other at every moment. `Behind`: the thread is never ahead of
  the frame, so a read that ends has waited for every bit. `InTime`: while
  no hold-up exceeds `Slack`, every wait finds the line at one of two levels, and
  at the later one only for as long as the hold-up lasts; hence the bit that is
  sampled is the one that was sent, and `Exact`: the bytes so far are the beginning
  of the frame. `OnesAreOnes` covers the hold-ups that make the sample late: a one
  is stored only for a one, unless the thread has missed a bit (`Slipped`), and then
  it never catches up, so the read does not end.
- `Prefix`, `NewByte` and `BitAt` relate the shifted-in value of the code to the bits
  of the byte that was sent.

`SensorProofs`, last about `LcdBus` (from `LcdAssumption` and
`BytePowers`; for any screen, font, gap and texts, also wider than the screen)

- `LcdTypeCorrect`, `LcdInitTakesEffect`, `LcdDarkOnlyInsideAByte`. `LcdInv` adds
  `Shifted`: the panel's register holds the bits of the current byte that were
  sent since CS fell, and none after a cut, which raises CS; so every command
  the panel receives between cuts is one the display thread sent as a whole. No
  byte the two threads send darkens the panel (`JobsAre`, `AlarmIs`, over `Mild`
  bytes), so that only a cut into a byte can. `Initialised` follows the wake-up
  and switch-on commands through `TFT_init`.
- `WrittenStays` is not proved: it needs the pixels behind every window a torn
  byte can leave, and is model-checked.

`PwmProofs` (from `PwmAssumption`: clock, limits and word are positive, the
minimum pulse is at least 2 and below the minimum period, which is below the
maximum; the code has 2, 3 and 65535)

- `PwmNeverStuck`, `PwmAsAskedAtTimClock`, by `Settled` (between two calls the timer uses
  what was written last) and `Programmed` (a compare register holds the value of its
  channel's last request, whatever was done to the other channel). `Quotient`,
  `QuotientTwice`, `ReloadLasts` and `CompareLasts` carry the arithmetic of two
  divisions that both round down.
- `PulsesAreWhole` of `ServoPulses` (from `LoopAssumption` as well: one period, both
  channels, pulses that are over before the sleep is). `PulseInv`: a pulse has been
  high for at least as long as the counter says, and for longer by at most one
  pulse for each restart of this iteration (`Widths`); while the thread sleeps the
  pulses that ran together come to an end, so that the next iteration starts
  with at most one; and a compare value is never above the reload value
  (`Reaches`), or the line would not fall at all.

`TimerProofs` (from `HardTimerAssumption`: times are at least one tick and below
half the tick's range; and `TickAssumption`), for any number of timers and any range of
the tick

- `TimerTypeCorrect`, `TimerFlagMeansListed`, `TimerImplementsCountdown`. The
  refinement maps a timer to the distance of its timeout from the tick, modulo
  the range. `Ahead`: a running timer has less than half the range left, so the
  comparison the code makes of wrapped ticks is the comparison of what is left
  (`LaterMeansMoreLeft`, `DueMeansNoneLeft`). `Sorted`: the list is in the order of
  time left, and of start among equals, so that its head is what `Countdown` calls
  next. `Local`: the timer whose function runs, as long as it is on the local list, is
  still an object, is on no other list, and is active only if it is periodic.
  `FlagMeansListed`, with its exception `madeOneShot`, is one of the conjuncts: without
  `Local` it is not preserved when a function returns.
- `WithoutIs`, `InsertIs` and `SortedPutIn` are about the lists: taking a timer out
  and putting it in front of the first that is later.

`SchedulerProofs` (from `SchedulerAssumption`: all threads have a priority and are
listed once when the system starts; idle has the least urgent one, and nobody is
given that; slices and sleeps are positive)

- `SchedulerTypeCorrect`, `SchedulerReadyAgrees`, `SchedulerHighestRuns`,
  `SchedulerTimerMeansSuspended`, for any number of threads and any set
  of priorities.
- First come lemmas about the lists alone (`AppendIs`, `WithoutIs`, `ListsAppend`,
  `ListsRemove`, `ListsUnlink`, `ListsPrio`), stated for lists that hold a set `R` of
  threads, since between two kernel functions `R` is not yet what the states say.
  From them one lemma for each kernel function says what it does to a record on
  which `Agrees` holds (`WakeIs`, `LeaveIs`, `RequeueIs`, `StartupIs`, `SwitchIs`,
  `ScheduleIs`). The last one also shows that nobody is outranked after
  `rt_schedule`, which is all `HighestRuns` needs of it.
- `IInv` adds to the three properties that the current thread is in no list, that
  a thread to be buried is closed (`DefunctClosed`, without which burying could
  leave a thread listed), that a pending `rt_thread_resume` has an argument, and that
  timers are due only inside the interrupt (`NoneDue`). `WakeIs` makes no assumption
  on the state of the thread that is woken, which is why lists, bits and states
  survive the late half of `rt_thread_resume`, where the program gets that far.

What came out of the proofs about the models. `Hear` of `Ps2` and `Data` of
`LcdBus` had a CASE with overlapping guards, where TLA+ leaves the choice open and
TLC takes the first; both now say which arm is meant. `PressIsHeard` needs
`HoldAssumption`. `NeverStuck` needs a minimum pulse of at least 2, because the
compare register gets the pulse less one. `PulsesWhole` was too strong: TLC's first
instance had no pulse long enough to show that the second channel, enabled while
the counter is inside its pulse, starts with a short one; `joined` is the exception, and
the instance now contains it. `AlarmIsJustified` needs a reading to be due before the
alarm's counter runs out (`ReadEvery < AlarmEvery`), which the code's constants satisfy.

Model-checked only are `WrittenStays` and liveness under fairness, which the prover
does not do:
`SettlesOnStick`, `ReturnsHome`, `SweepsToLimit`, `HandsOffStops`, `LostPadMeansReverse`,
`FallsSilent`, `CooldownEnds`, `ScreenHeals`, `KeepsLooping`, `TextHeals`, `KeepsPulsing`,
`EdgeIsHandled`, `TakesTurns`.

## Observations

What the models show of the code as it is; the third is checked as a disagreement
with a comment (`pwm_units`), the others are not checked as errors.

- A pad that is unplugged, or plugged in after boot and therefore digital, reads
  as all ones, which `motor_control` takes for full reverse
  (`LostPadMeansReverse`). `ps2.c` validates no answer.
- Until the second poll, some 300 ms after boot, the published readings are zero,
  and zero is full deflection: the motor thread follows it, at the slew rate.
- `drv_pwm.c:249` takes the timers to run at twice PCLK2; `drv_clk.c:55` sets the
  divider to 1, so every time comes out doubled, against the unit of
  `rt_drv_pwm.h:27` (finding `TimesAreNs`). The constants of the application are halved
  accordingly.
- `drv_pwm_get` multiplies in 32 bits; beyond 12.6 ms the product wraps. Every
  `_pwm_write` sets the period it read back, rounded down twice.
- A servo pulse in progress is started over by the next set, so that up to five
  pulses can run together when the thread is preempted (`PulsesWhole`). The first
  pulse of the second servo can be short, because `rt_pwm_enable` does not restart
  the period.
- A cut inside a byte of the display bus can turn the first command of the alarm
  text into software reset, sleep, inversion off or display off, which no later code
  undoes. Any cut lets the rest of the interrupted job overwrite the last character
  of the alarm text.
- `display_string` does not erase what an older, longer text leaves behind the new
  one (`lcd.c:305`).
- `number` grows past the 20 rows of `review_buf`, and `ADC_Value` has one element
  while element 1 is used. `ReviewLog` follows the writes past the rows as far as the
  log's own variables.
- `rt_hw_us_delay` of 1000 us or more never ends (`drv_common.c:105`); the firmware
  asks for less.
- A periodic timer that its own function makes one-shot stays marked as active
  but is on no list (`timer.c:669`); `RT_TIMER_CTRL_GET_STATE` falls through into
  the next case, and `GET_REMAIN_TIME` answers the absolute tick (`timer.c:597`).
- `rt_thread_resume` tests the state before it disables the interrupts
  (`thread.c:894`): a thread that wakes and ends in between is made ready again.
  Lists, bits and states survive it (`ReadyAgrees`), but a thread that ended has its
  timer detached, and the assertion of `rt_timer_stop` (`timer.c:529`) stops the
  program.

## Not modelled

- ADC conversion, text formatting beyond the length of the review's texts, fonts,
  and the drawing routines of `lcd.c` that nothing calls: no state that another part
  reads.
- `led.c` (not exported), `main.c` (returns at once).
- Register-level start-up and clock code: straight-line, without state.
- Soft timers, semaphores, mutexes, heap, console and shell: vendored code the
  firmware's own threads do not use after start-up. `rt_thread_detach` and
  `rt_thread_delete` are called by nothing.
- File systems, network, HAL (except the GPIO functions in `PinIrq`) and CubeMX
  output: vendored or generated.

## Plan

The plan is carried out: the application is modelled but for what is listed
above, every safety property of the runs but one is proved, and the liveness
properties are checked on the instances. What could follow are the parts listed as
not modelled, the soft timers and the IPC objects of the kernel first, once the
firmware uses them.
