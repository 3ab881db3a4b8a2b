# qlstatus in TLA+

qlstatus is a status bar: once per refresh period it starts one thread per
enabled module, waits for all of them, puts their texts into one line and
writes the line on standard output. The modules in this directory model that
program, check it with TLC on small instances, and prove the main results with
TLAPS for every value of the constants. All paths below are those of the
repository.

To repeat a check: `tlc -config Volume.cfg MCVolume.tla`; to repeat a proof:
`tlapm VolumeProofs.tla`. `PROJECT.json` lists the runs, what each checks, a
mutation of the model that each property catches, and the source lines of every
definition.

## Inventory

| part | state | operations | what makes it correct |
|---|---|---|---|
| main loop (`src/main.c`) | loop index, `ref`, `tick`, `module->thread`, `main.buffer` | create and join threads, compose, print, sleep; signals; `exit` from any thread | a line only shows complete texts of its round; no thread outlives its round; a failed round is not printed; lines keep coming |
| refresh rate (`src/main.c`) | `rate`, `tick` | `resolve_rate`, `compute_tick` | exact sums, `tv_nsec` in range |
| volume (`src/pulse.c`) | `connected`, context, operation, lock and condition of the PulseAudio main loop | `init_volume`, `pulse_connect`, `run_volume`, two callbacks | the answer shown is that of the round; nothing is written once main reads; waits end |
| battery (`src/battery.c`, `src/notify.c`) | `status`, `last_status`, `critical`, tokens, the notification | `run_battery` | notifications follow the state, and are true; `critical` agrees with the text |
| configuration (`src/config.c`, `src/main.c`) | the value of each option | `load_config_file` on up to three files | the options are those that the manual says the files give |
| line format (`src/format.c`) | token, module and line buffers | `set_token_buffer`, `set_module_buffer`, `set_output_buffer` and the appends | one line, inside its buffer, that shows a beginning of the full text |
| cpu, memory, filesystem, temperature, brightness, frequency (`src/cpu.c` etc.) | previous cpu sample, tokens, `critical` | one routine each | figures and units that are those of the last measure; the usage is that of the last period |
| wireless (`src/wireless.c`) | flags, BSSID, ESSID, signal | a netlink dump of access points, then one of stations | name and signal of one network; nothing of an earlier round |
| time, helpers | none | `strftime`; files, directories, regular expressions | - |

**Interactions.** `main()` loads the configuration, enables the modules that the
format string names, and calls their `init` one after the other; then the loop
runs. The routines share nothing with each other: each has its own `t_module`
and data. What they share with main is `module->buffer`, without a lock; the
order is that of `pthread_join` alone. The volume module has two more threads:
the connection thread of `init_volume`, and the PulseAudio thread, which runs
the callbacks with the lock of its main loop held. A routine that cannot read
its source calls `exit()` on its own thread, as the signal handler does on any.

**Hard behaviours.** Torn or old texts; a thread that never returns; `exit()`
while the others run; a wall clock that is set during the sleep; a wakeup that
comes between a test and a wait; a daemon that disappears; an interface that
roams between two messages; notifications that depend on the history of
statuses; counters that go back; three configuration files on top of each
other; buffers of three sizes filled from one another, and never cleared. `PROJECT.json` lists
them under "hazards", each with its line and the properties aimed at it.

## Modules

| module | models | kind |
|---|---|---|
| `StatusBar` | what the program promises: a line is made of one sample per enabled module, all newer than the previous line | abstract specification |
| `Routine` | what the main loop takes for granted of a module: its text changes only between the creation and the return of its thread, and is new when that returns | abstract specification |
| `StatusLoop` | the main loop, the threads, signals, `exit`, the wall clock | implements `StatusBar` |
| `StatusLoopProofs` | | theorems |
| `Volume` | `src/pulse.c` with the part of PulseAudio it uses | implements `Routine` |
| `VolumeProofs` | | theorems |
| `Battery` | `src/battery.c`, `src/notify.c` and the battery | |
| `BatteryProofs` | | theorems |
| `ConfigLine` | the string functions of `src/config.c`, and the manual's definition of a line | operators |
| `ConfigLoad` | the cascade of files and `load_config_file` | extends `ConfigLine` |
| `ConfigLoadProofs` | | theorems |
| `LineFormat` | `src/format.c` | |
| `LineFormatProofs` | | theorems |
| `Tick` | `resolve_rate` and `compute_tick` | operators; the theorems are in `StatusLoopProofs` |
| `TokenBuffer` | the cells of a token buffer, what `snprintf` and the helpers of `src/format.c` do to them, and the arithmetic of C | operators |
| `Figures` | what `src/memory.c`, `src/filesystem.c`, `src/cpu.c`, `src/freq.c`, `src/temperature.c` and `src/brightness.c` measure and write | extends `TokenBuffer` |
| `FiguresProofs` | | theorems |
| `Induction` | induction and recursion over the natural numbers, as facts about sets and functions | lemmas |
| `Wireless` | `src/wireless.c`, the interface and the kernel's answers | extends `TokenBuffer` |
| `WirelessProofs` | | theorems |
| `MC...` | the small instances for TLC | |

A definition whose comment says "a mutation" is a plausible bug in the
definition that follows it; the model does not use it. Substituted for that
definition, it makes the property that `PROJECT.json` names for it fail.

### StatusLoop

`pc` and `i` are where main is: `ref` (before `clock_gettime`), `create`,
`join`, `output`, `print`, `sleep`. Each turn of the creation and join loops is
a step. A routine is reduced to how it treats its buffer: it starts to write
(`BeginWrite`: the buffer is "torn"), finishes (`EndWrite`: "fresh", or "empty"
when its format is), returns without writing (`KeepBuffer`, for the modules in
`MayKeep`: the battery without a status does that), or calls `exit`. At the
start of a round what was fresh becomes "stale"; that is a history variable, no
code does it. `exitCall[t]` is the status with which thread `t` is inside
`exit()`; the process ends in a later step (`Terminate`), and the other threads
run on until then. `elapsed` is `CLOCK_REALTIME` minus `ref`; it grows as time
passes (`Advance`), and falls or jumps when the wall clock is set (`SetClock`).
The sleep ends when `elapsed` reaches the rate, since it is absolute on that
clock, or by a signal (`Interrupted`).

`LineOf` is `set_output_buffer` seen from here: an empty module buffer ends the
line (see the disagreements below).

### Volume

`pc["C"]` and `pc["W"]` are the connection thread and `run_volume`; `lock` is
the lock of the PulseAudio main loop. `pa_threaded_mainloop_wait` is two steps,
`Wait` (release and sleep) and `Return` (take the lock again), with the wakeup
between them: by `pa_threaded_mainloop_signal`, which wakes every waiter, or
spurious. A callback is one step that needs the lock to be free. The connection
thread begins at "start": until it has a main loop and a connecting context
(`Connect`, any of whose calls may fail) there is no PulseAudio thread. What
`init_volume` calls may fail too (`InitFails`). The context connects at most once
and may fail at any time; a failure cancels the running operation without a
callback, as the library does. `since` is a history
variable: the states that the sink has had since the current request.

`Implements` is the composition with the main loop: `StatusLoop` models every
routine by what it does to its buffer, and `Routine` says what that is. The
routine's own thread does it in all modules but this one, where the PulseAudio
thread does; `Volume` shows that the main loop cannot tell. `Round` maps the
operation that is done to the text that is written, and `pc["W"]` to the thread
that exists. Where the connection may be lost (`DaemonMayFail`), the routine may
also return with the text of an earlier round (`MayKeep`).

### Battery

A round (`RunBattery`) is one step: the file is read, `set_buffer` classifies,
`power_notify` may replace the notification, `last_status` follows. Between
rounds the adapter is plugged or unplugged and the charge moves by one unit.
`Reported` is what the kernel may say; `Parsed` adds the fields that are
missing, as the code represents them (-1, NULL). `PERCENT` is the C macro: a
product and then a truncating quotient. `refused` is a history variable: the
last call of `notify()` failed, which the code ignores.

### ConfigLine and ConfigLoad

Lines, keywords and settings are sequences of characters, because the
properties are about blanks, '#' and '=' at every place of a line; `Meaning` is
the manual's definition of a line, stated separately, that the code's functions
are compared with. The options' regular expressions are the constant
`Matches`. `Beyond` is what may lie in memory behind a line: nothing, or
something.

### LineFormat

A buffer is the sequence of what comes before its first zero byte. The loops of
`set_module_buffer` and `set_output_buffer` go over the positions of a format
string: `Turn` is one turn, at one position; `Turns` is the recursive function
that gives the buffer after each position; `Formatted` is what is in it at the
end. A round sets all tokens, all module buffers and the line in three steps;
the interleaving of routines is StatusLoop's subject. A format string has no
newline, being read from one line of a file; a text may have one
(`AnyCharacter`), since the name of a wireless network is copied as it comes.

### TokenBuffer and Figures

A token buffer is the array of its cells, since the properties are about what
earlier rounds left behind the text. `snprintf` and its conversions are modelled
digit by digit. The buffers of the runs have 32 cells, as in the code; what is
assumed of them is that the longest number of 19 digits and its letters have
room (more than 24 cells), and of the sizes of filesystems that they are below
1023 TiB, since a `float` rounds what is a little more up to 1 PiB, for which
`units[]` has no letter. `module` is the module and its options, chosen once; each
routine is one action, with all it does after its source was read. The numbers
come from sets of amounts instead of `/proc/meminfo`, `statvfs` and the files of
`/sys`; of cpu policies and of sensors there are two. `measured` is a history
variable: what the module was given in its last round.

`Float` is the conversion to `float`: 24 binary digits, to nearest, halves to
even. Divisions by powers of 1024 are exact after it. Division by 10^6 is not:
`GigahertzTenths` says where the quotient matters, which is where the frequency
lies halfway between two tenths, as 1.45 GHz does. The float nearest to such a
number is above, below or, as for 1.25, on it, and that decides
(`TwentiethsRoundUp`); elsewhere the quotient is on the same side as the number
itself, as long as the KHz are exact as a float (up to 16.7 GHz).

The cpu module is the one with a state. `kernel` is what `/proc/stat` counts,
busy and idle (`TimePasses`; the idle time includes that of waiting for input
and output, which the kernel may correct downwards), `prev` the sample of the
round before, `elapsed` a history variable: the ticks since that round. A
division by 0 is a signal that ends the program: `killed`, for the cpu module
when no tick has passed, for the filesystem module on a path without blocks, for
the brightness module with a `max_brightness` of 0.

### Wireless

A round is two netlink dumps on the routine's own thread: the access points that
the kernel knows (`ScanReply`, one message and callback each, in any order), the
one with the status of a connection giving the name, and the stations of the
interface (`StationReply`), giving the signal. `link` is what the interface is
connected to, and changes at any time (`LinkChanges`): between two messages the
status may move to an access point that was listed, or is still to come.
`Elements` are the information elements that `find_ssid` walks through. An error,
or a dump that the kernel marks as interrupted, ends the program (`Fail`).
`scanned` and `linked` are history variables: the links there were during the
first dump, and during the round.

The request for the station gives an address, that of the access point found;
the kernel does not look at it in a dump. So the percentage is of the station at
the time of the second dump, and only a link that stayed for the whole round
gives a name and a percentage of one network: `StableLinkIsShown` claims no
more. The scale of signals is computed with `float` and truncated:
-56 dBm is 63 %, where the exact value is 64 %.

### Tick

`StatusLoop` counts time in ticks. `Tick` shows that the pairs of seconds and
nanoseconds of the code behave like such a count, and what the width of
`uint64_t` does to rates that are far too large.

## Runs

| run | shows | instance and why it is enough |
|---|---|---|
| `StatusLoop` | `IInv`, `FreshLine`, `OneThreadPerModule`, `FailedRoundIsNotPrinted`, the refinement `Implements`, and `KeepsPrinting` under fairness | 3 modules: one enabled twice in the format, one not enabled, one that may keep its buffer; a format of one module as well. Rate 2, clock steps of 1: early, due, late and set back are all different. 45 thousand states |
| `Volume` | `IInv`, `ShowsThisRound`, `NoRequestBeforeReady`, `WritesOnlyWhileAwaited`, the refinement `Implements` of `Routine`, and, under fairness, `InitEnds` and `RoundEnds` | two visible sink states and the absent sink: an old answer differs from a new one. Rounds are unbounded |
| `Battery` | `IInv`, `StateIsAnnounced`, `CriticalMatchesText`, `LowIsTrue` | capacity 8, threshold 13 %: 12.5 % per unit, so that rounding decides about one unit. The file may lack any of its fields in any round, and every notification may be refused |
| `ConfigLoad` | `IInv`, `RunsAsWritten`, `FailureIsDeserved` | every user file of one line of up to five characters out of six kinds, and all pairs of six lines; each other file absent, unreadable, empty or with contents |
| `LineFormat` | `IInv`, `BuffersFit`, `PrintsOneLine`, `PrintsABeginning`, `PrintsWhole` | buffers of 2, 4 and 6 characters; every format string of up to five characters over two modules, valid or not; texts that are empty, fit, and are too long |
| `Figures` | `IInv`, `LayoutInv`, `MemoryIsReadable`, `SpaceIsReadable`, `FrequencyIsReadable`, `TemperatureIsNear`, `PercentIsOfTheMeasure`, `CriticalMatchesPercent`, `UsageIsOfThePeriod` | amounts on both sides of each boundary that the code tests or rounding makes (9.96 of a unit prints as 10.0, 1 KiB less than 100 GiB is 100 GiB as a float), in every combination and in every order of rounds; below 99.95 GiB in smart units. Temperatures below and above 0, half a degree and the threshold. Counters of up to 9 ticks, of which each step adds up to two and may take one idle tick away: equal sums, negative differences and usages beyond 100 % all happen |
| `Wireless` | `IInv`, `NameIsOfTheScan`, `StableLinkIsShown` | four networks: an SSID that fills the buffer, one that is longer, one that is shorter, none; signals off both ends of the scale, at the level that `float` rounds down, and not reported. Rounds are unbounded. 1.2 million states |
| `VolumeWakeup`, `VolumeDaemonLost`, `ConfigLoadPriority`, `LineFormatEmpty`, `FiguresLarge` | one disagreement each | see below |

All the state spaces are finite; the only bounds in actions are `Cap`
(`StatusLoop`: readings of the clock far beyond the rate are not told apart),
`MaxStep` (how far one setting of the clock goes) and `MaxTicks` (`Figures`: the
counters of the kernel). Deadlock is checked everywhere; a program that has
ended stutters.

**Fairness.** `StatusLoop`: the scheduler runs main and every routine that can
run, time advances, and `exit` ends the process. No signal, failure,
interruption or setting of the clock has to happen. A routine of this model
always returns; the one that may not is `run_volume`, and that is what
`RoundEnds` is about. `Volume`: threads that can run do, and get the lock in
the end although others compete for it (strong fairness, as a fair mutex
gives); the one-second deadline comes; a daemon that is there answers. The
daemon need not be there: nothing forces the context to become ready, nor any
call to fail, and without it `InitEnds` holds because of the deadline alone.
`InitTimesOut` is possible only
while the connection thread sleeps: a second is long for a thread that can run.

## Disagreements found

Each is a run in which TLC finds the violation.

1. `TimeoutMeansUnconnected` (`src/pulse.c:77`): `pulse_connect` tests
   `connected` before it takes the lock and does not test again before it
   waits. When the context becomes ready between the two, the signal is lost
   and the program exits after a second, although it is connected.
2. `RoundAlwaysEnds` (`src/pulse.c:96`): when the daemon goes away during a
   request, nothing wakes `run_volume`; main waits for it for ever, and the
   whole line stops.
3. `ExplicitConfigWins` (`src/main.c:335`): after a file of `--config` has been
   loaded, the cascade goes on as if there had been none. `manual.1` calls that
   file the first choice of the user-configuration file, without which alone the
   system's is looked for; but `/etc/qlstatus.conf` is loaded over it when the
   home directory has no file (the trace of the run), and the file in the home
   directory when there is one.
4. `PrintsNoEscapedCharacters` (`src/format.c:239`): a module without text ends
   the line, because 0 characters copied is taken for a full buffer.
5. `SmartScalesAllValues` (`src/memory.c:34`, `src/memory.c:47`): `manual.1`
   promises that smart units scale used and total memory to the shortest
   three-digit unit. They change at 1024 and not at 1000, so that there are four
   digits before: `1023K`, and `1023MiB` for a machine of 1 GiB (the trace of the
   run). And the letter of used memory has a fixed place, which 99.95 GiB or more
   need for a digit: 100 GiB is shown as `10G` (`tlc -continue` shows that too).
   `MemoryIsReadable` takes the unit that the code chooses, and says that the
   amount is right in it.

In the models, without a run of their own:

- On a line without '=', `parse_opt` (`src/config.c:178`) looks for the setting
  behind the end of the line. What is there is not defined (`Beyond`); with
  leftover text it becomes a setting. `RunsAsWritten` leaves such files out.
- `set_unit_suffix` (`src/filesystem.c:15`) ends its text with no zero byte, so a
  size that follows a longer one, when another filesystem is mounted on the
  path, shows the rest of it. `SpaceIsReadable` says of that token only that it
  begins as it should.
- The proof of `MemoryIsReadable` found where smart units go wrong once more: from
  999.95 GiB on, the number and its letter reach into the sixth cell, no zero byte is
  left behind the place of the letter, and a later, shorter value shows what is
  there. No machine of the run is that large; the theorem assumes that none is.
- The name of a wireless network may contain a newline, and is copied as it is: then
  the program prints two lines. `PrintsOneLine` is proved for texts without one.
- A filesystem without blocks, a backlight without levels, or two samples of the
  cpu without a tick in between, end the program by a division by 0 (`killed`).
- When the interface roams during the first dump, two access points may both be
  listed as connected, or none; and between the dumps the percentage becomes
  that of another network than the name.
- A temperature below 0 is rounded up, never to nearest (`src/temperature.c:95`).

## Proofs

TLAPS proves every safety property that a passing run checks, for all values of
the constants that satisfy the named assumptions: `ConstantsAssumption`,
`SinksAssumption`, `BatteryAssumption`, `FilesAssumption`, `KeysAssumption`,
`BeyondAssumption`, `SizesAssumption`, `CharactersAssumption`,
`StringsAssumption`, `TokenBufferAssumption`, `FiguresAssumption`,
`WirelessAssumption` and `SsidAssumption`. They say of what type the constants
are, that sizes are not 0, and how large a number there is room for. A theorem that
needs more has it as a hypothesis, which is named below. In each module the
invariant `IInv` is inductive (`IInvHolds`), and from it follow:

- `StatusLoopProofs`: `TypeCorrect`, `FreshLineHolds`, `OneThreadHolds`,
  `FailedRoundHolds` and `Refinement` (`Spec => Implements`).
  `IInv` is inductive. `FreshLine` is not: that the line is fresh depends on
  what the buffers were when it was composed (`LineIsCurrent`), which depends on
  what each joined routine left (`DeliveredIsComplete`); a buffer is torn only
  in the hands of its own thread (`TornOnlyWhileWriting`), threads belong to the
  round (`OneThreadPerModule`) and only enabled modules have one
  (`OnlyEnabledRun`). `ExitingNeverReturns` is why main blocks in the join loop
  when a routine is in `exit()`, and so why a failed round is not printed. The
  refinement maps `Delivery` to the abstract samples: `EndWrite`, `KeepBuffer`
  are `Sample`, `Output` is `Publish`, `Terminate` is `Stop`, the rest stutters.
- `VolumeProofs`: `ShowsThisRoundHolds`, `NoRequestBeforeReadyHolds`,
  `WritesOnlyWhileAwaitedHolds` and `RoundRefinement` (`Spec => Implements`). The
  invariant says who holds the lock at which
  place (`LockIsHeld`), that a running operation has `run_volume` waiting and a
  reply on its way belongs to it (`AwaitedOperation`), and that an operation
  that is done has its answer shown (`AnswerIsShown`). For the refinement it
  also says that `run_volume` waits for a request of its own round
  (`RequestIsMade`), so that it cannot return with nothing done.
- `BatteryProofs`: `StateIsAnnouncedHolds`, `CriticalMatchesTextHolds` and
  `LowIsTrueHolds`, for every capacity, threshold and set of missing fields. The
  first needs `Announced`: between rounds, `last_status` is the status and what
  was sent for it is on screen, or was refused. The last needs that the
  percentage is rounded down (`PercentIsRoundedDown`), and types its bounds
  (`QuotientBounds`).
- `ConfigLoadProofs`: `RunsAsWrittenHolds` and `FailureIsDeservedHolds`,
  for any files, options and patterns. The first compares
  a program with a manual, so the proof begins with lines: a line that the
  code skips means nothing (`SkippedMeansNothing`), and from any other that has a
  `=` the code takes the key and the setting that `Meaning` gives
  (`AssignmentIsMeaning`); between them are lemmas on how trimming, comments and
  the search for a character commute (`TrimOfPart`, `CleanedIsUncommented`). The
  invariant has four parts. `CascadeInv`: types, and the system's file is opened
  only without one in the home directory. `FilesInOrder`: no file is loaded twice, and only
  that of `--config` is followed by another. `LastSettingCounts`: each option has
  the setting of the last line read so far that sets it, or its default.
  `RunsAsWritten` is not inductive: it is about files that were read to the end,
  `LastSettingCounts` about what was read of the one that is open.
  `FailureIsDeserved` is inductive with the rest.
- `LineFormatProofs`: `BuffersFitHolds`, `PrintsABeginningHolds`,
  `PrintsWholeHolds` and `PrintsOneLineHolds`, for any sizes of the buffers, any
  format strings and any texts; the last one for texts without a newline. `IsAppend`
  is what all the append functions have in common, one lemma each
  (`FullIsAppend`, `SingleChar`, `CopyIsAppend`). A turn of a loop appends
  (`TurnAppends`), so after every position the buffer shows the first characters of
  what the format string stands for, all of them as long as nothing was cut
  (`FormattedShows`, by induction over the positions). The invariant adds that what
  was composed is of the texts still in the buffers below (`IsComposed`), and is
  proved for any set of characters that has the marks (`Inv`): with all of
  them it is `IInv`, without the newline it gives `PrintsOneLine`.
- `WirelessProofs`: `NameIsOfTheScanHolds` and `StableLinkIsShownHolds`, for any
  networks, SSIDs, signals and size of the buffer, and `PercentRises` about the
  scale of signals. `ScanIsOfTheLink` says what the first dump has found at each
  of its messages, if the link has been the same: the name in a buffer that was
  cleared (`CopiedReads`), or nothing. `StationIsOfTheLink` is the same of the
  second dump.
- `FiguresProofs`: one theorem for each property of the run, for any amounts,
  thresholds, and sizes of the buffers. It goes from the bottom up: what a buffer
  holds (`Holds`: a text and the zero byte behind it, whatever comes after);
  the digits of a number and how many there are, of which the first is not a
  blank; how near a float is to its number (`FloatIsNear`), and the tenths of a GHz
  to the frequency (`GigahertzTenthsAre`); what padding adds and `Figure` takes away; what
  `clean_leading_zero`, `remove_leading_zero`, the suffixes and the letters do to
  a text that is held; the unit of a size and of an amount; and one lemma for the
  round of each module. Most properties then hold after a round whatever the
  buffers held before. Three need what earlier rounds left:
  `UsageIsOfThePeriodHolds` that the sample of the round before and the ticks since
  add up to the counters of the kernel (`SampleIsKept`); `SpaceIsReadableHolds`
  that behind the letter of a size, which is written without a zero byte, there
  is one from the start that no round overwrites (`SizeLetterIsLast`); and
  `MemoryIsReadableHolds` the same for smart units (`MemoryLetterIsLast`). The
  other theorems are `PercentIsOfTheMeasureHolds`, `CriticalMatchesPercentHolds`,
  `TemperatureIsNearHolds`, `FrequencyIsReadableHolds` and `LayoutInvHolds`.

  Hypotheses, each where the code's layout ends: `MemoryIsReadableHolds` assumes
  less than 998 GiB of memory (see the models above), `FrequencyIsReadableHolds`
  processors below 99 GHz (the fields of smart units have no place for more
  digits), `LayoutInvHolds` less than 95 GiB and below 9 GHz,
  above which a number in a fixed unit is wider than its padding.
- About `Tick`, in `StatusLoopProofs`: `RateIsNormal` and `RateIsExact` (a rate is a
  valid `timespec`, and exact as long as the product fits), and
  `TickIsOneRateLater`, which is why `StatusLoop` may count in ticks.

**Induction over data.** The library's induction rules take a predicate, which
these provers cannot instantiate. `Induction` states them about sets instead: a
set of naturals that has 0 and the successors of its members has them all
(`SetInduction`, `BoundedInduction`), from the fact that the order is
well-founded; and a function defined by recursion over `0..N` satisfies its
equation (`Recursion`). So what the format loops, the digits of a number and the
escapes of a format string compute is proved too.

Only model-checked: liveness (`KeepsPrinting`, `InitEnds`, `RoundEnds`), which
needs fairness and ENABLED, and the disagreements.

## Not modelled

- The routine of the time module, one call of `strftime`: in `StatusLoop` it
  writes its buffer or exits.
- The helpers that read files and directories and match patterns
  (`src/read_file.c`, `src/read_dir.c`, `src/regex.c`): the models begin with
  what they return, and their failures are `RoutineFails`. So is the choice of
  the first directory for a temperature path that ends in `*`, which is the
  directory's order (`src/temperature.c:46`).
- Ad hoc wireless networks (a cell whose status is IBSS_JOINED has many
  stations), links over several access points at once, and information elements
  that are cut short.
- Text that only is read by people: labels, padding of numbers, the log of the
  options, usage and error messages; the line "(interrupt) Exiting" of the
  signal handler. `write()` is taken to write the whole line.
- Memory management. `free_*` functions and `append_module` are never called;
  the latter is the only reader of `module->critical`. Options that are set
  twice lose memory, which no property here sees.
- The patterns of the options, and `long` arithmetic, but for the product of
  `resolve_rate` (`Tick`): a rate of seconds near 2^63 overflows in
  `compute_tick`.
- A battery capacity of 0, a filesystem of blocks of two sizes, and sizes from
  1023 TiB on. See the hazards.

A battery that is "Not charging" after the adapter is plugged is not announced
(`src/battery.c:106` asks for "Charging"); `StateIsAnnounced` is about the
statuses the code tells apart.

The battery's test for missing numbers (`src/battery.c:31`) is off by one and
never fires. The model has it as it is, and the run includes files without
their numbers: such a round shows a percentage all the same, 100 % when both
are missing. `LowIsTrue` is stated for the other rounds only.

## Plan

Done, in this order: `StatusBar` and `StatusLoop` with proofs (everything else
hangs on them), `Volume` with proofs, `Battery` with proofs, `ConfigLoad`,
`LineFormat`, `Tick`, `Figures`; then `Wireless` with proofs, the other modules
that measure, `Routine` with the refinement of `Volume`, and the proofs about
`Battery`'s percentage, `ConfigLoad`, the cpu's sample and the width of the rate;
then `Induction`, and with it the proofs about configuration lines, format strings
and figures, so that no safety property of a passing run is without a theorem;
then the arithmetic of `float` in `Figures`, and the failures of `Volume`'s start.

Next:

1. `Battery` and `Wireless` as implementations of `Routine` too, proved as that of
   `Volume` is; `StatusLoop` with a `Routine` per module in place of its own actions.
2. `Output`: buffered log and unbuffered lines on one descriptor, partial
   writes.
3. Proofs: the scale of wireless signals against the exact one, and the width
   of the percentage, which `LayoutInv` leaves out.
