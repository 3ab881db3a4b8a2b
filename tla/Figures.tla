-------------------------------- MODULE Figures --------------------------------
(***************************************************************************)
(* What the modules measure once per round, and how they write it into     *)
(* their token buffers (src/src/memory.c, filesystem.c, cpu.c, freq.c,     *)
(* temperature.c, brightness.c): printed in place, shortened in place, the *)
(* letter of a unit at a place of its own, nothing cleared in between.     *)
(*                                                                         *)
(* One action per routine, once its source was read; a source that cannot  *)
(* be read ends the program (StatusLoop).                                  *)
(***************************************************************************)
EXTENDS TokenBuffer

CONSTANTS
  Amounts,           \* amounts of memory, in KiB
  Sizes,             \* sizes of a filesystem and of what is used, in bytes
  Frequencies,       \* frequencies of a cpu, in KHz, below 16 GHz
  Temperatures,      \* what a sensor may say, in thousandths of a degree
  Brightnesses,      \* values and maxima of a backlight
  MaxTicks,          \* a bound of the kernel's counters
  Threshold          \* cthreshold, in percent, or in degrees

KILOBYTE == 1024
MEGABYTE == 1024          \* in KiB
GIGABYTE == 1024 * 1024
MEGAHERTZ == 1000         \* in KHz
GIGAHERTZ == 1000 * 1000
TWENTIETH == 50 * 1000    \* of a GHz
TEMP_ROUND_THRESHOLD == 500

\* From 1 PiB, to which float rounds what is just below it, units[] has no
\* letter.
ASSUME FiguresAssumption ==
  /\ TBUFFER_MAX_SIZE > 24
  /\ Amounts \cup Sizes \cup Frequencies \cup Brightnesses \subseteq Nat \ {0}
  /\ \A a \in Amounts \cup Sizes : (a \div GIGABYTE) \div GIGABYTE < KILOBYTE - 1
  /\ Temperatures \subseteq Int
  /\ MaxTicks \in Nat
  /\ Threshold \in Nat

VARIABLES
  module,    \* which of the modules, with its options: never changes
  measured,  \* history: the amounts of the last round
  token,     \* its token buffers
  critical,  \* module->critical
  kernel,    \* the ticks that /proc/stat gives, busy and idle
  prev,      \* cpu->prev_total and cpu->prev_idle
  usage,     \* what compute_cpu_usage returned
  elapsed,   \* history: the ticks since the last round of the cpu module
  killed     \* by the signal of a division by zero

cpu == <<kernel, prev, usage, elapsed>>
vars == <<module, measured, token, critical, cpu, killed>>

Tokens == {"percent", "value", "total", "free", "unit"}

\* detailed: the format names the value or the total.
Modules ==
  [name : {"memory"}, unit : {"KiB", "MiB", "GiB", "smart"}, detailed : BOOLEAN]
    \cup [name : {"filesystem"}, real_free : BOOLEAN]
    \cup [name : {"cpu_freq"}, unit : {"KHz", "MHz", "GHz", "smart"}]
    \cup [name : {"cpu_usage", "temperature", "brightness"}]

NoTicks == [busy |-> 0, idle |-> 0]

-----------------------------------------------------------------------------
(* memory.c                                                                *)

PercentageNearest(buf, a, b) ==  \* a mutation: rounded, not truncated
  snprintf(buf, Padded(Decimal(Tenths(10 * a, b)), 2) \o <<"%">>)

Percentage(buf, a, b) == snprintf(buf, Padded(Decimal(PERCENT(a, b)), 2) \o <<"%">>)

\* (float)v / GIGABYTE as "%.1f" rounds it.
Gibibytes(v) == Tenths(Float(v), GIGABYTE)

\* value_smart_format_logic: the letter of GiB goes to the fifth cell.
SmartValue(buf, v) ==
  IF v >= GIGABYTE
  THEN [clean_leading_zero(snprintf(buf, Padded(OneDecimal(Gibibytes(v)), 4)))
          EXCEPT ![5] = "G"]
  ELSE IF v >= MEGABYTE THEN snprintf(buf, Padded(Decimal(v \div MEGABYTE), 4) \o <<"M">>)
  ELSE snprintf(buf, Padded(Decimal(v), 4) \o <<"K">>)

\* total_smart_format_logic, and the unit's token.
SmartTotal(buf, total) ==
  IF total >= GIGABYTE
  THEN remove_leading_zero(snprintf(buf, OneDecimal(Gibibytes(total))))
  ELSE snprintf(buf, Decimal(IF total >= MEGABYTE THEN total \div MEGABYTE ELSE total))

\* The unit that both choose.
MemoryPrefix(v) == IF v >= GIGABYTE THEN "G" ELSE IF v >= MEGABYTE THEN "M" ELSE "K"

SmartUnit(total) == TokenOf(<<MemoryPrefix(total), "i", "B">>)

Whole(buf, n, width) == snprintf(buf, Padded(Decimal(n), width))
Gib(buf, v) == snprintf(buf, Padded(OneDecimal(Gibibytes(v)), 4))

\* The switch over mem->unit in run_memory.
MemoryTokens(v, total) ==
  CASE module.unit = "KiB" -> [token EXCEPT !["value"] = Whole(@, v, 8),
                                            !["total"] = Whole(@, total, 8)]
    [] module.unit = "MiB" -> [token EXCEPT !["value"] = Whole(@, v \div MEGABYTE, 5),
                                            !["total"] = Whole(@, total \div MEGABYTE, 5)]
    [] module.unit = "GiB" -> [token EXCEPT !["value"] = clean_leading_zero(Gib(@, v)),
                                            !["total"] = remove_leading_zero(Gib(@, total))]
    [] module.unit = "smart" -> [token EXCEPT !["value"] = SmartValue(@, v),
                                              !["total"] = SmartTotal(@, total),
                                              !["unit"] = SmartUnit(total)]

\* run_memory, after /proc/meminfo was read.
RunMemory ==
  /\ module.name = "memory"
  /\ \E total \in Amounts, v \in Amounts \cup {0} :
       /\ v <= total
       /\ measured' = [value |-> v, total |-> total, free |-> total - v]
       /\ token' = [(IF module.detailed THEN MemoryTokens(v, total) ELSE token)
                      EXCEPT !["percent"] = Percentage(@, v, total)]
       /\ critical' = (PERCENT(v, total) >= Threshold)
  /\ UNCHANGED <<module, cpu, killed>>

-----------------------------------------------------------------------------
(* filesystem.c                                                            *)

units == <<"B", "K", "M", "G", "T">>

\* The bytes of units[p], and of the unit after the last.
UnitSize[p \in 0..5] == IF p = 0 THEN 1 ELSE KILOBYTE * UnitSize[p - 1]

\* set_unit_suffix: behind the text, without a zero byte of its own.
set_unit_suffix(buf, power) ==
  LET n == Len(Text(buf))
  IN  [k \in Cells |-> IF k = n + 1 THEN units[power + 1]
                       ELSE IF power > 0 /\ n < TBUFFER_MAX_SIZE - 2 /\ k = n + 2 THEN "i"
                       ELSE IF power > 0 /\ n < TBUFFER_MAX_SIZE - 2 /\ k = n + 3 THEN "B"
                       ELSE buf[k]]

PowerLate(size) ==  \* a mutation: > instead of >=
  LET power[n \in 0..size] == IF n <= KILOBYTE THEN 0 ELSE 1 + power[n \div KILOBYTE]
  IN  power[size]

\* What follows has the float that fs_format_logic makes of a size.  The
\* divisions until the value is below KILOBYTE:
PowerOf(size) ==
  LET power[n \in 0..size] == IF n < KILOBYTE THEN 0 ELSE 1 + power[n \div KILOBYTE]
  IN  power[size]

\* fs_format_logic, for the space used and free: the letter of the unit is the
\* fifth character in both branches.
AlignedSize(buf, size) ==
  LET power == PowerOf(size)
      unit == UnitSize[power]
  IN  IF size < 10 * unit
      THEN [clean_leading_zero(snprintf(buf, Padded(OneDecimal(Tenths(size, unit)), 4)))
              EXCEPT ![5] = units[power + 1]]
      ELSE snprintf(buf, Padded(Decimal(size \div unit), 4) \o <<units[power + 1]>>)

\* fs_format_logic, for the size of the filesystem.
SuffixedSize(buf, size) ==
  LET power == PowerOf(size)
      unit == UnitSize[power]
  IN  set_unit_suffix(
        IF size < 10 * unit
        THEN remove_leading_zero(snprintf(buf, OneDecimal(Tenths(size, unit))))
        ELSE snprintf(buf, Decimal(size \div unit)),
        power)

\* The division by a total of 0 ends the program before a text is set.
Killed ==
  /\ killed' = TRUE
  /\ UNCHANGED <<module, measured, token, critical, cpu>>

\* run_filesystem: the free space includes that reserved for root if the option
\* real_free wants it.  A filesystem without blocks, like that of /proc, has a
\* total of 0.
RunFilesystem ==
  /\ module.name = "filesystem"
  /\ \E total \in Sizes, used, reserved \in Sizes \cup {0} :
       LET free == total - used - (IF module.real_free THEN 0 ELSE reserved)
       IN  /\ used + reserved <= total
           /\ measured' = [value |-> used, total |-> total, free |-> free]
           /\ token' = [token EXCEPT !["value"] = AlignedSize(@, Float(used)),
                                     !["total"] = SuffixedSize(@, Float(total)),
                                     !["free"] = AlignedSize(@, Float(free)),
                                     !["percent"] = Percentage(@, used, total)]
           /\ critical' = (PERCENT(used, total) >= Threshold)
  /\ UNCHANGED <<module, cpu, killed>>

RunEmptyFilesystem ==
  /\ module.name = "filesystem"
  /\ Killed

-----------------------------------------------------------------------------
(* freq.c, brightness.c and temperature.c                                  *)

Hertz(prefix) == TokenOf(<<prefix, "H", "z">>)

\* Whether the float nearest to n / 20, n odd, is printed as the tenths above: the
\* nearest is (n * 2^e) / 20, a number of 24 binary digits, rounded; if that is
\* exact, the tenths are rounded to even.
TwentiethsRoundUp(n) ==
  LET e == CHOOSE e \in 0..28 : /\ n * TwoTo[e] >= 20 * TwoTo[23]
                                /\ n * TwoTo[e] < 20 * TwoTo[24]
      rest == (n * TwoTo[e]) % 20
  IN  rest > 10 \/ (rest = 0 /\ n % 4 = 3)

\* (float)v / GIGAHERTZ as "%.1f" rounds it.  What is halfway between two tenths
\* is seldom a float, and goes where the nearest float does.
GigahertzTenths(v) ==
  LET n == v \div TWENTIETH
  IN  IF v % TWENTIETH = 0 /\ n % 2 = 1
      THEN IF TwentiethsRoundUp(n) THEN (n + 1) \div 2 ELSE (n - 1) \div 2
      ELSE Tenths(v, GIGAHERTZ)

Gigahertz(buf, v) ==
  clean_leading_zero(snprintf(buf, Padded(OneDecimal(GigahertzTenths(v)), 3)))

SmartLate(v) ==  \* a mutation: > instead of >=
  IF v > GIGAHERTZ THEN "G" ELSE IF v > MEGAHERTZ THEN "M" ELSE "K"

\* The unit that smart_format_logic chooses.
SmartPrefix(v) == IF v >= GIGAHERTZ THEN "G" ELSE IF v >= MEGAHERTZ THEN "M" ELSE "K"

\* The switch over freq->unit in run_cpu_freq, and smart_format_logic.
FrequencyTokens(v) ==
  CASE module.unit = "KHz" -> [token EXCEPT !["value"] = Whole(@, v, 7)]
    [] module.unit = "MHz" -> [token EXCEPT !["value"] = Whole(@, v \div MEGAHERTZ, 4)]
    [] module.unit = "GHz" -> [token EXCEPT !["value"] = Gigahertz(@, v)]
    [] module.unit = "smart" ->
         [token EXCEPT
            !["value"] = CASE SmartPrefix(v) = "G" -> Gigahertz(@, v)
                           [] SmartPrefix(v) = "M" -> Whole(@, v \div MEGAHERTZ, 3)
                           [] SmartPrefix(v) = "K" -> Whole(@, v, 3),
            !["unit"] = Hertz(SmartPrefix(v))]

\* run_cpu_freq, for two policies.
RunCpuFreq ==
  /\ module.name = "cpu_freq"
  /\ \E first, second \in Frequencies :
       LET v == (first + second) \div 2
       IN  /\ measured' = [measured EXCEPT !.value = v, !.total = v]
           /\ token' = FrequencyTokens(v)
  /\ UNCHANGED <<module, critical, cpu, killed>>

\* run_brightness, for a backlight that has levels.
RunBrightness ==
  /\ module.name = "brightness"
  /\ \E max \in Brightnesses, current \in Brightnesses \cup {0} :
       /\ current <= max
       /\ measured' = [measured EXCEPT !.value = current, !.total = max]
       /\ token' = [token EXCEPT !["percent"] = Percentage(@, current, max)]
  /\ UNCHANGED <<module, critical, cpu, killed>>

\* A max_brightness of 0.
RunEmptyBrightness ==
  /\ module.name = "brightness"
  /\ Killed

RoundedAlways(temp) == Quotient(temp, 1000) + 1  \* a mutation: always up

\* The end of compute_temp: in thousandths, rounded to a degree.  Quotient and
\* remainder of C are towards zero, so that the remainder of a temperature
\* below 0 is not positive.
Rounded(temp) ==
  Quotient(temp, 1000)
    + IF temp - 1000 * Quotient(temp, 1000) >= TEMP_ROUND_THRESHOLD THEN 1 ELSE 0

\* run_temperature, for two inputs.  The sign of degrees is two bytes of the
\* buffer and one character here.
RunTemperature ==
  /\ module.name = "temperature"
  /\ \E first, second \in Temperatures :
       LET temp == Rounded(Quotient(first + second, 2))
       IN  /\ measured' = [value |-> first + second, total |-> 2, free |-> 0]
           /\ token' = [token EXCEPT
                !["value"] = snprintf(@, Padded(Signed(temp), 2) \o <<"deg">>)]
           /\ critical' = (temp >= Threshold)
  /\ UNCHANGED <<module, cpu, killed>>

-----------------------------------------------------------------------------
(* cpu.c                                                                   *)

\* The counters between two rounds, by the kernel's tick: idle includes the
\* time that waits for input and output, which the kernel may correct
\* downwards.
TimePasses ==
  /\ module.name = "cpu_usage"
  /\ \E busy \in 0..2, idle \in -1..2 :
       LET Later(ticks) == [busy |-> ticks.busy + busy, idle |-> ticks.idle + idle]
       IN  /\ <<busy, idle>> # <<0, 0>>
           /\ kernel' = Later(kernel)
           /\ elapsed' = Later(elapsed)
  /\ kernel'.idle >= 0 /\ kernel'.busy + kernel'.idle <= MaxTicks
  /\ UNCHANGED <<module, measured, token, critical, prev, usage, killed>>

IdleNotKept(total, idle) == [total |-> total, idle |-> prev.idle]  \* a mutation

\* The sample for the next round.
Sample(total, idle) == [total |-> total, idle |-> idle]

\* run_cpu_usage with compute_cpu_usage.
RunCpuUsage ==
  /\ module.name = "cpu_usage"
  /\ LET total == kernel.busy + kernel.idle
         diff_idle == kernel.idle - prev.idle
         diff_total == total - prev.total
         value == Quotient((diff_total - diff_idle) * 100, diff_total)
     IN  IF diff_total = 0 THEN Killed
         ELSE /\ usage' = value
              /\ prev' = Sample(total, kernel.idle)
              /\ token' = [token EXCEPT
                   !["percent"] = snprintf(@, Padded(Signed(value), 2) \o <<"%">>)]
              /\ critical' = (value >= Threshold)
              /\ measured' = [value |-> elapsed.busy, free |-> elapsed.idle,
                              total |-> elapsed.busy + elapsed.idle]
              /\ elapsed' = NoTicks
              /\ UNCHANGED <<module, kernel, killed>>

-----------------------------------------------------------------------------

\* The init functions set fixed labels and units besides.  The counters of the
\* kernel have begun before the program.
Init ==
  /\ module \in Modules
  /\ measured = [value |-> 0, total |-> 0, free |-> 0]
  /\ token = [t \in Tokens |-> Zeroed]
  /\ critical = FALSE
  /\ kernel = [busy |-> 1, idle |-> 1]
  /\ prev = [total |-> 0, idle |-> 0]
  /\ usage = 0
  /\ elapsed = kernel
  /\ killed = FALSE

Dead == killed /\ UNCHANGED vars

Next ==
  \/ /\ ~ killed
     /\ \/ RunMemory \/ RunFilesystem \/ RunEmptyFilesystem
        \/ RunCpuFreq \/ RunBrightness \/ RunEmptyBrightness \/ RunTemperature
        \/ TimePasses \/ RunCpuUsage
  \/ Dead

Spec == Init /\ [][Next]_vars

-----------------------------------------------------------------------------
(* Properties.                                                             *)

Measured == measured.total > 0

\* The text of a token without the blanks that align it.
Figure(t) ==
  LET s == Text(token[t])
      shown == {k \in 1..Len(s) : s[k] # SPACE}
  IN  IF shown = {} THEN <<>> ELSE SubSeq(s, Min(shown), Len(s))

\* A number of tenths without a final ".0".
Short(tenths) == IF tenths % 10 = 0 THEN Decimal(tenths \div 10) ELSE OneDecimal(tenths)

\* The KiB of the units of memory, and the largest that an amount reaches.
MemoryUnit == [K |-> 1, M |-> MEGABYTE, G |-> GIGABYTE]
LargestUnit(v) ==
  CHOOSE u \in {"K", "M", "G"} :
    /\ u = "K" \/ v >= MemoryUnit[u]
    /\ \A t \in {"K", "M", "G"} : v >= MemoryUnit[t] => MemoryUnit[t] <= MemoryUnit[u]

\* An amount of memory in the largest unit it reaches, with its letter.
SmartFigure(v) ==
  LET prefix == LargestUnit(v)
  IN  (CASE prefix = "G" -> Short(Gibibytes(v))
         [] prefix = "M" -> Decimal(v \div MEGABYTE)
         [] prefix = "K" -> Decimal(v)) \o <<prefix>>

\* An amount of memory as the unit of the module wants it.
MemoryFigure(v) ==
  CASE module.unit = "KiB" -> Decimal(v)
    [] module.unit = "MiB" -> Decimal(v \div MEGABYTE)
    [] module.unit = "GiB" -> Short(Gibibytes(v))
    [] module.unit = "smart" -> SmartFigure(v)

\* A size in the largest unit it reaches, with a decimal below ten of them.
SizeFigure(size) ==
  LET p == CHOOSE p \in 0..4 : /\ p = 0 \/ size >= UnitSize[p]
                               /\ size < UnitSize[p + 1]
      unit == UnitSize[p]
  IN  (IF size < 10 * unit THEN Short(Tenths(size, unit)) ELSE Decimal(size \div unit))
        \o <<units[p + 1]>>

\* Whether the letter of smart units has a cell of its own: up to 99.9 GiB.
LetterFits == module.unit = "smart" => Gibibytes(measured.value) < 1000

\* After any rounds before, whatever was longer in the buffers, the memory in
\* use is shown as the number, and in smart units the letter, of the last
\* measure; so is the total, and in smart units its unit.  That is the largest
\* unit that is reached, which may take four digits (SmartScalesAllValues).
MemoryIsReadable ==
  module.name = "memory" /\ Measured /\ module.detailed =>
    /\ LetterFits => Figure("value") = MemoryFigure(measured.value)
    /\ LET unit == IF module.unit = "smart" THEN SubSeq(Figure("unit"), 1, 1) ELSE <<>>
       IN  Figure("total") \o unit = MemoryFigure(measured.total)

\* The space used and the space free are shown as those of the last statvfs, as
\* a float has them,
\* and the size of the filesystem begins with its own number and letter; what
\* may follow in that buffer is set_unit_suffix's, which ends it nowhere.
SpaceIsReadable ==
  module.name = "filesystem" /\ Measured =>
    /\ Figure("value") = SizeFigure(Float(measured.value))
    /\ Figure("free") = SizeFigure(Float(measured.free))
    /\ IsPrefix(SizeFigure(Float(measured.total)), Figure("total"))

\* The measure is a part of a whole, which it is not when the idle time of the
\* cpu was corrected downwards.
IsShare == measured.total > 0 /\ measured.value \in 0..measured.total

ShowsPercent == module.name \in {"memory", "filesystem", "cpu_usage", "brightness"}

\* The percentage that is shown is that of the last measure, in the cpu module
\* that of the time since the round before: whatever was shown or counted
\* earlier, and after a round that the kernel's corrections spoiled.
PercentIsOfTheMeasure ==
  ShowsPercent /\ IsShare =>
    Figure("percent") = Decimal(PERCENT(measured.value, measured.total)) \o <<"%">>

\* The cpu module takes exactly the ticks since its last round for the period
\* it reports, corrections of the kernel included, and ends the program only
\* when there were none in sum, as with a rate shorter than a tick.
UsageIsOfThePeriod ==
  module.name = "cpu_usage" =>
    /\ measured.total # 0 => usage = Quotient(measured.value * 100, measured.total)
    /\ killed => elapsed.busy + elapsed.idle = 0

\* module->critical, which nothing that runs reads yet, agrees with the percentage
\* shown, also when an older percentage was longer.
CriticalMatchesPercent ==
  module.name \in {"memory", "filesystem", "cpu_usage"} /\ IsShare =>
    (critical <=> \E p \in Threshold..100 : Figure("percent") = Decimal(p) \o <<"%">>)

\* The whole degrees below and above the mean of n inputs, from their sum.
DegreesAround(sum, n) == {sum \div (1000 * n), (sum \div (1000 * n)) + 1}

\* To half a degree, or to a degree above a mean below zero.
IsNear(p, sum, n) ==
  LET difference == 1000 * p * n - sum
  IN  IF sum >= 0 THEN difference \in (-500 * n)..(500 * n) ELSE difference \in 0..(1000 * n)

\* The temperature that is shown is the mean of the inputs to half a degree, or
\* to a degree below zero, and module->critical agrees with it.
TemperatureIsNear ==
  module.name = "temperature" /\ Measured =>
    \E p \in DegreesAround(measured.value, measured.total) :
      /\ Figure("value") = Signed(p) \o <<"deg">>
      /\ IsNear(p, measured.value, measured.total)
      /\ critical <=> p >= Threshold

\* t are the tenths nearest to a / b.
IsTenths(t, a, b) == 20 * a - 2 * b * t \in (-b)..b

\* A figure of a frequency in GHz.
IsGigahertz(figure, v) ==
  \E t \in {(10 * v) \div GIGAHERTZ, (10 * v) \div GIGAHERTZ + 1} :
    figure = Short(t) /\ IsTenths(t, v, GIGAHERTZ)

\* A frequency in its unit, to the nearest tenth of a GHz; smart units are chosen
\* so that up to three digits show it.
FrequencyIsReadable ==
  module.name = "cpu_freq" /\ Measured =>
    LET v == measured.value
    IN  CASE module.unit = "KHz" -> Figure("value") = Decimal(v)
          [] module.unit = "MHz" -> Figure("value") = Decimal(v \div MEGAHERTZ)
          [] module.unit = "GHz" -> IsGigahertz(Figure("value"), v)
          [] module.unit = "smart" ->
               /\ Len(Figure("value")) <= IF "." \in Range(Figure("value")) THEN 4 ELSE 3
               /\ \/ /\ Figure("unit") = <<"G", "H", "z">>
                     /\ IsGigahertz(Figure("value"), v)
                  \/ /\ Figure("unit") = <<"M", "H", "z">>
                     /\ Figure("value") = Decimal(v \div MEGAHERTZ)
                  \/ /\ Figure("unit") = <<"K", "H", "z">>
                     /\ Figure("value") = Decimal(v)

\* What the layout of the texts has room for: a memory whose letter fits, and a
\* temperature of one or two digits.
InLayout ==
  /\ module.name = "memory" => LetterFits
  /\ module.name = "temperature" => measured.value \in 0..(99000 * measured.total)

\* manual.1, memory_unit: "smart automatically scales used and total memory value
\* to the shortest three digit unit".  The used memory is shown as its number and
\* letter, however large, and neither amount with more than three digits.
SmartScalesAllValues ==
  module.name = "memory" /\ Measured /\ module.detailed /\ module.unit = "smart" =>
    /\ Figure("value") = MemoryFigure(measured.value)
    /\ \A t \in {"value", "total"} :
         Len(SelectSeq(Figure(t), LAMBDA c : c \in Range(Digits))) <= 3

-----------------------------------------------------------------------------
(* The inductive invariants behind the theorems of FiguresProofs.          *)

Characters ==
  {"0", "1", "2", "3", "4", "5", "6", "7", "8", "9", ".", "-", SPACE, "%",
   "B", "K", "M", "G", "T", "i", "H", "z", "deg"}

TypeOK ==
  /\ module \in Modules
  /\ measured \in [value : Int, total : Int, free : Int]
  /\ token \in [Tokens -> [Cells -> Characters \cup {NUL}]]
  /\ critical \in BOOLEAN /\ killed \in BOOLEAN
  /\ kernel \in [busy : Int, idle : Int]
  /\ elapsed \in [busy : Int, idle : Int]
  /\ prev \in [total : Int, idle : Int]

\* The cpu module's sample of the round before is what the kernel has counted
\* since, subtracted from what it has counted in all.
SampleIsKept ==
  /\ prev.total = kernel.busy + kernel.idle - (elapsed.busy + elapsed.idle)
  /\ prev.idle = kernel.idle - elapsed.idle

\* Behind the fifth cell, where the letter of a size goes without a zero byte
\* of its own, there is one, and likewise that of an amount of memory.
SizeLetterIsLast ==
  module.name = "filesystem" => token["value"][6] = NUL /\ token["free"][6] = NUL

MemoryLetterIsLast ==
  module.name = "memory" /\ module.unit = "smart" => token["value"][6] = NUL

IInv == TypeOK /\ SampleIsKept /\ UsageIsOfThePeriod /\ SizeLetterIsLast

\* The width of the texts that are padded; the other modules leave these buffers
\* empty.
Width(t) ==
  CASE module.name = "filesystem" -> 5
    [] t = "value" /\ module.name = "memory" /\ module.detailed ->
         [KiB |-> 8, MiB |-> 5, GiB |-> 4, smart |-> 5][module.unit]
    [] t = "value" /\ module.name = "cpu_freq" ->
         [KHz |-> 7, MHz |-> 4, GHz |-> 3, smart |-> 3][module.unit]
    [] t = "value" /\ module.name = "temperature" -> 3
    [] OTHER -> 0

LayoutInv ==
  /\ MemoryLetterIsLast
  /\ \A t \in {"value", "free"} :
       Width(t) = 0 \/ (Measured /\ InLayout) => Len(Text(token[t])) = Width(t)

=============================================================================
