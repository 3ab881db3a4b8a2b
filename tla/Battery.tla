-------------------------------- MODULE Battery --------------------------------
(***************************************************************************)
(* The battery module (src/src/battery.c, notify.c): one action per round  *)
(* for run_battery, against a battery that charges and drains between the  *)
(* rounds and a power supply file that may lack fields.                    *)
(***************************************************************************)
EXTENDS Integers

CONSTANTS
  Capacity,       \* ENERGY_FULL (or ENERGY_FULL_DESIGN) of the battery
  Threshold,      \* power->cthreshold, in percent
  NotifyEnabled,  \* power->notify.enabled
  MayLack         \* fields that the file may lack in a round

Fields == {"status", "now", "full"}

ASSUME BatteryAssumption ==
  /\ Capacity \in Nat \ {0}
  /\ Threshold \in 0..100
  /\ NotifyEnabled \in BOOLEAN
  /\ MayLack \subseteq Fields

VARIABLES
  ac,          \* the AC adapter is plugged
  charge,      \* the energy in the battery
  raw_status,  \* power->raw_status after parsing; "missing" is NULL
  current,     \* power->current after parsing; -1 when the file lacks it
  max,         \* power->max, likewise
  status,      \* power->status
  last_status, \* power->last_status
  critical,    \* module->critical
  label,       \* the label in tokens[0]
  value,       \* the percentage in tokens[1]; -1 stands for "--"
  text,        \* label and percentage in module->buffer
  notified,    \* the notification on screen, or the last one to have been
  refused,     \* the last notification that was sent could not be shown
  polled       \* run_battery has run, and nothing has changed since

power == <<raw_status, current, max, status, last_status, label, value>>
module == <<critical, text>>
notification == <<notified, refused>>
vars == <<ac, charge, raw_status, current, max, status, last_status, critical,
          label, value, text, notified, refused, polled>>

Labels == {"unk", "full", "chr", "xchr", "dis"}
NoText == [label |-> "none", value |-> -1]

\* init_battery
Init ==
  /\ ac \in BOOLEAN
  /\ charge \in 0..Capacity
  /\ raw_status = "missing"
  /\ current = -1
  /\ max = -1
  /\ status = "unknown"
  /\ last_status = "unknown"
  /\ critical = FALSE
  /\ label = "none"
  /\ value = -1
  /\ text = NoText
  /\ notified = "none"
  /\ refused = FALSE
  /\ polled = FALSE

-----------------------------------------------------------------------------
(* The battery, as the kernel reports it.                                  *)

\* What POWER_SUPPLY_STATUS may say.  A plugged battery that is full, or kept
\* below full by a charge limit, may not be charging; the kernel says
\* "Unknown" when the driver cannot tell.
Reported ==
  {"Unknown"} \cup
  IF ~ ac THEN {"Discharging"}
  ELSE IF charge = Capacity THEN {"Full", "Not charging"}
  ELSE {"Charging", "Not charging"}

\* What parse_power_file gets from the file: all three fields, or -1 and NULL
\* for those that it lacks.
Parsed ==
  {[status |-> IF "status" \in lacks THEN "missing" ELSE s,
    now    |-> IF "now" \in lacks THEN -1 ELSE charge,
    full   |-> IF "full" \in lacks THEN -1 ELSE Capacity] :
      s \in Reported, lacks \in SUBSET MayLack}

\* PERCENT(current, max): a product and a quotient of C, rounded towards zero.
Quotient(a, b) ==
  LET Abs(n) == IF n < 0 THEN -n ELSE n
      q == Abs(a) \div Abs(b)
  IN  IF (a < 0) = (b < 0) THEN q ELSE -q

PercentDividedFirst(a, b) == Quotient(a, b) * 100  \* a mutation

PERCENT(a, b) == Quotient(a * 100, b)

-----------------------------------------------------------------------------
(* run_battery.                                                            *)

\* The label and the status that set_buffer gives to a raw status, with v the
\* percentage.
Classified(raw, v) ==
  LET low == v <= Threshold
  IN  CASE raw = "Discharging"  -> [label |-> "dis",
             status |-> IF low THEN "critical" ELSE "discharging"]
        [] raw = "Charging"     -> [label |-> "chr", status |-> "charging"]
        [] raw = "Not charging" -> [label |-> "xchr", status |-> "not charging"]
        [] raw = "Full"         -> [label |-> "full", status |-> "full"]
        [] OTHER                -> [label |-> "unk",
             status |-> IF low THEN "critical" ELSE "unknown"]

\* The first lines of set_buffer: "-1" is what a missing number looks like, so
\* only a missing status takes this way out.
Unreadable(file) == file.status = "missing" \/ file.now < -1 \/ file.full < -1

\* set_buffer, without what it can still show: the module buffer keeps the
\* text of an earlier round.
GiveUp ==
  /\ label' = "dis"
  /\ value' = -1
  /\ status' = "unknown"
  /\ critical' = FALSE
  /\ UNCHANGED text

StickyCritical(st) == critical \/ st = "critical"  \* a mutation: never reset

\* module->critical, reset at the start of set_buffer.
IsCritical(st) == st = "critical"

\* set_buffer, to its end.
SetBuffer(file) ==
  LET v == PERCENT(file.now, file.full)
      c == Classified(file.status, v)
  IN  /\ label' = c.label
      /\ value' = v
      /\ status' = c.status
      /\ critical' = IsCritical(c.status)
      /\ text' = [label |-> c.label, value |-> v]

\* power_notify: the notification for a status, if it has one.
Notification(st) ==
  CASE st = "full"     -> "fully charged"
    [] st = "charging" -> "plugged"
    [] st = "critical" -> "low"
    [] OTHER           -> "none"

\* notify() on the one NotifyNotification of the module, which replaces what
\* it showed before, or fails.  Its result is ignored.
Notify(kind) ==
  IF kind = "none" THEN UNCHANGED notification
  ELSE \/ notified' = kind /\ refused' = FALSE
       \/ refused' = TRUE /\ UNCHANGED notified

ChangedFromKnown(st) == st # last_status /\ last_status # "unknown"  \* a mutation

\* power->status != power->last_status
Changed(st) == st # last_status

RunBattery ==
  \E file \in Parsed :
    /\ raw_status' = file.status
    /\ current' = file.now
    /\ max' = file.full
    /\ IF Unreadable(file) THEN GiveUp ELSE SetBuffer(file)
    /\ IF NotifyEnabled /\ Changed(status')
       THEN Notify(Notification(status'))
       ELSE UNCHANGED notification
    /\ last_status' = status'
    /\ polled' = TRUE
    /\ UNCHANGED <<ac, charge>>

-----------------------------------------------------------------------------
(* Between two rounds.                                                     *)

PlugOrUnplug ==
  /\ ac' = ~ ac
  /\ polled' = FALSE
  /\ UNCHANGED <<charge, power, module, notification>>

ChargeOrDrain ==
  /\ charge' = IF ac THEN charge + 1 ELSE charge - 1
  /\ charge' \in 0..Capacity
  /\ polled' = FALSE
  /\ UNCHANGED <<ac, power, module, notification>>

Next == RunBattery \/ PlugOrUnplug \/ ChargeOrDrain

Spec == Init /\ [][Next]_vars

-----------------------------------------------------------------------------
(* Properties.                                                             *)

Statuses == {"full", "charging", "not charging", "discharging", "critical", "unknown"}
Percents == -(100 * Capacity)..(100 * Capacity)

\* Type invariant of the battery module.
TypeOK ==
  /\ ac \in BOOLEAN
  /\ charge \in 0..Capacity
  /\ raw_status \in {"Discharging", "Charging", "Not charging", "Full", "Unknown", "missing"}
  /\ current \in {-1} \cup 0..Capacity
  /\ max \in {-1, Capacity}
  /\ status \in Statuses
  /\ last_status \in Statuses
  /\ critical \in BOOLEAN
  /\ label \in Labels \cup {"none"}
  /\ value \in Percents
  /\ text \in [label : Labels \cup {"none"}, value : Percents]
  /\ notified \in {"none", "fully charged", "plugged", "low"}
  /\ refused \in BOOLEAN
  /\ polled \in BOOLEAN

\* While the module calls the battery low, full or charging, the notification
\* of that kind was the last one shown, or the notification daemon refused it:
\* whatever the path of statuses that led here, a repetition of the same status
\* after others included.
StateIsAnnounced ==
  polled /\ NotifyEnabled /\ Notification(status) # "none" =>
    notified = Notification(status) \/ refused

\* "Battery is low" is announced only after a round in which the charge really
\* was at or below the threshold; the percentage is rounded down.  That is when
\* the file has both numbers: one that is missing passes for -1.
LowIsTrue ==
  [][notified' = "low" /\ notified # "low" /\ current' >= 0 /\ max' >= 0 =>
       100 * charge < (Threshold + 1) * Capacity]_vars

\* module->critical agrees with the text in the module's buffer: it is never
\* set for a percentage above the threshold, nor for one measured while
\* charging.  The flag is for append_module (src/src/format.c), which nothing
\* calls at this commit.
CriticalMatchesText ==
  critical => text.value <= Threshold /\ text.label \in {"dis", "unk"}

-----------------------------------------------------------------------------
(* The inductive invariant behind the theorems of BatteryProofs.           *)

\* Between two rounds the status is the one last compared, and what was sent
\* for it is on screen.
Announced ==
  /\ last_status = status
  /\ NotifyEnabled /\ Notification(status) # "none" =>
       notified = Notification(status) \/ refused

IInv == TypeOK /\ Announced /\ CriticalMatchesText

=============================================================================
