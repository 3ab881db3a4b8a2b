---------------------------- MODULE BatteryProofs ----------------------------
(***************************************************************************)
(* Theorems about Battery, for every capacity and threshold, and whatever  *)
(* fields the power supply file lacks.                                     *)
(***************************************************************************)
EXTENDS Battery, TLAPS

\* set_buffer gives every round a status, and calls the module critical for
\* the one status that is.
LEMMA ClassifiedFacts ==
  ASSUME NEW raw, NEW v
  PROVE  /\ Classified(raw, v).status \in Statuses
         /\ Classified(raw, v).label \in Labels
         /\ Classified(raw, v).status = "critical" =>
              /\ v <= Threshold
              /\ Classified(raw, v).label \in {"dis", "unk"}
BY DEF Classified, Statuses, Labels

LEMMA InitInvariant == Init => Announced /\ CriticalMatchesText
BY DEF Init, Announced, CriticalMatchesText, Notification

\* One round of run_battery, on whatever the file says.
LEMMA RoundStep ==
  ASSUME Announced, CriticalMatchesText, RunBattery
  PROVE  Announced' /\ CriticalMatchesText'
<1>1. PICK file \in Parsed :
        /\ IF Unreadable(file) THEN GiveUp ELSE SetBuffer(file)
        /\ IF NotifyEnabled /\ Changed(status')
           THEN Notify(Notification(status'))
           ELSE UNCHANGED notification
        /\ last_status' = status'
  BY DEF RunBattery
<1>2. CriticalMatchesText'
  <2>1. CASE Unreadable(file)
    BY <1>1, <2>1 DEF GiveUp, CriticalMatchesText
  <2>2. CASE ~ Unreadable(file)
    <3> DEFINE v == PERCENT(file.now, file.full)
    <3>1. /\ critical' = (Classified(file.status, v).status = "critical")
          /\ text' = [label |-> Classified(file.status, v).label, value |-> v]
      BY <1>1, <2>2 DEF SetBuffer, IsCritical
    <3> HIDE DEF v
    <3> QED
      BY <3>1, ClassifiedFacts DEF CriticalMatchesText
  <2> QED
    BY <2>1, <2>2
<1>3. NotifyEnabled /\ Notification(status') # "none" =>
        notified' = Notification(status') \/ refused'
  <2> SUFFICES ASSUME NotifyEnabled, Notification(status') # "none"
               PROVE  notified' = Notification(status') \/ refused'
    OBVIOUS
  <2>1. CASE Changed(status')
    BY <1>1, <2>1 DEF Notify
  <2>2. CASE ~ Changed(status')
    <3>1. status' = status
      BY <2>2 DEF Changed, Announced
    <3>2. notified' = notified /\ refused' = refused
      BY <1>1, <2>2 DEF notification
    <3> QED
      BY <3>1, <3>2 DEF Announced
  <2> QED
    BY <2>1, <2>2
<1>4. Notification(status)' = Notification(status')
  BY DEF Notification
<1> QED
  BY <1>1, <1>2, <1>3, <1>4 DEF Announced

LEMMA Invariance == Spec => [](Announced /\ CriticalMatchesText)
<1>1. ASSUME Announced, CriticalMatchesText, [Next]_vars
      PROVE  Announced' /\ CriticalMatchesText'
  <2>1. CASE RunBattery
    BY <1>1, <2>1, RoundStep
  <2>2. CASE UNCHANGED <<power, module, notification>>
    <3>1. /\ UNCHANGED <<status, last_status, notified, refused>>
          /\ UNCHANGED <<critical, text>>
      BY <2>2 DEF power, module, notification
    <3>2. Notification(status)' = Notification(status)
      BY <3>1 DEF Notification
    <3> QED
      BY <1>1, <3>1, <3>2 DEF Announced, CriticalMatchesText
  <2>3. PlugOrUnplug \/ ChargeOrDrain \/ UNCHANGED vars =>
          UNCHANGED <<power, module, notification>>
    BY DEF PlugOrUnplug, ChargeOrDrain, vars, power, module, notification
  <2> QED
    BY <1>1, <2>1, <2>2, <2>3 DEF Next
<1> QED
  BY InitInvariant, <1>1, PTL DEF Spec

-----------------------------------------------------------------------------

\* A low, full or charging battery is the last thing announced, as long as the
\* module says so, unless the notification daemon refused it.
THEOREM StateIsAnnouncedHolds == Spec => []StateIsAnnounced
<1>1. Announced => StateIsAnnounced
  BY DEF Announced, StateIsAnnounced
<1> QED
  BY <1>1, Invariance, PTL

\* module->critical agrees with the text in the module's buffer.
THEOREM CriticalMatchesTextHolds == Spec => []CriticalMatchesText
BY Invariance, PTL

-----------------------------------------------------------------------------
(* Types, and what the percentage is.                                      *)

\* The quotient of C is between 0 and the dividend.
LEMMA QuotientBounds ==
  ASSUME NEW a \in Int, NEW b \in Int, b # 0
  PROVE  /\ Quotient(a, b) \in Int
         /\ a >= 0 => Quotient(a, b) \in -a..a
         /\ a < 0 => Quotient(a, b) \in a..(-a)
<1> DEFINE Abs(n) == IF n < 0 THEN -n ELSE n
           q == Abs(a) \div Abs(b)
<1>1. Abs(a) \in Nat /\ Abs(b) \in Nat \ {0}
  OBVIOUS
<1>2. \A m \in Nat, n \in Nat \ {0} : m \div n \in 0..m
  OBVIOUS
<1>3. q \in 0..Abs(a)
  BY <1>1, <1>2
<1>4. Quotient(a, b) = IF (a < 0) = (b < 0) THEN q ELSE -q
  BY DEF Quotient
<1> HIDE DEF q
<1> QED
  BY <1>3, <1>4

\* For amounts that are there the percentage is rounded down.
LEMMA PercentIsRoundedDown ==
  ASSUME NEW a \in Nat, NEW b \in Nat \ {0}
  PROVE  /\ PERCENT(a, b) \in Nat
         /\ 100 * a < (PERCENT(a, b) + 1) * b
<1>1. PERCENT(a, b) = (a * 100) \div b
  BY DEF PERCENT, Quotient
<1>2. \A m \in Nat : m \div b \in Nat /\ m < (m \div b + 1) * b
  OBVIOUS
<1>3. a * 100 \in Nat /\ a * 100 = 100 * a
  OBVIOUS
<1> QED
  BY <1>1, <1>2, <1>3

\* What parse_power_file gets is a number of the battery, or -1.
LEMMA ParsedFacts ==
  ASSUME TypeOK, NEW file \in Parsed
  PROVE  /\ file.status \in Reported \cup {"missing"}
         /\ file.now = charge \/ file.now = -1
         /\ file.full = Capacity \/ file.full = -1
BY DEF Parsed

LEMMA Amounts ==
  /\ Capacity \in Nat \ {0} /\ Threshold \in Nat
  /\ TypeOK => charge \in 0..Capacity
<1>1. Capacity \in Nat \ {0} /\ Threshold \in 0..100
  BY BatteryAssumption DEF BatteryAssumption
<1>2. TypeOK => charge \in 0..Capacity
  BY Zenon DEF TypeOK
<1> QED
  BY <1>1, <1>2

LEMMA PercentIsBounded ==
  ASSUME TypeOK, NEW file \in Parsed
  PROVE  PERCENT(file.now, file.full) \in Percents
<1> USE Amounts
<1>1. file.now \in -1..Capacity /\ file.full \in Int \ {0}
  BY ParsedFacts
<1> DEFINE a == file.now * 100
<1>2. a \in Int /\ a >= -100 /\ a <= 100 * Capacity /\ 100 <= 100 * Capacity
  BY <1>1
<1>3. PERCENT(file.now, file.full) = Quotient(a, file.full)
  BY DEF PERCENT
<1> DEFINE b == file.full
           q == Quotient(a, b)
<1>4. b \in Int /\ b # 0
  BY <1>1
<1> HIDE DEF a, b
<1>5. q \in Int /\ (a >= 0 => q \in -a..a) /\ (a < 0 => q \in a..(-a))
  BY <1>2, <1>4, QuotientBounds
<1> HIDE DEF q
<1>6. q \in -(100 * Capacity)..(100 * Capacity)
  BY <1>2, <1>5
<1> QED
  BY <1>3, <1>6 DEF Percents, q, b

LEMMA NothingIsPercent == -1 \in Percents /\ Percents' = Percents
BY Amounts DEF Percents

LEMMA RoundKeepsTypes ==
  ASSUME TypeOK, RunBattery
  PROVE  TypeOK'
<1>1. PICK file \in Parsed :
        /\ raw_status' = file.status
        /\ current' = file.now
        /\ max' = file.full
        /\ IF Unreadable(file) THEN GiveUp ELSE SetBuffer(file)
        /\ IF NotifyEnabled /\ Changed(status')
           THEN Notify(Notification(status'))
           ELSE UNCHANGED notification
        /\ last_status' = status'
        /\ polled' = TRUE
        /\ UNCHANGED <<ac, charge>>
  BY DEF RunBattery
<1>2. (/\ ac \in BOOLEAN
       /\ charge \in 0..Capacity
       /\ raw_status \in {"Discharging", "Charging", "Not charging", "Full", "Unknown",
                          "missing"}
       /\ current \in {-1} \cup 0..Capacity
       /\ max \in {-1, Capacity}
       /\ polled \in BOOLEAN)'
  BY <1>1, ParsedFacts DEF TypeOK, Reported
<1>3. (/\ status \in Statuses
       /\ label \in Labels \cup {"none"}
       /\ value \in Percents
       /\ text \in [label : Labels \cup {"none"}, value : Percents])'
  <2>1. CASE Unreadable(file)
    <3>1. label' = "dis" /\ value' = -1 /\ status' = "unknown" /\ text' = text
      BY <1>1, <2>1 DEF GiveUp
    <3>2. text' \in [label : Labels \cup {"none"}, value : Percents]
      BY <3>1, Zenon DEF TypeOK
    <3> QED
      BY <3>1, <3>2, NothingIsPercent DEF Statuses, Labels
  <2>2. CASE ~ Unreadable(file)
    <3> DEFINE v == PERCENT(file.now, file.full)
               c == Classified(file.status, v)
    <3>1. label' = c.label /\ value' = v /\ status' = c.status
          /\ text' = [label |-> c.label, value |-> v]
      BY <1>1, <2>2 DEF SetBuffer
    <3>2. c.status \in Statuses /\ c.label \in Labels
      BY ClassifiedFacts
    <3>3. v \in Percents
      BY PercentIsBounded
    <3> HIDE DEF v, c
    <3> QED
      BY <3>1, <3>2, <3>3 DEF Percents
  <2> QED
    BY <2>1, <2>2
<1>4. critical' \in BOOLEAN
  BY <1>1 DEF GiveUp, SetBuffer, IsCritical
<1>5. notified' \in {"none", "fully charged", "plugged", "low"} /\ refused' \in BOOLEAN
  BY <1>1 DEF Notify, Notification, notification, TypeOK
<1>6. last_status' \in Statuses
  BY <1>1, <1>3
<1> QED
  BY <1>2, <1>3, <1>4, <1>5, <1>6 DEF TypeOK, Percents

LEMMA TypeInvariance == Spec => []TypeOK
<1>1. Init => TypeOK
  <2> SUFFICES ASSUME Init PROVE TypeOK
    OBVIOUS
  <2>1. charge \in 0..Capacity /\ current = -1 /\ max = -1
    BY DEF Init
  <2>2. value \in Percents
    BY NothingIsPercent DEF Init
  <2>3. text \in [label : Labels \cup {"none"}, value : Percents]
    BY NothingIsPercent DEF Init, NoText
  <2>4. /\ status \in Statuses /\ last_status \in Statuses
        /\ label \in Labels \cup {"none"}
    BY DEF Init, Statuses
  <2>5. /\ ac \in BOOLEAN /\ critical \in BOOLEAN /\ refused \in BOOLEAN
        /\ polled \in BOOLEAN
        /\ raw_status \in {"Discharging", "Charging", "Not charging", "Full", "Unknown",
                           "missing"}
        /\ notified \in {"none", "fully charged", "plugged", "low"}
    BY DEF Init
  <2> QED
    BY <2>1, <2>2, <2>3, <2>4, <2>5, Zenon DEF TypeOK
<1>2. ASSUME TypeOK, [Next]_vars PROVE TypeOK'
  <2>1. CASE RunBattery
    BY <1>2, <2>1, RoundKeepsTypes
  <2>2. CASE PlugOrUnplug \/ ChargeOrDrain \/ UNCHANGED vars
    <3>1. /\ UNCHANGED <<raw_status, current, max, status, last_status, label, value>>
          /\ UNCHANGED <<critical, text, notified, refused>>
          /\ Percents' = Percents
      BY <2>2, NothingIsPercent
      DEF PlugOrUnplug, ChargeOrDrain, vars, power, module, notification
    <3>2. ac' \in BOOLEAN /\ charge' \in 0..Capacity /\ polled' \in BOOLEAN
      <4>1. ac \in BOOLEAN /\ charge \in 0..Capacity /\ polled \in BOOLEAN
        BY <1>2, Zenon DEF TypeOK
      <4> QED
        BY <2>2, <4>1 DEF PlugOrUnplug, ChargeOrDrain, vars
    <3> QED
      BY <1>2, <3>1, <3>2, Zenon DEF TypeOK
  <2> QED
    BY <1>2, <2>1, <2>2 DEF Next
<1> QED
  BY <1>1, <1>2, PTL DEF Spec

\* The whole inductive invariant, for every battery.
THEOREM IInvHolds == Spec => []IInv
BY TypeInvariance, Invariance, PTL DEF IInv

\* "Battery is low" is never announced above the threshold, rounding included,
\* in a round whose file has both numbers.
THEOREM LowIsTrueHolds == Spec => LowIsTrue
<1>1. ASSUME TypeOK, [Next]_vars
      PROVE  [notified' = "low" /\ notified # "low" /\ current' >= 0 /\ max' >= 0 =>
                100 * charge < (Threshold + 1) * Capacity]_vars
  <2> SUFFICES ASSUME Next, notified' = "low", notified # "low", current' >= 0, max' >= 0
               PROVE  100 * charge < (Threshold + 1) * Capacity
    BY <1>1 DEF vars
  <2>1. RunBattery
    BY DEF Next, PlugOrUnplug, ChargeOrDrain, notification
  <2>2. PICK file \in Parsed :
          /\ current' = file.now
          /\ max' = file.full
          /\ IF Unreadable(file) THEN GiveUp ELSE SetBuffer(file)
          /\ IF NotifyEnabled /\ Changed(status')
             THEN Notify(Notification(status'))
             ELSE UNCHANGED notification
    BY <2>1 DEF RunBattery
  <2>3. file.now = charge /\ file.full = Capacity
    BY <1>1, <2>2, ParsedFacts
  <2>4. status' = "critical"
    BY <2>2 DEF Notify, Notification, notification
  <2>5. ~ Unreadable(file)
    BY <2>2, <2>4 DEF GiveUp
  <2>6. PERCENT(charge, Capacity) <= Threshold
    BY <2>2, <2>3, <2>4, <2>5, ClassifiedFacts DEF SetBuffer
  <2>7. charge \in Nat /\ Capacity \in Nat \ {0} /\ Threshold \in Nat
    BY <1>1, Amounts
  <2> DEFINE p == PERCENT(charge, Capacity)
  <2>8. p \in Nat /\ 100 * charge < (p + 1) * Capacity
    BY <2>7, PercentIsRoundedDown
  <2>9. p <= Threshold
    BY <2>6
  <2> HIDE DEF p
  <2>10. (p + 1) * Capacity <= (Threshold + 1) * Capacity
    BY <2>7, <2>8, <2>9
  <2> QED
    BY <2>7, <2>8, <2>10
<1> QED
  BY <1>1, TypeInvariance, PTL DEF Spec, LowIsTrue

=============================================================================
