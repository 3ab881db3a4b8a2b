---------------------------- MODULE WirelessProofs ----------------------------
(***************************************************************************)
(* Theorems about Wireless, for every set of networks, with any names and  *)
(* signals, and every size of the token buffer.                            *)
(***************************************************************************)
EXTENDS Wireless, TLAPS

\* The percentage stays on its scale, and a stronger signal is never shown as
\* a weaker one, where float rounds down included.
THEOREM PercentRises ==
  ASSUME NEW a \in Int, NEW b \in Int, a <= b
  PROVE  /\ nl80211_xbm_to_percent(a) \in 30..100
         /\ nl80211_xbm_to_percent(a) <= nl80211_xbm_to_percent(b)
BY DEF nl80211_xbm_to_percent, NOISE_FLOOR_DBM, SIGNAL_MAX_DBM

\* An SSID that was copied into the cleared buffer reads as itself, or with a
\* truncation mark where it is cut.
LEMMA CopiedReads ==
  ASSUME NEW n \in Networks, Ssid(n) # <<>>
  PROVE  Text(Copied(Zeroed, Ssid(n))) = NameOf(n)
<1> DEFINE s == Ssid(n)
           T == TBUFFER_MAX_SIZE
           buf == Copied(Zeroed, s)
           stop == IF Len(s) <= T THEN Len(s) + 1 ELSE T + 1
           ends == {k \in Cells : buf[k] = NUL} \cup {T + 1}
<1>1. /\ s \in Seq(Characters)
      /\ Len(s) \in Nat
      /\ \A k \in 1..Len(s) : s[k] # NUL
      /\ T \in Nat \ {0}
      /\ n # NoNetwork
  BY SsidAssumption, TokenBufferAssumption, WirelessAssumption
<1>2. \A k \in Cells :
        buf[k] = IF Len(s) > T /\ k = T THEN "."
                 ELSE IF k <= Len(s) THEN s[k] ELSE NUL
  BY DEF Copied, Zeroed
<1>3. stop \in ends /\ \A k \in ends : stop <= k
  BY <1>1, <1>2 DEF Cells, NUL
<1>4. Min(ends) = stop
  <2>1. \A k \in ends : k \in Int
    BY <1>1 DEF Cells
  <2> HIDE DEF ends, stop
  <2> QED
    BY <1>3, <2>1 DEF Min
<1>5. Text(buf) = SubSeq(buf, 1, stop - 1)
  BY <1>4 DEF Text
<1> HIDE DEF s
<1>6. CASE Len(s) <= T
  <2>1. SubSeq(buf, 1, Len(s)) = [k \in 1..Len(s) |-> s[k]]
    BY <1>1, <1>2, <1>6 DEF Cells
  <2>2. [k \in 1..Len(s) |-> s[k]] = s
    BY <1>1
  <2> QED
    BY <1>1, <1>5, <1>6, <2>1, <2>2 DEF NameOf, s
<1>7. CASE Len(s) > T
  <2> DEFINE cut == Append(SubSeq(s, 1, T - 1), ".")
  <2>1. SubSeq(buf, 1, T) = [k \in 1..T |-> IF k = T THEN "." ELSE s[k]]
    BY <1>1, <1>2, <1>7 DEF Cells
  <2>2. cut = [k \in 1..T |-> IF k = T THEN "." ELSE s[k]]
    BY <1>1, <1>7
  <2> QED
    BY <1>1, <1>5, <1>7, <2>1, <2>2 DEF NameOf, s
<1> QED
  BY <1>1, <1>6, <1>7

\* What a station may report is on the scale, and its percentage is one that
\* its network may have.
LEMMA ReportedQuality ==
  ASSUME NEW n \in Networks, NEW level \in Levels[n]
  PROVE  /\ level # NoLevel => nl80211_xbm_to_percent(level) \in 30..100
         /\ (IF level = NoLevel THEN NoLevel ELSE nl80211_xbm_to_percent(level))
              \in QualitiesOf(n)
<1>1. level # NoLevel => level \in Int
  BY WirelessAssumption
<1>2. n # NoNetwork
  BY WirelessAssumption
<1> QED
  BY <1>1, <1>2, PercentRises DEF QualitiesOf

LEMMA InitIInv == Init => IInv
BY DEF Init, IInv, TypeOK, Links, Zeroed, HistoryIsKept, ScanIsOfTheLink, ScanFound,
       StationIsOfTheLink, NameIsOfTheScan, StableLinkIsShown, Shown

-----------------------------------------------------------------------------
(* The steps of run_wireless.                                              *)

LEMMA StartRoundStep ==
  ASSUME IInv, StartRound
  PROVE  IInv'
BY DEF IInv, StartRound, FlagsReset, EssidReset, tokens, TypeOK, Links, Zeroed,
       HistoryIsKept, ScanIsOfTheLink, ScanFound, StationIsOfTheLink,
       NameIsOfTheScan, StableLinkIsShown, Shown

\* A message about the network of the link fills flags and essid; one about
\* another network changes nothing, and both leave the rest to the dump.
LEMMA ScanReplyStep ==
  ASSUME IInv, NEW n \in Networks, ScanReply(n)
  PROVE  IInv'
<1> USE DEF IInv, ScanReply, tokens, history, wlan
<1>1. /\ pc = "scan" /\ pc' = "scan" /\ n \notin listed
      /\ UNCHANGED <<link, signal, name, quality, scanned, linked>>
      /\ listed' = listed \cup {n}
  OBVIOUS
<1>2. TypeOK'
  BY <1>1 DEF TypeOK, Links, IsAssociated, resolve_essid, Copied
<1>3. HistoryIsKept'
  BY <1>1 DEF HistoryIsKept
<1>4. ScanIsOfTheLink'
  <2> SUFFICES ASSUME NEW m \in Links, scanned = {m}
               PROVE  ScanFound(m)'
    BY <1>1 DEF ScanIsOfTheLink
  <2>1. ScanFound(m) /\ link = m
    BY <1>1 DEF ScanIsOfTheLink, HistoryIsKept
  <2>2. CASE n = m
    BY <1>1, <2>1, <2>2 DEF ScanFound, IsAssociated, resolve_essid
  <2>3. CASE n # m
    BY <1>1, <2>1, <2>3 DEF ScanFound, IsAssociated
  <2> QED
    BY <2>2, <2>3
<1>5. StationIsOfTheLink'
  BY <1>1 DEF StationIsOfTheLink, IsAssociated, resolve_essid
<1>6. NameIsOfTheScan' /\ StableLinkIsShown'
  BY <1>1 DEF NameIsOfTheScan, StableLinkIsShown, Shown
<1> QED
  BY <1>2, <1>3, <1>4, <1>5, <1>6

LEMMA ScanDoneStep ==
  ASSUME IInv, ScanDone
  PROVE  IInv'
BY DEF IInv, ScanDone, wlan, tokens, history, TypeOK, Links, HistoryIsKept,
       ScanIsOfTheLink, ScanFound, StationIsOfTheLink, NameIsOfTheScan,
       StableLinkIsShown, Shown

\* The station's message is about the present link, which is the only one of
\* the round if there was but one.
LEMMA StationReplyStep ==
  ASSUME IInv, StationReply
  PROVE  IInv'
<1> USE DEF IInv, StationReply, tokens, history
<1>1. /\ pc = "station" /\ pc' = "set"
      /\ UNCHANGED <<link, listed, essid, bssid, name, quality, scanned, linked>>
      /\ link \in Links /\ link \in linked
      /\ "signal" \notin flags
  BY DEF TypeOK, HistoryIsKept, StationIsOfTheLink
<1>2. \/ link = NoNetwork /\ UNCHANGED <<flags, signal>>
      \/ /\ link \in Networks
         /\ \E level \in Levels[link] :
              IF level = NoLevel THEN UNCHANGED <<flags, signal>>
              ELSE /\ flags' = flags \cup {"signal"}
                   /\ signal' = nl80211_xbm_to_percent(level)
  BY <1>1 DEF Links
<1> DEFINE Delivered ==
             /\ flags' \in {flags, flags \cup {"signal"}}
             /\ signal' \in {0} \cup 30..100
             /\ "signal" \in flags' => signal' # 0
             /\ (IF "signal" \in flags' THEN signal' ELSE NoLevel) \in QualitiesOf(link)
<1>3. Delivered
  <2>1. CASE link = NoNetwork /\ UNCHANGED <<flags, signal>>
    BY <1>1, <2>1 DEF QualitiesOf, TypeOK
  <2>2. ASSUME link \in Networks, NEW level \in Levels[link], level = NoLevel,
               UNCHANGED <<flags, signal>>
        PROVE  Delivered
    BY <1>1, <2>2, ReportedQuality DEF TypeOK
  <2>3. ASSUME link \in Networks, NEW level \in Levels[link], level # NoLevel,
               flags' = flags \cup {"signal"},
               signal' = nl80211_xbm_to_percent(level)
        PROVE  Delivered
    BY <2>3, ReportedQuality
  <2> QED
    BY <1>2, <2>1, <2>2, <2>3
<1>4. TypeOK'
  BY <1>1, <1>3 DEF TypeOK, Links
<1>5. HistoryIsKept'
  BY <1>1 DEF HistoryIsKept
<1>6. ScanIsOfTheLink'
  BY <1>1, <1>3 DEF ScanIsOfTheLink, ScanFound
<1>7. StationIsOfTheLink'
  BY <1>1, <1>3 DEF StationIsOfTheLink, QualitiesOf
<1>8. NameIsOfTheScan' /\ StableLinkIsShown'
  BY <1>1 DEF NameIsOfTheScan, StableLinkIsShown, Shown
<1> QED
  BY <1>4, <1>5, <1>6, <1>7, <1>8

\* What set_buffer shows of a dump that has listed all networks.
LEMMA SetBufferStep ==
  ASSUME IInv, SetBuffer
  PROVE  IInv'
<1> USE DEF IInv, SetBuffer, wlan, history
<1>1. /\ pc = "set" /\ pc' = "idle"
      /\ UNCHANGED <<link, listed, flags, essid, bssid, signal, scanned, linked>>
      /\ name' = IF "essid" \in flags THEN Text(essid) ELSE lb_unk
      /\ quality' = IF "signal" \in flags THEN signal ELSE NoLevel
  OBVIOUS
<1>2. TypeOK'
  BY <1>1 DEF TypeOK, Links
<1>3. HistoryIsKept' /\ ScanIsOfTheLink' /\ StationIsOfTheLink'
  BY <1>1 DEF HistoryIsKept, ScanIsOfTheLink, StationIsOfTheLink
<1>4. ASSUME NEW n \in Links, scanned = {n}
      PROVE  name' = NameOf(n)
  <2>1. ScanFound(n) /\ listed = Networks
    BY <1>1, <1>4 DEF ScanIsOfTheLink
  <2>2. CASE n = NoNetwork \/ Ssid(n) = <<>>
    BY <1>1, <2>1, <2>2, WirelessAssumption DEF ScanFound, NameOf
  <2>3. CASE n \in Networks /\ Ssid(n) # <<>>
    BY <1>1, <2>1, <2>3, CopiedReads DEF ScanFound
  <2> QED
    BY <1>4, <2>2, <2>3 DEF Links
<1>5. NameIsOfTheScan'
  BY <1>1, <1>4 DEF NameIsOfTheScan
<1>6. StableLinkIsShown'
  <2> SUFFICES ASSUME NEW n \in Links, linked = {n}
               PROVE  name' = NameOf(n) /\ quality' \in QualitiesOf(n)
    BY <1>1 DEF StableLinkIsShown
  <2>1. scanned = {n}
    BY <1>1 DEF HistoryIsKept
  <2>2. quality' \in QualitiesOf(n)
    BY <1>1 DEF StationIsOfTheLink
  <2> QED
    BY <1>4, <2>1, <2>2
<1> QED
  BY <1>2, <1>3, <1>5, <1>6

-----------------------------------------------------------------------------
(* The environment, and the theorems.                                      *)

\* Another link makes the histories larger: they name one network no more, or
\* the round is over and they stay.
LEMMA LinkChangesStep ==
  ASSUME IInv, LinkChanges
  PROVE  IInv'
BY DEF IInv, LinkChanges, wlan, tokens, TypeOK, Links, HistoryIsKept, ScanIsOfTheLink,
       ScanFound, StationIsOfTheLink, NameIsOfTheScan, StableLinkIsShown, Shown

LEMMA NextIInv == IInv /\ [Next]_vars => IInv'
<1> SUFFICES ASSUME IInv, [Next]_vars PROVE IInv'
  OBVIOUS
<1>1. CASE Fail
  BY <1>1 DEF Fail, IInv, wlan, tokens, history, TypeOK, HistoryIsKept, ScanIsOfTheLink,
              StationIsOfTheLink, NameIsOfTheScan, StableLinkIsShown, Shown
<1>2. CASE UNCHANGED vars
  BY <1>2 DEF IInv, vars, wlan, tokens, history, TypeOK, HistoryIsKept, ScanIsOfTheLink,
              ScanFound, StationIsOfTheLink, NameIsOfTheScan, StableLinkIsShown, Shown
<1>3. CASE \E n \in Networks : ScanReply(n)
  BY <1>3, ScanReplyStep
<1> QED
  BY <1>1, <1>2, <1>3, StartRoundStep, ScanDoneStep, StationReplyStep, SetBufferStep,
     LinkChangesStep
  DEF Next, Exited

\* The inductive invariant: what the dumps have found up to here is of the link,
\* as long as that has not changed.
THEOREM IInvHolds == Spec => []IInv
BY InitIInv, NextIInv, PTL DEF Spec

\* Nothing of an earlier round, of an earlier network or of the order of the
\* dump is in the name that is shown, if the link stayed for the dump.
THEOREM NameIsOfTheScanHolds == Spec => []NameIsOfTheScan
<1>1. IInv => NameIsOfTheScan
  BY DEF IInv
<1> QED
  BY <1>1, IInvHolds, PTL

\* Name and percentage are those of the network, if the link stayed.
THEOREM StableLinkIsShownHolds == Spec => []StableLinkIsShown
<1>1. IInv => StableLinkIsShown
  BY DEF IInv
<1> QED
  BY <1>1, IInvHolds, PTL

=============================================================================
