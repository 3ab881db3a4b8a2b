-------------------------------- MODULE Wireless --------------------------------
(***************************************************************************)
(* The wireless module (src/src/wireless.c): a round asks the kernel for   *)
(* the list of access points, then for the signal of the station, in two   *)
(* netlink dumps.  The interface may connect, disconnect and roam between  *)
(* any two messages of a dump, and between the dumps.                      *)
(*                                                                         *)
(* The callbacks run on the routine's own thread, one for every message.   *)
(* A message that has no use for the module is skipped; of those only the  *)
(* access points without the status of a connection are kept here.         *)
(***************************************************************************)
EXTENDS TokenBuffer

CONSTANTS
  Networks,  \* the access points in reach
  Elements,  \* the information elements of each
  Levels,    \* the signals, in dBm, that the station of each may report
  NoNetwork, \* not a network: the interface is not connected
  NoLevel,   \* not a level: the driver does not report the signal
  lb_unk,    \* wlan->lb_unk, the label of an unknown SSID
  Characters \* what an SSID is made of

WLAN_EID_SSID == 0
NOISE_FLOOR_DBM == -90
SIGNAL_MAX_DBM == -20

ASSUME WirelessAssumption ==
  /\ NoNetwork \notin Networks
  /\ NoLevel \notin Int
  /\ Levels \in [Networks -> SUBSET (Int \cup {NoLevel})]
  /\ \A n \in Networks : Levels[n] # {}

VARIABLES
  link,      \* the network that the interface is connected to, or NoNetwork
  pc,        \* where run_wireless is
  listed,    \* the networks that the first dump has listed
  flags,     \* wlan->flags
  essid,     \* wlan->essid
  bssid,     \* wlan->bssid; NoNetwork is the address of zeroes
  signal,    \* wlan->signal
  name,      \* the text of tokens[0]
  quality,   \* the number in tokens[1]; NoLevel is "--%"
  scanned,   \* history: the links that there were during the first dump,
  linked     \* and during the round

wlan == <<flags, essid, bssid, signal>>
tokens == <<name, quality>>
history == <<scanned, linked>>
vars == <<link, pc, listed, wlan, tokens, history>>

Links == Networks \cup {NoNetwork}

-----------------------------------------------------------------------------
(* What the callbacks take from a message.                                 *)

\* nl80211_xbm_to_percent, from 30 to 100.  It computes with float, and
\* truncates: at -56 dBm 100 - 70 * (36 / 70) is 63.999996.
nl80211_xbm_to_percent(dbm) ==
  LET xbm == IF dbm > SIGNAL_MAX_DBM THEN SIGNAL_MAX_DBM
             ELSE IF dbm < NOISE_FLOOR_DBM THEN NOISE_FLOOR_DBM ELSE dbm
  IN  IF xbm = -56 THEN 63 ELSE 100 + xbm - SIGNAL_MAX_DBM

\* find_ssid: the first element of that kind.
find_ssid(ies) ==
  LET ssids == {k \in DOMAIN ies : ies[k].id = WLAN_EID_SSID}
  IN  IF ssids = {} THEN <<>> ELSE ies[CHOOSE k \in ssids : \A l \in ssids : k <= l].data

Ssid(n) == find_ssid(Elements[n])

ASSUME SsidAssumption ==
  /\ NUL \notin Characters
  /\ \A n \in Networks : Ssid(n) \in Seq(Characters)

\* The copies of resolve_essid, which leave what is behind them.
Copied(buf, ssid) ==
  [k \in Cells |-> IF Len(ssid) > TBUFFER_MAX_SIZE /\ k = TBUFFER_MAX_SIZE THEN "."
                   ELSE IF k <= Len(ssid) THEN ssid[k] ELSE buf[k]]

\* resolve_essid: a hidden network has an SSID without characters.
resolve_essid(n) ==
  IF Ssid(n) = <<>> THEN UNCHANGED <<flags, essid>>
  ELSE /\ flags' = flags \cup {"essid"}
       /\ essid' = Copied(essid, Ssid(n))

-----------------------------------------------------------------------------
(* run_wireless.                                                           *)

\* init_wireless, after it has found the interface.
Init ==
  /\ link \in Links
  /\ pc = "idle"
  /\ listed = {}
  /\ flags = {}
  /\ essid = Zeroed
  /\ bssid = NoNetwork
  /\ signal = 0
  /\ name = <<>>
  /\ quality = NoLevel
  /\ scanned = {}
  /\ linked = {}

FlagsKept(old) == old  \* a mutation: the flags are not reset

\* wlan->flags = 0
FlagsReset(old) == {}

EssidKept(old) == old  \* a mutation: the buffer is not cleared

\* v_memset(wlan->essid, 0, TBUFFER_MAX_SIZE)
EssidReset(old) == Zeroed

\* send_for_scan sends its request.
StartRound ==
  /\ pc = "idle"
  /\ pc' = "scan"
  /\ listed' = {}
  /\ flags' = FlagsReset(flags)
  /\ essid' = EssidReset(essid)
  /\ bssid' = NoNetwork
  /\ signal' = 0
  /\ scanned' = {link}
  /\ linked' = {link}
  /\ UNCHANGED <<link, tokens>>

IsListedAny(n) == TRUE  \* a mutation: the status is not looked at

\* The status that the kernel gives to an access point of the dump, and that
\* nl_scan_cb asks for.
IsAssociated(n) == link = n

\* nl_scan_cb, for the message about one access point.
ScanReply(n) ==
  /\ pc = "scan"
  /\ n \notin listed
  /\ listed' = listed \cup {n}
  /\ IF IsAssociated(n) THEN bssid' = n /\ resolve_essid(n)
     ELSE UNCHANGED <<bssid, flags, essid>>
  /\ UNCHANGED <<link, pc, signal, tokens, history>>

\* The end of the first dump; send_for_station sends its request.
ScanDone ==
  /\ pc = "scan"
  /\ listed = Networks
  /\ pc' = "station"
  /\ UNCHANGED <<link, listed, wlan, tokens, history>>

\* The second dump: the kernel lists the stations of the interface, which for
\* a client is the access point that it is connected to now; it does not look
\* at the address that the request gives.  nl_station_cb gets a message if
\* there is one, whose signal may be missing.
StationReply ==
  /\ pc = "station"
  /\ pc' = "set"
  /\ \/ /\ link = NoNetwork
        /\ UNCHANGED <<flags, signal>>
     \/ /\ link # NoNetwork
        /\ \E level \in Levels[link] :
             IF level = NoLevel THEN UNCHANGED <<flags, signal>>
             ELSE /\ flags' = flags \cup {"signal"}
                  /\ signal' = nl80211_xbm_to_percent(level)
  /\ UNCHANGED <<link, listed, essid, bssid, tokens, history>>

\* An error of either exchange, or a dump that was interrupted because the
\* list of access points changed meanwhile: the program ends.
Fail ==
  /\ pc \in {"scan", "station"}
  /\ pc' = "exit"
  /\ UNCHANGED <<link, listed, wlan, tokens, history>>

\* set_buffer.  The cell behind essid, which set_token_buffer reads when the
\* SSID fills it, is a byte of padding that main zeroed.
SetBuffer ==
  /\ pc = "set"
  /\ pc' = "idle"
  /\ name' = IF "essid" \in flags THEN Text(essid) ELSE lb_unk
  /\ quality' = IF "signal" \in flags THEN signal ELSE NoLevel
  /\ UNCHANGED <<link, listed, wlan, history>>

\* The interface, at any time.
LinkChanges ==
  /\ link' \in Links \ {link}
  /\ scanned' = IF pc = "scan" THEN scanned \cup {link'} ELSE scanned
  /\ linked' = IF pc = "idle" THEN linked ELSE linked \cup {link'}
  /\ UNCHANGED <<pc, listed, wlan, tokens>>

Exited ==
  /\ pc = "exit"
  /\ UNCHANGED vars

Next ==
  \/ StartRound \/ (\E n \in Networks : ScanReply(n)) \/ ScanDone
  \/ StationReply \/ SetBuffer
  \/ Fail \/ LinkChanges \/ Exited

Spec == Init /\ [][Next]_vars

-----------------------------------------------------------------------------
(* Properties.                                                             *)

Shown == pc = "idle" /\ linked # {}

\* What should be shown for a link.
NameOf(n) ==
  IF n = NoNetwork \/ Ssid(n) = <<>> THEN lb_unk
  ELSE IF Len(Ssid(n)) <= TBUFFER_MAX_SIZE THEN Ssid(n)
  ELSE Append(SubSeq(Ssid(n), 1, TBUFFER_MAX_SIZE - 1), ".")

QualitiesOf(n) ==
  IF n = NoNetwork THEN {NoLevel}
  ELSE {IF l = NoLevel THEN NoLevel ELSE nl80211_xbm_to_percent(l) : l \in Levels[n]}

\* The name is that of the network that the interface was connected to, if it
\* was the same for all of the first dump: nothing of an earlier round is left
\* in it, in a shorter name least of all, wherever the interface roamed before
\* and roams to afterwards, and in whatever order the kernel lists.
NameIsOfTheScan ==
  Shown => \A n \in Links : scanned = {n} => name = NameOf(n)

\* Name and percentage are of the same network if the interface stayed there
\* for the round; without a connection there is neither.
StableLinkIsShown ==
  Shown => \A n \in Links : linked = {n} => name = NameOf(n) /\ quality \in QualitiesOf(n)

-----------------------------------------------------------------------------
(* The inductive invariant behind the theorems of WirelessProofs.          *)

TypeOK ==
  /\ link \in Links
  /\ pc \in {"idle", "scan", "station", "set", "exit"}
  /\ listed \subseteq Networks
  /\ flags \subseteq {"essid", "signal"}
  /\ DOMAIN essid = Cells
  /\ bssid \in Links
  /\ signal \in {0} \cup 30..100
  /\ "signal" \in flags => signal # 0
  /\ quality \in {NoLevel} \cup 30..100
  /\ scanned \subseteq Links
  /\ linked \subseteq Links

\* The links of the first dump are links of the round, and the present link is
\* among them as long as it counts.
HistoryIsKept ==
  /\ pc = "scan" => link \in scanned /\ scanned = linked
  /\ pc \in {"station", "set"} => link \in linked /\ scanned # {}
  /\ scanned \subseteq linked

\* What the first dump has found of a link that does not change.
ScanFound(n) ==
  IF n \in listed /\ Ssid(n) # <<>>
  THEN "essid" \in flags /\ essid = Copied(Zeroed, Ssid(n))
  ELSE "essid" \notin flags /\ essid = Zeroed

ScanIsOfTheLink ==
  /\ pc \in {"scan", "station", "set"} => \A n \in Links : scanned = {n} => ScanFound(n)
  /\ pc \in {"station", "set"} => listed = Networks

\* Likewise for the second one.
StationIsOfTheLink ==
  /\ pc \in {"scan", "station"} => "signal" \notin flags
  /\ pc = "set" => \A n \in Links : linked = {n} =>
       (IF "signal" \in flags THEN signal ELSE NoLevel) \in QualitiesOf(n)

IInv == /\ TypeOK /\ HistoryIsKept /\ ScanIsOfTheLink /\ StationIsOfTheLink
        /\ NameIsOfTheScan /\ StableLinkIsShown

=============================================================================
