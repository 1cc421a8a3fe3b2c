----------------------------- MODULE WifiStation -----------------------------
(***************************************************************************)
(* How the router stays in the WiFi network: the event handler joins again *)
(* when the network is lost (esp32_nat_router.c), and consoles and web     *)
(* pages that scan for networks stop it from doing so for a while          *)
(* (cmd_router.c, http_server.c).  They share ap_connect and               *)
(* wifi_scan_active without a lock, so every read or write of these that   *)
(* another task may come before is a step of its own.                      *)
(*                                                                         *)
(* External: the WiFi driver, which joins, loses the network, scans, and   *)
(* reports all that through the queue of the event loop.  What else the    *)
(* handler does (tunnel, mappings, notices) is in Uplink or left out.      *)
(***************************************************************************)
EXTENDS Naturals, Sequences

CONSTANTS
  Consoles,    \* the serial and the remote console, whose commands run side by side
  Web,         \* the task of the web server, one request after the other
  MaxEvents,   \* bound on joins, losses and restarts
  MaxEdits     \* bound on scans and page loads

ASSUME StationAssumption == MaxEvents \in Nat /\ MaxEdits \in Nat

Admins == Consoles \cup {Web}

VARIABLES
  sta,              \* the station: "idle", "joining" or "up"
  scanning,         \* the driver scans
  events,           \* the event loop's queue; its head is handled, then removed
  handler,          \* the event task: "idle", or about to "retry"
  pc,               \* where an administrator's task stands
  ap_connect, wifi_scan_active,
  \* history, for the properties
  happened, edits,  \* what the bounds count
  scan_page         \* the page /scan: "never" seen, "open", or "left"

shared == <<ap_connect, wifi_scan_active>>
vars == <<sta, scanning, events, handler, pc, shared, happened, edits, scan_page>>
-----------------------------------------------------------------------------
Goto(a, l) == pc' = [pc EXCEPT ![a] = l]
Post(e) == events' = Append(events, e)

esp_wifi_connect == sta' = IF sta = "idle" THEN "joining" ELSE sta

BootPc == [a \in Admins |-> "idle"]

Init ==
  /\ sta = "idle" /\ scanning = FALSE /\ events = <<"start">>
  /\ handler = "idle" /\ pc = BootPc
  /\ ap_connect = FALSE /\ wifi_scan_active = FALSE
  /\ happened = 0 /\ edits = 0 /\ scan_page = "never"

\* Power loss or reset: nothing of this is stored.
Restart ==
  /\ happened < MaxEvents /\ happened' = happened + 1
  /\ sta' = "idle" /\ scanning' = FALSE /\ events' = <<"start">>
  /\ handler' = "idle" /\ pc' = BootPc
  /\ ap_connect' = FALSE /\ wifi_scan_active' = FALSE
  /\ scan_page' = "never" /\ UNCHANGED edits
-----------------------------------------------------------------------------
(* The driver *)

DriverOnly == UNCHANGED <<handler, pc, shared, edits, scan_page>>
Happens == happened < MaxEvents /\ happened' = happened + 1

\* The station joins and gets a lease, or renews it.
Lease ==
  /\ Happens /\ sta \in {"joining", "up"}
  /\ sta' = "up" /\ Post("got_ip")
  /\ DriverOnly /\ UNCHANGED scanning

\* The network is lost, or joining it fails.
LinkLost ==
  /\ Happens /\ sta \in {"joining", "up"}
  /\ sta' = "idle" /\ Post("lost")
  /\ DriverOnly /\ UNCHANGED scanning

ScanEnds ==
  /\ scanning /\ scanning' = FALSE /\ Post("scan_done")
  /\ DriverOnly /\ UNCHANGED <<sta, happened>>

Driver == Lease \/ LinkLost \/ ScanEnds
-----------------------------------------------------------------------------
(* wifi_event_handler *)

HandlerOnly == UNCHANGED <<scanning, pc, happened, edits, scan_page>>
Dispatch(e) == handler = "idle" /\ events # <<>> /\ Head(events) = e
Return == events' = Tail(events) /\ handler' = "idle"

Start ==
  /\ Dispatch("start") /\ Return /\ esp_wifi_connect
  /\ HandlerOnly /\ UNCHANGED shared

Lost ==
  /\ Dispatch("lost") /\ handler' = "retry"
  /\ ap_connect' = FALSE
  /\ HandlerOnly /\ UNCHANGED <<sta, events, wifi_scan_active>>

\* The station joins again, unless somebody scans.
Retry ==
  /\ handler = "retry" /\ Return
  /\ IF wifi_scan_active THEN UNCHANGED sta ELSE esp_wifi_connect
  /\ HandlerOnly /\ UNCHANGED shared

ScanDone ==
  /\ Dispatch("scan_done") /\ Return
  /\ wifi_scan_active' = FALSE
  /\ HandlerOnly /\ UNCHANGED <<sta, ap_connect>>

GotIP ==
  /\ Dispatch("got_ip") /\ Return
  /\ ap_connect' = TRUE
  /\ HandlerOnly /\ UNCHANGED <<sta, wifi_scan_active>>

EventTask == Start \/ Lost \/ Retry \/ ScanDone \/ GotIP
-----------------------------------------------------------------------------
(* Administrators: scan_cmd at a console *)

Begin(a) == pc[a] = "idle" /\ edits < MaxEdits /\ edits' = edits + 1
Continue(a, l) == pc[a] = l /\ UNCHANGED <<edits, scan_page>>
AdminOnly == UNCHANGED <<handler, ap_connect, happened>>

\* Scanning stops the attempts to join, if the router is offline.
ScanCmd(a) ==
  /\ Begin(a)
  /\ Goto(a, IF ap_connect THEN "scan" ELSE "suppress")
  /\ AdminOnly /\ UNCHANGED <<sta, scanning, events, wifi_scan_active, scan_page>>

Suppress(a) ==
  /\ Continue(a, "suppress")
  /\ wifi_scan_active' = TRUE
  /\ Goto(a, "abort")
  /\ AdminOnly /\ UNCHANGED <<sta, scanning, events>>

\* esp_wifi_disconnect
Abort(a) ==
  /\ Continue(a, "abort")
  /\ sta' = "idle"
  /\ IF sta = "idle" THEN UNCHANGED events ELSE Post("lost")
  /\ Goto(a, "scan")
  /\ AdminOnly /\ UNCHANGED <<scanning, wifi_scan_active>>

\* esp_wifi_scan_start, which may fail: while the station joins it always does.
Started == sta # "joining" /\ ~scanning /\ scanning' = TRUE
NotStarted == UNCHANGED scanning

\* Fault: a scan that does not start returns at once, the attempts to join stay stopped.
ScanStart_EarlyReturn(a) ==
  /\ Continue(a, "scan")
  /\ \/ Started /\ Goto(a, "results")
     \/ NotStarted /\ Goto(a, "idle")
  /\ AdminOnly /\ UNCHANGED <<sta, events, wifi_scan_active>>

\* The console waits for the end of its scan.
ScanStart(a) ==
  /\ Continue(a, "scan")
  /\ \/ Started /\ Goto(a, "results")
     \/ NotStarted /\ Goto(a, "unscan")
  /\ AdminOnly /\ UNCHANGED <<sta, events, wifi_scan_active>>

Results(a) ==
  /\ Continue(a, "results") /\ ~scanning
  /\ Goto(a, "unscan")
  /\ AdminOnly /\ UNCHANGED <<sta, scanning, events, wifi_scan_active>>

Unscan(a) ==
  /\ Continue(a, "unscan")
  /\ wifi_scan_active' = FALSE
  /\ Goto(a, "resume")
  /\ AdminOnly /\ UNCHANGED <<sta, scanning, events>>

Resume(a) ==
  /\ Continue(a, "resume")
  /\ IF ap_connect THEN UNCHANGED sta ELSE esp_wifi_connect
  /\ Goto(a, "idle")
  /\ AdminOnly /\ UNCHANGED <<scanning, events, wifi_scan_active>>
-----------------------------------------------------------------------------
(* scan_get_handler and resume_sta_if_scan_idle in the web server *)

\* The scan page is loaded, or loads itself again.
ScanPage(a) ==
  /\ Begin(a)
  /\ scan_page' = "open"
  /\ Goto(a, IF ap_connect THEN "page_look" ELSE "page_suppress")
  /\ AdminOnly /\ UNCHANGED <<sta, scanning, events, wifi_scan_active>>

\* It looks twice: before it reads the results of the last scan, and after.
PageLook(a) ==
  /\ Continue(a, "page_look")
  /\ Goto(a, IF ap_connect THEN "page_scan" ELSE "page_flag")
  /\ AdminOnly /\ UNCHANGED <<sta, scanning, events, wifi_scan_active>>

PageFlag(a) ==
  /\ \/ Continue(a, "page_suppress") /\ Goto(a, "page_look")
     \/ Continue(a, "page_flag") /\ Goto(a, "page_scan")
  /\ wifi_scan_active' = TRUE
  /\ AdminOnly /\ UNCHANGED <<sta, scanning, events>>

\* The page does not wait for the end of its scan.
PageScan(a) ==
  /\ Continue(a, "page_scan")
  /\ Started \/ NotStarted
  /\ Goto(a, "idle")
  /\ AdminOnly /\ UNCHANGED <<sta, events, wifi_scan_active>>

\* Any other page takes up the attempts to join that a scan stopped.
OtherPage(a) ==
  /\ Begin(a)
  /\ Goto(a, IF wifi_scan_active THEN "unscan" ELSE "idle")
  /\ scan_page' = IF scan_page = "open" THEN "left" ELSE scan_page
  /\ AdminOnly /\ UNCHANGED <<sta, scanning, events, wifi_scan_active>>

Console(a) ==
  \/ ScanCmd(a) \/ Suppress(a) \/ Abort(a) \/ ScanStart(a) \/ Results(a)
  \/ Unscan(a) \/ Resume(a)

Pages ==
  \/ ScanPage(Web) \/ PageLook(Web) \/ PageFlag(Web) \/ PageScan(Web)
  \/ OtherPage(Web) \/ Unscan(Web) \/ Resume(Web)
-----------------------------------------------------------------------------
Next == Driver \/ EventTask \/ (\E a \in Consoles : Console(a)) \/ Pages \/ Restart

Spec == Init /\ [][Next]_vars
-----------------------------------------------------------------------------
Events == {"start", "lost", "scan_done", "got_ip"}
\* Where a scan at the console may stand before and when it resumes the joining.
Scanning == {"abort", "scan", "results", "unscan"}
Labels == Scanning \cup {"idle", "suppress", "resume", "page_suppress", "page_look",
                         "page_flag", "page_scan"}

(* The variables have their types; the event handler is in the middle of an event
   only when that event is a loss of the network. *)
TypeOK ==
  /\ sta \in {"idle", "joining", "up"} /\ scanning \in BOOLEAN
  /\ events \in Seq(Events) /\ handler \in {"idle", "retry"}
  /\ pc \in [Admins -> Labels]
  /\ ap_connect \in BOOLEAN /\ wifi_scan_active \in BOOLEAN
  /\ happened \in 0 .. MaxEvents /\ edits \in 0 .. MaxEdits
  /\ scan_page \in {"never", "open", "left"}
  /\ handler = "retry" => events # <<>> /\ Head(events) = "lost"

\* Everything is handled, and no administrator is in the middle of something.
Settled == events = <<>> /\ \A a \in Admins : pc[a] = "idle"

(* A router whose scan page was never opened does not stay offline without trying: when
   all is handled, the station is joined or joining, however the scans at the consoles
   and other pages came between the loss of the network and the handler of it
   (esp32_nat_router.c:396, cmd_router.c:3611). *)
KeepsTrying == Settled /\ scan_page = "never" => sta # "idle"
=============================================================================
