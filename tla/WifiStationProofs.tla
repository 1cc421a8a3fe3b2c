-------------------------- MODULE WifiStationProofs --------------------------
(***************************************************************************)
(* The station never stays offline without trying, for any number of       *)
(* consoles that scan and any bounds.  The argument: as long as the queue  *)
(* holds a loss that is not handled, its handler will join again or find a *)
(* scan under way (Suppressed); and an idle station with no such event in  *)
(* the queue has a scan under way that will find ap_connect false when it  *)
(* ends (Answered), because the event of a lease that would make           *)
(* ap_connect true has a loss behind it in the queue (Outlived).           *)
(***************************************************************************)
EXTENDS WifiStation, TLAPS

Resuming == Scanning \cup {"resume"}

\* While an event of loss is handled, the router knows that it is offline.
Offline == handler = "retry" => ~ap_connect

\* Only the scan page leaves its marks in the program of the web server.
NoPage == scan_page = "never" =>
            pc[Web] \notin {"page_suppress", "page_look", "page_flag", "page_scan"}

\* The attempts to join are stopped by a scan that will go on to resume them.
Suppressed ==
  scan_page = "never" /\ wifi_scan_active => \E a \in Admins : pc[a] \in Scanning

\* Behind the lease of a network that was lost comes the loss.
Followed(q) == \A i \in 1 .. Len(q) : q[i] = "got_ip" =>
                 \E j \in i + 1 .. Len(q) : q[j] = "lost"
Outlived == sta # "up" => Followed(events)

\* The queue holds an event whose handler joins.
Joins(q) == \E i \in 1 .. Len(q) : q[i] \in {"start", "lost"}

Answered ==
  scan_page = "never" /\ sta = "idle" =>
    Joins(events) \/ (~ap_connect /\ \E a \in Admins : pc[a] \in Resuming)

IInv == TypeOK /\ Offline /\ NoPage /\ Suppressed /\ Outlived /\ Answered
-----------------------------------------------------------------------------
(* Queues *)

\* What posting an event does to a queue.
LEMMA Posted ==
  ASSUME NEW q \in Seq(Events), NEW e \in Events
  PROVE  /\ Append(q, e) \in Seq(Events)
         /\ Len(q) \in Nat /\ Len(Append(q, e)) = Len(q) + 1
         /\ \A i \in 1 .. Len(q) : Append(q, e)[i] = q[i]
         /\ Append(q, e)[Len(q) + 1] = e
         /\ q # <<>> => Append(q, e) # <<>> /\ Head(Append(q, e)) = Head(q)
  OBVIOUS

\* What the return of a handler does to a queue.
LEMMA Removed ==
  ASSUME NEW q \in Seq(Events), q # <<>>
  PROVE  /\ Tail(q) \in Seq(Events)
         /\ Len(q) \in Nat \ {0} /\ Len(Tail(q)) = Len(q) - 1
         /\ \A i \in 1 .. Len(Tail(q)) : Tail(q)[i] = q[i + 1]
         /\ Head(q) = q[1]
  OBVIOUS
LEMMA JoinsPosted ==
  ASSUME NEW q \in Seq(Events), NEW e \in Events
  PROVE  /\ Joins(q) => Joins(Append(q, e))
         /\ e = "lost" => Joins(Append(q, e))
<1>1. Joins(q) => Joins(Append(q, e))
  BY Posted DEF Joins
<1>2. e = "lost" => Joins(Append(q, e))
  <2>1. Len(q) + 1 \in 1 .. Len(Append(q, e))
    BY Posted
  <2> QED BY <2>1, Posted DEF Joins
<1> QED BY <1>1, <1>2

LEMMA JoinsRemoved ==
  ASSUME NEW q \in Seq(Events), q # <<>>, Joins(q), Head(q) \notin {"start", "lost"}
  PROVE  Joins(Tail(q))
<1>1. PICK i \in 1 .. Len(q) : q[i] \in {"start", "lost"}
  BY DEF Joins
<1>2. i # 1 /\ i - 1 \in 1 .. Len(Tail(q))
  BY <1>1, Removed
<1>3. Tail(q)[i - 1] = q[i]
  BY <1>2, Removed
<1> QED BY <1>1, <1>2, <1>3 DEF Joins

LEMMA FollowedPosted ==
  ASSUME NEW q \in Seq(Events), NEW e \in Events
  PROVE  /\ Followed(q) /\ e # "got_ip" => Followed(Append(q, e))
         /\ e = "lost" => Followed(Append(q, e))
<1>1. Len(q) + 1 = Len(Append(q, e)) /\ Len(q) \in Nat
  BY Posted
<1>2. ASSUME Followed(q), e # "got_ip" PROVE Followed(Append(q, e))
  <2> SUFFICES ASSUME NEW i \in 1 .. Len(q) + 1, Append(q, e)[i] = "got_ip"
               PROVE  \E j \in i + 1 .. Len(q) + 1 : Append(q, e)[j] = "lost"
    BY <1>1 DEF Followed
  <2>1. i \in 1 .. Len(q) /\ q[i] = "got_ip"
    BY <1>1, <1>2, Posted
  <2>2. PICK j \in i + 1 .. Len(q) : q[j] = "lost"
    BY <1>2, <2>1 DEF Followed
  <2> QED BY <1>1, <2>2, Posted
<1>3. ASSUME e = "lost" PROVE Followed(Append(q, e))
  <2> SUFFICES ASSUME NEW i \in 1 .. Len(q) + 1, Append(q, e)[i] = "got_ip"
               PROVE  \E j \in i + 1 .. Len(q) + 1 : Append(q, e)[j] = "lost"
    BY <1>1 DEF Followed
  <2> QED BY <1>1, <1>3, Posted
<1> QED BY <1>2, <1>3

LEMMA FollowedRemoved ==
  ASSUME NEW q \in Seq(Events), q # <<>>, Followed(q)
  PROVE  /\ Followed(Tail(q))
         /\ Head(q) = "got_ip" => Joins(Tail(q))
<1>1. Len(q) \in Nat \ {0} /\ Len(Tail(q)) = Len(q) - 1
  BY Removed
<1>2. ASSUME NEW i \in 1 .. Len(Tail(q)), Tail(q)[i] = "got_ip"
      PROVE  \E j \in i + 1 .. Len(Tail(q)) : Tail(q)[j] = "lost"
  <2>1. i + 1 \in 1 .. Len(q) /\ q[i + 1] = "got_ip"
    BY <1>1, <1>2, Removed
  <2>2. PICK j \in i + 1 + 1 .. Len(q) : q[j] = "lost"
    BY <2>1 DEF Followed
  <2>3. j - 1 \in i + 1 .. Len(Tail(q)) /\ Tail(q)[j - 1] = q[j]
    BY <1>1, <2>2, Removed
  <2> QED BY <2>2, <2>3
<1>3. ASSUME Head(q) = "got_ip" PROVE Joins(Tail(q))
  <2>1. 1 \in 1 .. Len(q) /\ q[1] = "got_ip"
    BY <1>1, <1>3, Removed
  <2>2. PICK j \in 1 + 1 .. Len(q) : q[j] = "lost"
    BY <2>1 DEF Followed
  <2>3. j - 1 \in 1 .. Len(Tail(q)) /\ Tail(q)[j - 1] = q[j]
    BY <1>1, <2>2, Removed
  <2> QED BY <2>2, <2>3 DEF Joins
<1> QED BY <1>2, <1>3 DEF Followed
-----------------------------------------------------------------------------
(* The parts of the invariant *)

LEMMA TypeStep == TypeOK /\ [Next]_vars => TypeOK'
<1> SUFFICES ASSUME TypeOK, [Next]_vars PROVE TypeOK'
  OBVIOUS
<1> USE StationAssumption DEF StationAssumption
<1>1. CASE Driver
  <2>1. PICK e \in Events : events' = Append(events, e)
    BY <1>1 DEF Driver, Lease, LinkLost, ScanEnds, Post, Events
  <2>2. events' \in Seq(Events) /\ (handler' = "retry" => events' # <<>> /\ Head(events') = "lost")
    BY <1>1, <2>1, Posted DEF Driver, Lease, LinkLost, ScanEnds, DriverOnly, TypeOK
  <2>3. happened' \in 0 .. MaxEvents
    BY <1>1 DEF Driver, Lease, LinkLost, ScanEnds, Happens, TypeOK
  <2> QED BY <1>1, <2>2, <2>3 DEF Driver, Lease, LinkLost, ScanEnds, TypeOK, DriverOnly, shared
<1>2. CASE EventTask
  <2>1. events # <<>> => Tail(events) \in Seq(Events)
    BY Removed DEF TypeOK
  <2>2. events' \in Seq(Events) /\ (handler' = "retry" => events' # <<>> /\ Head(events') = "lost")
    BY <1>2, <2>1 DEF EventTask, Start, Lost, Retry, ScanDone, GotIP, TypeOK, Dispatch, Return
  <2> QED BY <1>2, <2>2 DEF EventTask, Start, Lost, Retry, ScanDone, GotIP, TypeOK,
                            HandlerOnly, Dispatch, Return, shared, esp_wifi_connect
<1>3. ASSUME NEW a \in Admins, Console(a) \/ (a = Web /\ Pages) PROVE TypeOK'
  <2>1. PICK l \in Labels : pc' = [pc EXCEPT ![a] = l]
    BY <1>3 DEF Console, ScanCmd, Suppress, Abort, ScanStart, Results, Unscan, Resume, Pages,
         ScanPage, PageLook, PageFlag, PageScan, OtherPage, Goto, Labels, Scanning
  <2>2. UNCHANGED events \/ events' = Append(events, "lost")
    BY <1>3 DEF Console, ScanCmd, Suppress, Abort, ScanStart, Results, Unscan, Resume, Pages,
         ScanPage, PageLook, PageFlag, PageScan, OtherPage, Post
  <2>3. UNCHANGED <<handler, ap_connect, happened>>
    BY <1>3 DEF Console, ScanCmd, Suppress, Abort, ScanStart, Results, Unscan, Resume, Pages,
         ScanPage, PageLook, PageFlag, PageScan, OtherPage, AdminOnly
  <2>4. events' \in Seq(Events) /\ (handler' = "retry" => events' # <<>> /\ Head(events') = "lost")
    <3>1. "lost" \in Events
      BY DEF Events
    <3> QED BY <2>2, <2>3, <3>1, Posted DEF TypeOK
  <2>5. edits' \in 0 .. MaxEdits /\ scan_page' \in {"never", "open", "left"}
    BY <1>3 DEF Console, ScanCmd, Suppress, Abort, ScanStart, Results, Unscan, Resume, Pages,
         ScanPage, PageLook, PageFlag, PageScan, OtherPage, Begin, Continue, TypeOK
  <2>6. /\ sta' \in {"idle", "joining", "up"}
        /\ scanning' \in BOOLEAN /\ wifi_scan_active' \in BOOLEAN
    BY <1>3 DEF Console, ScanCmd, Suppress, Abort, ScanStart, Results, Unscan, Resume, Pages,
         ScanPage, PageLook, PageFlag, PageScan, OtherPage, Started, NotStarted,
         esp_wifi_connect, TypeOK
  <2> QED BY <2>1, <2>3, <2>4, <2>5, <2>6 DEF TypeOK
<1>4. CASE Restart
  <2>1. <<"start">> \in Seq(Events) /\ BootPc \in [Admins -> Labels]
    BY DEF Events, BootPc, Labels
  <2>2. happened' \in 0 .. MaxEvents
    BY <1>4 DEF Restart, TypeOK
  <2>3. events' \in Seq(Events) /\ pc' \in [Admins -> Labels] /\ handler' = "idle"
    BY <1>4, <2>1 DEF Restart
  <2> QED BY <1>4, <2>2, <2>3 DEF Restart, TypeOK
<1>5. CASE UNCHANGED vars
  BY <1>5 DEF vars, shared, TypeOK
<1> QED BY <1>1, <1>2, <1>3, <1>4, <1>5 DEF Next, Admins

\* Every step of an administrator, for the parts that the others do not disturb.
LEMMA OfflineStep == TypeOK /\ Offline /\ [Next]_vars => Offline'
  BY DEF TypeOK, Offline, Next, vars, shared, Driver, Lease, LinkLost, ScanEnds, DriverOnly,
     EventTask, Start, Lost, Retry, ScanDone, GotIP, HandlerOnly, Dispatch, Return,
     Console, ScanCmd, Suppress, Abort, ScanStart, Results, Unscan, Resume, AdminOnly,
     Pages, ScanPage, PageLook, PageFlag, PageScan, OtherPage, Restart

LEMMA NoPageStep == TypeOK /\ NoPage /\ [Next]_vars => NoPage'
<1> SUFFICES ASSUME TypeOK, NoPage, [Next]_vars PROVE NoPage'
  OBVIOUS
<1>1. CASE Driver \/ EventTask \/ UNCHANGED vars
  BY <1>1 DEF NoPage, vars, Driver, Lease, LinkLost, ScanEnds, DriverOnly, EventTask, Start,
     Lost, Retry, ScanDone, GotIP, HandlerOnly
<1>2. ASSUME NEW a \in Consoles, Console(a) PROVE NoPage'
  BY <1>2 DEF NoPage, TypeOK, Console, ScanCmd, Suppress, Abort, ScanStart, Results, Unscan,
     Resume, Begin, Continue, Goto, Admins
<1>3. CASE Pages
  BY <1>3 DEF NoPage, TypeOK, Pages, ScanPage, PageLook, PageFlag, PageScan, OtherPage, Unscan,
     Resume, Begin, Continue, Goto, Admins
<1>4. CASE Restart
  BY <1>4 DEF Restart, BootPc, NoPage, Admins
<1> QED BY <1>1, <1>2, <1>3, <1>4 DEF Next

\* A scan leaves Scanning only where it takes the mark away.
LEMMA SuppressedStep == TypeOK /\ NoPage /\ Suppressed /\ [Next]_vars => Suppressed'
<1> SUFFICES ASSUME TypeOK, NoPage, Suppressed, [Next]_vars PROVE Suppressed'
  OBVIOUS
<1>1. CASE Driver \/ EventTask \/ UNCHANGED vars
  BY <1>1 DEF Suppressed, vars, shared, Driver, Lease, LinkLost, ScanEnds, DriverOnly,
     EventTask, Start, Lost, Retry, ScanDone, GotIP, HandlerOnly
<1>2. ASSUME NEW a \in Admins, Console(a) \/ (a = Web /\ Pages) PROVE Suppressed'
  <2>1. CASE Suppress(a)
    BY <2>1 DEF Suppress, Goto, Suppressed, Scanning, TypeOK
  <2>2. CASE Unscan(a)
    BY <2>2 DEF Unscan, Suppressed
  <2>3. CASE a = Web /\ PageFlag(a)
    BY <2>3 DEF PageFlag, Continue, NoPage, Suppressed
  <2>4. CASE \/ ScanCmd(a) \/ Abort(a) \/ ScanStart(a) \/ Results(a) \/ Resume(a)
             \/ ScanPage(a) \/ PageLook(a) \/ PageScan(a) \/ OtherPage(a)
    <3>1. /\ UNCHANGED wifi_scan_active
          /\ scan_page' = "never" => scan_page = "never"
          /\ \E l : pc' = [pc EXCEPT ![a] = l] /\ (pc[a] \in Scanning => l \in Scanning)
      BY <2>4 DEF ScanCmd, Abort, ScanStart, Results, Resume, ScanPage, PageLook, PageScan,
         OtherPage, Begin, Continue, Goto, Scanning
    <3>2. \A b \in Admins : pc[b] \in Scanning => pc'[b] \in Scanning
      BY <3>1 DEF TypeOK
    <3> QED BY <3>1, <3>2 DEF Suppressed
  <2> QED BY <1>2, <2>1, <2>2, <2>3, <2>4 DEF Console, Pages
<1>3. CASE Restart
  BY <1>3 DEF Restart, Suppressed
<1> QED BY <1>1, <1>2, <1>3 DEF Next, Admins

LEMMA OutlivedStep == TypeOK /\ Outlived /\ [Next]_vars => Outlived'
<1> SUFFICES ASSUME TypeOK, Outlived, [Next]_vars PROVE Outlived'
  OBVIOUS
<1>0. events \in Seq(Events) /\ "lost" \in Events /\ "scan_done" \in Events
  BY DEF TypeOK, Events
<1>1. CASE Driver
  <2>1. CASE Lease
    BY <2>1 DEF Lease, Outlived
  <2>2. CASE LinkLost
    BY <1>0, <2>2, FollowedPosted DEF LinkLost, Post, Outlived
  <2>3. CASE ScanEnds
    BY <1>0, <2>3, FollowedPosted DEF ScanEnds, Post, Outlived
  <2> QED BY <1>1, <2>1, <2>2, <2>3 DEF Driver
<1>2. CASE EventTask
  <2>1. /\ sta' # "up" => sta # "up"
        /\ UNCHANGED events \/ (events # <<>> /\ events' = Tail(events))
    BY <1>2 DEF EventTask, Start, Lost, Retry, ScanDone, GotIP, Dispatch, Return,
       esp_wifi_connect, TypeOK
  <2> QED BY <1>0, <2>1, FollowedRemoved DEF Outlived
<1>3. ASSUME NEW a \in Admins, Console(a) \/ (a = Web /\ Pages) PROVE Outlived'
  <2>1. CASE Abort(a)
    BY <1>0, <2>1, FollowedPosted DEF Abort, Post, Outlived
  <2>2. CASE ~Abort(a)
    <3>1. UNCHANGED events /\ (sta' # "up" => sta # "up")
      BY <1>3, <2>2 DEF Console, ScanCmd, Suppress, ScanStart, Results, Unscan, Resume, Pages,
         ScanPage, PageLook, PageFlag, PageScan, OtherPage, esp_wifi_connect, TypeOK
    <3> QED BY <3>1 DEF Outlived
  <2> QED BY <2>1, <2>2
<1>4. CASE Restart
  BY <1>4 DEF Restart, Outlived, Followed
<1>5. CASE UNCHANGED vars
  BY <1>5 DEF vars, Outlived
<1> QED BY <1>1, <1>2, <1>3, <1>4, <1>5 DEF Next, Admins

LEMMA AnsweredStep == IInv /\ [Next]_vars => Answered'
<1> SUFFICES ASSUME IInv, [Next]_vars, scan_page' = "never", sta' = "idle"
             PROVE  \/ Joins(events')
                    \/ ~ap_connect' /\ \E a \in Admins : pc'[a] \in Resuming
  BY DEF Answered, Joins
<1>0. events \in Seq(Events) /\ "lost" \in Events /\ "scan_done" \in Events
  BY DEF IInv, TypeOK, Events
<1>1. CASE Driver
  <2>1. CASE Lease
    BY <2>1 DEF Lease
  <2>2. CASE LinkLost
    BY <1>0, <2>2, JoinsPosted DEF LinkLost, Post
  <2>3. CASE ScanEnds
    BY <1>0, <2>3, JoinsPosted DEF ScanEnds, Post, DriverOnly, shared, IInv, Answered
  <2> QED BY <1>1, <2>1, <2>2, <2>3 DEF Driver
<1>2. CASE EventTask
  <2>1. CASE Start
    BY <2>1 DEF Start, esp_wifi_connect
  <2>2. CASE Lost
    BY <2>2 DEF Lost, HandlerOnly, IInv, Answered
  <2>3. CASE Retry
    <3>1. wifi_scan_active /\ scan_page = "never" /\ UNCHANGED <<pc, ap_connect>>
      BY <2>3 DEF Retry, HandlerOnly, shared, esp_wifi_connect
    <3>2. ~ap_connect
      BY <2>3 DEF Retry, IInv, Offline
    <3>3. \E a \in Admins : pc[a] \in Scanning
      BY <3>1 DEF IInv, Suppressed
    <3> QED BY <3>1, <3>2, <3>3 DEF Resuming
  <2>4. CASE ScanDone
    <3>1. Joins(events) => Joins(Tail(events))
      BY <1>0, <2>4, JoinsRemoved DEF ScanDone, Dispatch
    <3> QED BY <2>4, <3>1 DEF ScanDone, Return, HandlerOnly, IInv, Answered
  <2>5. CASE GotIP
    <3>1. Followed(events) /\ events # <<>> /\ Head(events) = "got_ip" /\ events' = Tail(events)
      BY <2>5 DEF GotIP, Dispatch, Return, IInv, Outlived
    <3> QED BY <1>0, <3>1, FollowedRemoved
  <2> QED BY <1>2, <2>1, <2>2, <2>3, <2>4, <2>5 DEF EventTask
<1>3. ASSUME NEW a \in Admins, Console(a) \/ (a = Web /\ Pages)
      PROVE  Joins(events') \/ (~ap_connect' /\ \E b \in Admins : pc'[b] \in Resuming)
  <2>1. UNCHANGED ap_connect /\ scan_page = "never"
    BY <1>3 DEF Console, ScanCmd, Suppress, Abort, ScanStart, Results, Unscan, Resume, Pages,
       ScanPage, PageLook, PageFlag, PageScan, OtherPage, AdminOnly, Begin, Continue
  <2>2. CASE Resume(a)
    <3>1. ap_connect /\ sta = "idle" /\ UNCHANGED events
      BY <2>2 DEF Resume, esp_wifi_connect
    <3> QED BY <2>1, <3>1 DEF IInv, Answered
  <2>3. CASE Abort(a) /\ sta # "idle"
    BY <1>0, <2>3, JoinsPosted DEF Abort, Post
  <2>4. CASE ~Resume(a) /\ ~(Abort(a) /\ sta # "idle")
    <3>1. UNCHANGED <<sta, events>>
      BY <1>3, <2>4 DEF Console, ScanCmd, Suppress, Abort, ScanStart, Results, Unscan, Pages,
         ScanPage, PageLook, PageFlag, PageScan, OtherPage
    <3>2. \E l : pc' = [pc EXCEPT ![a] = l] /\ (pc[a] \in Resuming => l \in Resuming)
      BY <1>3, <2>4 DEF Console, ScanCmd, Suppress, Abort, ScanStart, Results, Unscan, Pages,
         ScanPage, PageLook, PageFlag, PageScan, OtherPage, Begin, Continue, Goto, Resuming,
         Scanning
    <3>3. \A b \in Admins : pc[b] \in Resuming => pc'[b] \in Resuming
      BY <3>2 DEF IInv, TypeOK
    <3> QED BY <2>1, <3>1, <3>3 DEF IInv, Answered
  <2> QED BY <2>2, <2>3, <2>4
<1>4. CASE Restart
  BY <1>4 DEF Restart, Joins
<1>5. CASE UNCHANGED vars
  BY <1>5 DEF vars, shared, IInv, Answered
<1> QED BY <1>1, <1>2, <1>3, <1>4, <1>5 DEF Next, Admins
-----------------------------------------------------------------------------
LEMMA Initial == Init => IInv
<1> SUFFICES ASSUME Init PROVE IInv
  OBVIOUS
<1>1. TypeOK
  <2>1. <<"start">> \in Seq(Events) /\ BootPc \in [Admins -> Labels]
    BY DEF Events, BootPc, Labels
  <2>2. 0 \in 0 .. MaxEvents /\ 0 \in 0 .. MaxEdits
    BY StationAssumption DEF StationAssumption
  <2> QED BY <2>1, <2>2 DEF Init, TypeOK
<1>2. Joins(events) /\ Followed(events)
  BY DEF Init, Joins, Followed
<1>3. Offline /\ NoPage /\ Suppressed
  BY DEF Init, Offline, NoPage, Suppressed, BootPc, Admins
<1> QED BY <1>1, <1>2, <1>3 DEF IInv, Outlived, Answered

LEMMA Inductive == IInv /\ [Next]_vars => IInv'
  BY TypeStep, OfflineStep, NoPageStep, SuppressedStep, OutlivedStep, AnsweredStep DEF IInv

THEOREM Invariance == Spec => []IInv
  BY Initial, Inductive, PTL DEF Spec

(* The station module is type correct for any number of consoles. *)
THEOREM StationTypes == Spec => []TypeOK
<1>1. IInv => TypeOK
  BY DEF IInv
<1> QED BY <1>1, Invariance, PTL

(* For any number of consoles that scan at any moment, a router whose scan page was never
   opened is joined or joining once everything is handled (esp32_nat_router.c:396,
   cmd_router.c:3611). *)
THEOREM AlwaysKeepsTrying == Spec => []KeepsTrying
<1>1. IInv => KeepsTrying
  <2> SUFFICES ASSUME IInv, Settled, scan_page = "never", sta = "idle" PROVE FALSE
    BY DEF KeepsTrying
  <2>1. ~Joins(events)
    BY DEF Settled, Joins
  <2>2. \A a \in Admins : pc[a] \notin Resuming
    BY DEF Settled, Resuming, Scanning
  <2> QED BY <2>1, <2>2 DEF IInv, Answered
<1> QED BY <1>1, Invariance, PTL
=============================================================================
