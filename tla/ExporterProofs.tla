--------------------------- MODULE ExporterProofs ---------------------------
(***************************************************************************)
(* The two exporters that other tasks feed and reconfigure: NetFlow and    *)
(* syslog.                                                                 *)
(*                                                                         *)
(* A flow is never split, never sent twice and never lost to another while *)
(* a staler one is in its place, for any table, any window, any hash and   *)
(* any number of hooks, with restarts and settings calls at any point.     *)
(* The locking of the syslog client protects the line buffers and the      *)
(* sender's queue for any number of tasks that log, connect, enable and    *)
(* disable at once, and leaves the client running exactly if it is         *)
(* enabled, with stops that time out and restarts anywhere.                *)
(***************************************************************************)
EXTENDS NetFlow, SyslogClient, TLAPS
-----------------------------------------------------------------------------
(* The flow table *)

Entries == [active : {TRUE}, key : Keys, idle : Nat, age : Nat, sent : BOOLEAN]

TableType == table = NULL \/ table \in [Slots -> Entries \cup {Free}]
HookType ==
  hook \in [Dirs -> {[pc |-> "idle"]} \cup [pc : {"try", "count"}, key : Keys]]

\* Every flow lies in the window of its key, where the search looks for it.
InWindow == \A i \in Slots : Active(i) => i \in Window(table[i].key)

TableInv == TableType /\ HookType /\ InWindow /\ OneFlowPerKey

\* Where the export task and the settings call may stand with each other and with
\* the table.
Exclusion ==
  /\ call = NoCall \/ call \in [pc : CallPCs \ {"none"}, dirs : SUBSET Dirs]
  /\ call.pc \in {"en_set", "en_save", "en_open"} => table # NULL
  /\ call.pc \in {"dis_take", "dis_free"} => task = "none"
  /\ task # "none" => table # NULL
  /\ listed \subseteq Slots /\ unsent \subseteq listed
  /\ task \notin {"batch", "send", "clear_take", "clear"} => unsent = {}

\* A flow that was sent is on the list of a sweep that will clear it, unless a
\* disable took the task away and is about to free the table.
SentListed ==
  \A i \in Slots : Active(i) /\ table[i].sent =>
    \/ task \in {"send", "clear_take", "clear"} /\ i \in listed /\ i \notin unsent
    \/ call.pc \in {"dis_take", "dis_free"}

FlowInv == TableInv /\ Exclusion /\ SentListed

LEMMA ProbeInSlots == ASSUME NEW key \in Keys, NEW n \in Probes PROVE Probe(key, n) \in Slots
  BY NetFlowAssumption DEF Probe, Probes, Slots

LEMMA FunctionsAreTables == ASSUME NEW f, DOMAIN f = Slots PROVE f # NULL
  <1>1. 0 \in Slots
    BY NetFlowAssumption DEF Slots
  <1>2. DOMAIN NULL = {}
    BY DEF NULL
  <1>3. QED
    BY <1>1, <1>2

LEMMA EmptyIsTable == Empty # NULL
  BY FunctionsAreTables DEF Empty

LEMMA EmptyTable == Empty \in [Slots -> Entries \cup {Free}] /\ \A i \in Slots : ~Empty[i].active
  BY DEF Empty, Free

LEMMA BootTableInv == ASSUME NEW allocated \in BOOLEAN, Boot(allocated) PROVE TableInv'
  <1>1. table' = Empty \/ table' = NULL
    BY DEF Boot
  <1>2. HookType'
    BY DEF Boot, HookType, IdleHooks
  <1>3. \A i \in Slots : ~Active(i)'
    BY <1>1, EmptyTable DEF Active
  <1>4. QED
    BY <1>1, <1>2, <1>3, EmptyTable DEF TableInv, TableType, InWindow, OneFlowPerKey

\* A flow put into a slot of its window keeps the invariant if no slot of the
\* window holds its key.
LEMMA FreshTableInv ==
  ASSUME TableInv, table # NULL, NEW key \in Keys, NEW n \in Probes,
         \A i \in Window(key) : ~Holds(i, key),
         table' = [table EXCEPT ![Probe(key, n)] = Fresh(key)], HookType'
  PROVE  TableInv'
  <1> DEFINE s == Probe(key, n)
  <1>1. s \in Slots /\ s \in Window(key)
    BY ProbeInSlots DEF Window
  <1>2. Fresh(key) \in Entries /\ Fresh(key).key = key
    BY DEF Fresh, Entries
  <1>3. table \in [Slots -> Entries \cup {Free}]
    BY DEF TableInv, TableType
  <1>4. table' \in [Slots -> Entries \cup {Free}] /\ table'[s] = Fresh(key)
        /\ \A i \in Slots \ {s} : table'[i] = table[i]
    BY <1>1, <1>2, <1>3
  <1>5. InWindow'
    <2>1. ASSUME NEW i \in Slots, Active(i)' PROVE i \in Window(table[i].key)'
      <3>1. CASE i = s
        BY <3>1, <1>1, <1>2, <1>4 DEF Window
      <3>2. CASE i # s
        BY <2>1, <3>2, <1>4 DEF TableInv, InWindow, Active, Window
      <3>3. QED
        BY <3>1, <3>2
    <2>2. QED
      BY <2>1 DEF InWindow
  <1>6. ASSUME NEW i \in Slots, i # s, table[i].active PROVE table[i].key # key
    BY <1>6 DEF TableInv, InWindow, Active, Holds
  <1>7. OneFlowPerKey'
    BY <1>2, <1>4, <1>6 DEF TableInv, OneFlowPerKey, Active
  <1>8. QED
    BY <1>4, <1>5, <1>7 DEF TableInv, TableType

\* A step that changes neither key nor presence of any flow keeps the invariant.
LEMMA SameFlowsTableInv ==
  ASSUME TableInv, HookType', TableType',
         \A i \in Slots : Active(i)' => Active(i) /\ table'[i].key = table[i].key
  PROVE  TableInv'
  BY DEF TableInv, InWindow, OneFlowPerKey, Window

LEMMA CountTableInv == ASSUME TableInv, NEW d \in Dirs, Count(d) PROVE TableInv'
  <1> DEFINE key == hook[d].key
  <1>1. key \in Keys /\ HookType'
    BY DEF TableInv, HookType, Count
  <1>2. table # NULL /\ table \in [Slots -> Entries \cup {Free}]
    BY DEF TableInv, TableType, Count
  <1>3. CASE Match(key)
    <2>1. PICK n \in Probes : Holds(Probe(key, n), key)
                              /\ table' = [table EXCEPT ![Probe(key, n)].idle = 0]
      BY <1>3 DEF Match
    <2>2. Probe(key, n) \in Slots /\ table[Probe(key, n)] \in Entries
      BY <1>1, <1>2, <2>1, ProbeInSlots DEF Holds, Free
    <2> DEFINE e == [table[Probe(key, n)] EXCEPT !.idle = 0]
    <2>3. e \in Entries /\ e.key = table[Probe(key, n)].key
      BY <2>2 DEF Entries
    <2>4. table' = [table EXCEPT ![Probe(key, n)] = e]
      BY <2>1
    <2> HIDE DEF e
    <2>5. table' \in [Slots -> Entries \cup {Free}]
          /\ \A i \in Slots : table'[i] = IF i = Probe(key, n) THEN e ELSE table[i]
      BY <2>2, <2>3, <2>4, <1>2
    <2>6. \A i \in Slots : Active(i)' => Active(i) /\ table'[i].key = table[i].key
      BY <1>2, <2>1, <2>3, <2>5 DEF Active, Holds
    <2>7. QED
      BY <1>1, <2>5, <2>6, SameFlowsTableInv DEF TableType
  <1>4. CASE ~Match(key)
    <2>1. \A i \in Window(key) : ~Holds(i, key)
      BY <1>4 DEF Count, flow_find_or_create
    <2>2. PICK n \in Probes : table' = [table EXCEPT ![Probe(key, n)] = Fresh(key)]
      BY <1>4 DEF Count, flow_find_or_create, Claim, Evict
    <2>3. QED
      BY <1>1, <1>2, <2>1, <2>2, FreshTableInv
  <1>5. QED
    BY <1>3, <1>4

LEMMA SendTableInv ==
  ASSUME TableInv, table # NULL, unsent \subseteq Slots, Send PROVE TableInv'
  <1>1. HookType'
    BY DEF TableInv, HookType, Send
  <1>2. PICK i \in unsent :
          table' = IF table[i].active THEN [table EXCEPT ![i].sent = TRUE] ELSE table
    BY DEF Send
  <1>3. table \in [Slots -> Entries \cup {Free}] /\ i \in Slots
    BY <1>2 DEF TableInv, TableType
  <1>4. CASE ~table[i].active
    <2>1. table' = table
      BY <1>2, <1>4
    <2>2. QED
      BY <1>1, <2>1, SameFlowsTableInv DEF TableInv, TableType, Active
  <1>5. CASE table[i].active
    <2>1. table[i] \in Entries
      BY <1>3, <1>5 DEF Free
    <2> DEFINE e == [table[i] EXCEPT !.sent = TRUE]
    <2>2. e \in Entries /\ e.key = table[i].key
      BY <2>1 DEF Entries
    <2>3. table' = [table EXCEPT ![i] = e]
      BY <1>2, <1>5
    <2> HIDE DEF e
    <2>4. table' \in [Slots -> Entries \cup {Free}]
          /\ \A j \in Slots : table'[j] = IF j = i THEN e ELSE table[j]
      BY <1>3, <2>2, <2>3
    <2>5. \A j \in Slots : Active(j)' => Active(j) /\ table'[j].key = table[j].key
      BY <1>3, <1>5, <2>2, <2>4 DEF Active
    <2>6. QED
      BY <1>1, <2>4, <2>5, SameFlowsTableInv DEF TableType
  <1>6. QED
    BY <1>4, <1>5

LEMMA TickTableInv == ASSUME TableInv, Tick PROVE TableInv'
  <1>1. HookType'
    BY DEF TableInv, HookType, Tick
  <1>2. table # NULL /\ table \in [Slots -> Entries \cup {Free}]
    BY DEF TableInv, TableType, Tick
  <1> DEFINE Older(f) == [f EXCEPT !.idle = @ + 1, !.age = @ + 1]
  <1>3. ASSUME NEW f \in Entries PROVE Older(f) \in Entries /\ Older(f).key = f.key
    <2>1. f.idle + 1 \in Nat /\ f.age + 1 \in Nat
      BY DEF Entries
    <2> DEFINE x == f.idle + 1
               y == f.age + 1
    <2> HIDE DEF x, y
    <2>2. [f EXCEPT !.idle = x, !.age = y] \in Entries
          /\ [f EXCEPT !.idle = x, !.age = y].key = f.key
      BY <2>1 DEF Entries, x, y
    <2>3. QED
      BY <2>2 DEF x, y, Older
  <1>4. table' = [i \in Slots |-> IF table[i].active THEN Older(table[i]) ELSE table[i]]
    BY DEF Tick
  <1> HIDE DEF Older
  <1>5. ASSUME NEW i \in Slots PROVE table[i].active => table[i] \in Entries
    BY <1>2 DEF Free
  <1>6. table' \in [Slots -> Entries \cup {Free}]
    BY <1>2, <1>3, <1>4, <1>5
  <1>7. \A i \in Slots : Active(i)' => Active(i) /\ table'[i].key = table[i].key
    BY <1>2, <1>3, <1>4, <1>5 DEF Active
  <1>8. QED
    BY <1>1, <1>6, <1>7, SameFlowsTableInv DEF TableType

LEMMA ClearTableInv == ASSUME TableInv, table # NULL, Clear PROVE TableInv'
  <1>1. HookType'
    BY DEF TableInv, HookType, Clear
  <1>2. table # NULL /\ table \in [Slots -> Entries \cup {Free}]
    BY DEF TableInv, TableType, Clear
  <1>3. table' = [i \in Slots |-> IF i \in listed THEN Free ELSE table[i]] /\ ~Free.active
    BY DEF Clear, Free
  <1>4. table' \in [Slots -> Entries \cup {Free}]
    BY <1>2, <1>3
  <1>5. \A i \in Slots : Active(i)' => Active(i) /\ table'[i].key = table[i].key
    BY <1>2, <1>3 DEF Active
  <1>6. QED
    BY <1>1, <1>4, <1>5, SameFlowsTableInv DEF TableType

LEMMA CountKeepsTable == ASSUME TableInv, NEW d \in Dirs, Count(d) PROVE table' # NULL
  <1>1. DOMAIN table = Slots
    BY DEF Count, TableInv, TableType
  <1>2. DOMAIN table' = DOMAIN table
    BY DEF Count, flow_find_or_create, Match, Claim, Evict
  <1>3. QED
    BY <1>1, <1>2, FunctionsAreTables

LEMMA InitFlowInv == Init => FlowInv
  <1> SUFFICES ASSUME Init PROVE FlowInv
    OBVIOUS
  <1>1. TableInv
    BY DEF Init, TableInv, TableType, HookType, IdleHooks, InWindow, OneFlowPerKey, Active
  <1>2. Exclusion /\ SentListed
    BY DEF Init, Exclusion, SentListed, Active, NoCall
  <1>3. QED
    BY <1>1, <1>2 DEF FlowInv

\* What every step leaves of the flow table.
LEMMA NextTableInv == FlowInv /\ [Next]_vars => TableInv'
  <1> SUFFICES ASSUME FlowInv, [Next]_vars PROVE TableInv'
    OBVIOUS
  <1> USE DEF FlowInv
  <1>1. ASSUME table' = table \/ table' = Empty \/ table' = NULL, HookType'
        PROVE  TableInv'
    <2>1. CASE table' = table
      BY <1>1, <2>1, SameFlowsTableInv DEF TableInv, TableType, Active
    <2>2. CASE table' = Empty \/ table' = NULL
      <3>1. \A i \in Slots : ~Active(i)'
        BY <2>2, EmptyTable DEF Active
      <3>2. QED
        BY <1>1, <2>2, <3>1, EmptyTable DEF TableInv, TableType, InWindow, OneFlowPerKey
    <2>3. QED
      BY <1>1, <2>1, <2>2
  <1>2. ASSUME NEW d \in Dirs, NEW key \in Keys, Account(d, key) PROVE TableInv'
    <2>1. HookType'
      BY <1>2 DEF Account, TableInv, HookType
    <2>2. QED
      BY <1>1, <1>2, <2>1 DEF Account
  <1>3. ASSUME NEW d \in Dirs, TryMutex(d) PROVE TableInv'
    <2>1. HookType'
      BY <1>3 DEF TryMutex, TableInv, HookType
    <2>2. QED
      BY <1>1, <1>3, <2>1 DEF TryMutex
  <1>4. ASSUME NEW d \in Dirs, Count(d) PROVE TableInv'
    BY <1>4, CountTableInv
  <1>5. ASSUME NEW allocated \in BOOLEAN, Boot(allocated) PROVE TableInv'
    BY <1>5, BootTableInv
  <1>6. CASE Tick
    BY <1>6, TickTableInv
  <1>7. CASE Send
    BY <1>7, SendTableInv DEF Exclusion, Send
  <1>8. CASE Clear
    BY <1>8, ClearTableInv DEF Exclusion, Clear
  <1>9. CASE UNCHANGED vars \/ NotifyConnected \/ DisableStop \/ Show
    BY <1>1, <1>9 DEF vars, NotifyConnected, DisableStop, Show, TableInv, HookType
  <1>10. CASE Wake \/ CollectTake \/ Collect \/ Batch \/ ClearTake
    BY <1>1, <1>10 DEF Wake, CollectTake, Collect, Batch, ClearTake, Take, TableInv,
       HookType
  <1>11. CASE CallStep
    BY <1>1, <1>11 DEF CallStep, EnableAlloc, EnableTake, EnableMemset, EnableSet,
       EnableSave, EnableOpen, Save, DisableClose, DisableDelete, DisableTake, DisableFree,
       ShowTake, ShowGive, TableInv, HookType
  <1>12. CASE \/ \E dirs \in SUBSET Dirs : EnableClose(dirs) \/ SetDirections(dirs)
              \/ \E new \in Limits : SetTimeouts(new)
    BY <1>1, <1>12 DEF EnableClose, SetDirections, SetTimeouts, TableInv, HookType
  <1>13. QED
    BY <1>2, <1>3, <1>4, <1>5, <1>6, <1>7, <1>8, <1>9, <1>10, <1>11, <1>12
       DEF Next, HookStep, CountFreed, Restart, ExportStep

LEMMA NextExclusion == FlowInv /\ [Next]_vars => Exclusion'
  <1> SUFFICES ASSUME FlowInv, [Next]_vars PROVE Exclusion'
    OBVIOUS
  <1> USE DEF FlowInv, Exclusion, CallPCs, NoCall
  <1>1. ASSUME UNCHANGED call, UNCHANGED exporter, table # NULL => table' # NULL
        PROVE  Exclusion'
    BY <1>1 DEF exporter
  <1>2. ASSUME NEW d \in Dirs, NEW key \in Keys, Account(d, key) PROVE Exclusion'
    BY <1>1, <1>2 DEF Account
  <1>3. ASSUME NEW d \in Dirs, TryMutex(d) PROVE Exclusion'
    BY <1>1, <1>3 DEF TryMutex
  <1>4. ASSUME NEW d \in Dirs, Count(d) PROVE Exclusion'
    BY <1>1, <1>4, CountKeepsTable DEF Count
  <1>5. ASSUME NEW allocated \in BOOLEAN, Boot(allocated) PROVE Exclusion'
    BY <1>5, EmptyIsTable DEF Boot
  <1>6. CASE Tick
    <2>1. table' \in [Slots -> {table'[i] : i \in Slots}]
      BY <1>6 DEF Tick
    <2>2. QED
      BY <1>1, <1>6, <2>1, FunctionsAreTables DEF Tick
  <1>7. CASE Send
    <2>1. table' # NULL
      BY <1>7, FunctionsAreTables DEF Send, TableInv, TableType
    <2>2. QED
      BY <1>7, <2>1 DEF Send
  <1>8. CASE Clear
    <2>1. table' # NULL
      BY <1>8, FunctionsAreTables DEF Clear
    <2>2. QED
      BY <1>8, <2>1 DEF Clear
  <1>9. CASE UNCHANGED vars \/ NotifyConnected
    BY <1>1, <1>9 DEF vars, NotifyConnected
  <1>10. CASE Wake \/ CollectTake \/ Collect \/ Batch \/ ClearTake
    BY <1>10 DEF Wake, CollectTake, Collect, Batch, ClearTake, Take
  <1>11. CASE EnableAlloc \/ EnableTake \/ EnableMemset \/ EnableSet \/ EnableSave
         \/ EnableOpen
    BY <1>11, EmptyIsTable DEF EnableAlloc, EnableTake, EnableMemset, EnableSet, EnableSave,
       EnableOpen, Step, End, exporter
  <1>12. CASE Save \/ DisableClose \/ DisableDelete \/ DisableTake \/ DisableFree
    BY <1>12 DEF Save, DisableClose, DisableDelete, DisableTake, DisableFree, Step, End,
       exporter
  <1>13. CASE ShowTake \/ ShowGive \/ Show \/ DisableStop
    BY <1>13 DEF ShowTake, ShowGive, Show, DisableStop, Begin, Step, End, exporter
  <1>14. ASSUME NEW dirs \in SUBSET Dirs, EnableClose(dirs) \/ SetDirections(dirs)
         PROVE  Exclusion'
    BY <1>14 DEF EnableClose, SetDirections, Begin, exporter
  <1>15. ASSUME NEW new \in Limits, SetTimeouts(new) PROVE Exclusion'
    BY <1>15 DEF SetTimeouts, Begin, exporter
  <1>16. QED
    BY <1>2, <1>3, <1>4, <1>5, <1>6, <1>7, <1>8, <1>9, <1>10, <1>11, <1>12, <1>13, <1>14, <1>15
       DEF Next, HookStep, CountFreed, Restart, ExportStep, CallStep

\* Sent flows are found by the sweep that sent them: a step that marks no flow
\* and takes neither list nor task away keeps SentListed.
LEMMA NoNewSent ==
  ASSUME SentListed, UNCHANGED <<call, exporter>>,
         \A i \in Slots : Active(i)' /\ table'[i].sent => Active(i) /\ table[i].sent
  PROVE  SentListed'
  BY DEF SentListed, exporter

LEMMA CountMarksNothing ==
  ASSUME TableInv, NEW d \in Dirs, Count(d), NEW i \in Slots, Active(i)', table'[i].sent
  PROVE  Active(i) /\ table[i].sent
  <1> DEFINE key == hook[d].key
  <1>1. key \in Keys /\ table # NULL /\ table \in [Slots -> Entries \cup {Free}]
    BY DEF TableInv, TableType, HookType, Count
  <1>2. CASE Match(key)
    <2>1. PICK n \in Probes : Holds(Probe(key, n), key)
                              /\ table' = [table EXCEPT ![Probe(key, n)].idle = 0]
      BY <1>2 DEF Match
    <2>2. Probe(key, n) \in Slots /\ table[Probe(key, n)] \in Entries
      BY <1>1, <2>1, ProbeInSlots DEF Holds, Free
    <2>3. [table[Probe(key, n)] EXCEPT !.idle = 0].sent = table[Probe(key, n)].sent
      BY <2>2 DEF Entries
    <2>4. QED
      BY <1>1, <2>1, <2>2, <2>3 DEF Active, Holds
  <1>3. CASE ~Match(key)
    <2>1. PICK n \in Probes : table' = [table EXCEPT ![Probe(key, n)] = Fresh(key)]
      BY <1>3 DEF Count, flow_find_or_create, Claim, Evict
    <2>2. i # Probe(key, n)
      BY <1>1, <2>1, ProbeInSlots DEF Fresh
    <2>3. QED
      BY <1>1, <2>1, <2>2 DEF Active
  <1>4. QED
    BY <1>2, <1>3

LEMMA NextSentListed == FlowInv /\ [Next]_vars => SentListed'
  <1> SUFFICES ASSUME FlowInv, [Next]_vars PROVE SentListed'
    OBVIOUS
  <1> USE DEF FlowInv, CallPCs, NoCall
  <1>1. ASSUME table' = Empty \/ table' = NULL PROVE SentListed'
    BY <1>1, EmptyTable DEF SentListed, Active
  <1>2. ASSUME NEW d \in Dirs, NEW key \in Keys, Account(d, key) PROVE SentListed'
    BY <1>2, NoNewSent DEF Account, Active
  <1>3. ASSUME NEW d \in Dirs, TryMutex(d) PROVE SentListed'
    BY <1>3, NoNewSent DEF TryMutex, Active
  <1>4. ASSUME NEW d \in Dirs, Count(d) PROVE SentListed'
    <2>1. UNCHANGED <<call, exporter>>
      BY <1>4 DEF Count
    <2>2. \A i \in Slots : Active(i)' /\ table'[i].sent => Active(i) /\ table[i].sent
      BY <1>4, CountMarksNothing
    <2>3. QED
      BY <2>1, <2>2, NoNewSent
  <1>5. ASSUME NEW allocated \in BOOLEAN, Boot(allocated) PROVE SentListed'
    BY <1>1, <1>5 DEF Boot
  <1>6. CASE Tick
    <2>1. table # NULL /\ table \in [Slots -> Entries \cup {Free}]
      BY <1>6 DEF Tick, TableInv, TableType
    <2>2. ASSUME NEW i \in Slots, table'[i].active, table'[i].sent
          PROVE  table[i].active /\ table[i].sent
      <3>1. CASE table[i].active
        <4>1. table[i] \in Entries
          BY <2>1, <3>1 DEF Free
        <4>2. [table[i] EXCEPT !.idle = table[i].idle + 1, !.age = table[i].age + 1].sent
              = table[i].sent
          BY <4>1 DEF Entries
        <4>3. QED
          BY <1>6, <2>2, <3>1, <4>2 DEF Tick
      <3>2. CASE ~table[i].active
        BY <1>6, <2>2, <3>2 DEF Tick
      <3>3. QED
        BY <3>1, <3>2
    <2>3. UNCHANGED <<call, exporter>>
      BY <1>6 DEF Tick
    <2>4. QED
      BY <2>1, <2>2, <2>3, NoNewSent DEF Active
  <1>7. CASE Send
    <2>1. PICK s \in unsent :
            /\ unsent' = unsent \ {s}
            /\ table' = IF table[s].active THEN [table EXCEPT ![s].sent = TRUE] ELSE table
      BY <1>7 DEF Send
    <2>2. table # NULL /\ table \in [Slots -> Entries \cup {Free}] /\ s \in Slots /\ s \in listed
      BY <1>7, <2>1 DEF Send, TableInv, TableType, Exclusion
    <2>3. task' \in {"send", "clear_take"} /\ task = "send" /\ UNCHANGED <<listed, call>>
      BY <1>7 DEF Send
    <2>4. ASSUME NEW i \in Slots, i # s, Active(i)', table'[i].sent
          PROVE  (i \in listed /\ i \notin unsent) \/ call.pc \in {"dis_take", "dis_free"}
      <3>1. Active(i) /\ table[i].sent
        BY <2>1, <2>2, <2>4 DEF Active
      <3>2. QED
        BY <3>1 DEF SentListed
    <2>5. QED
      BY <2>1, <2>2, <2>3, <2>4 DEF SentListed
  <1>8. CASE Clear
    <2>1. table # NULL /\ UNCHANGED call
      BY <1>8 DEF Clear, Exclusion
    <2>2. ASSUME NEW i \in Slots, Active(i)', table'[i].sent
          PROVE  Active(i) /\ table[i].sent /\ i \notin listed
      BY <1>8, <2>1, <2>2 DEF Clear, Active, Free
    <2>3. QED
      BY <2>1, <2>2 DEF SentListed
  <1>9. CASE UNCHANGED vars \/ NotifyConnected
    BY <1>9, NoNewSent DEF vars, NotifyConnected, Active, exporter
  <1>10. CASE Wake \/ CollectTake \/ Collect \/ Batch \/ ClearTake
    <2>1. table' = table /\ call' = call
      BY <1>10 DEF Wake, CollectTake, Collect, Batch, ClearTake, Take
    <2>2. CASE task \in {"sleep", "collect_take", "collect", "batch"}
      BY <2>1, <2>2 DEF SentListed, Active
    <2>3. CASE task = "clear_take"
      BY <1>10, <2>1, <2>3 DEF Wake, CollectTake, Collect, Batch, ClearTake, Take,
         SentListed, Active
    <2>4. QED
      BY <1>10, <2>2, <2>3 DEF Wake, CollectTake, Collect, Batch, ClearTake, Take
  <1>11. CASE EnableAlloc \/ EnableTake \/ EnableMemset \/ EnableSet \/ EnableSave
    BY <1>1, <1>11 DEF EnableAlloc, EnableTake, EnableMemset, EnableSet, EnableSave, Step,
       End, exporter, SentListed, Exclusion, Active
  <1>12. CASE EnableOpen
    BY <1>12 DEF EnableOpen, End, SentListed, Exclusion, Active
  <1>13. CASE Save \/ DisableClose \/ DisableDelete \/ DisableTake \/ DisableFree
    BY <1>1, <1>13 DEF Save, DisableClose, DisableDelete, DisableTake, DisableFree, Step,
       End, exporter, SentListed, Exclusion, Active
  <1>14. CASE ShowTake \/ ShowGive \/ Show \/ DisableStop
    BY <1>14 DEF ShowTake, ShowGive, Show, DisableStop, Begin, Step, End, exporter,
       SentListed, Exclusion, Active
  <1>15. ASSUME NEW dirs \in SUBSET Dirs, EnableClose(dirs) \/ SetDirections(dirs)
         PROVE  SentListed'
    BY <1>15 DEF EnableClose, SetDirections, Begin, exporter, SentListed, Active
  <1>16. ASSUME NEW new \in Limits, SetTimeouts(new) PROVE SentListed'
    BY <1>16 DEF SetTimeouts, Begin, exporter, SentListed, Active
  <1>17. QED
    BY <1>2, <1>3, <1>4, <1>5, <1>6, <1>7, <1>8, <1>9, <1>10, <1>11, <1>12, <1>13, <1>14,
       <1>15, <1>16 DEF Next, HookStep, CountFreed, Restart, ExportStep, CallStep

LEMMA FlowInvariance == Spec => []FlowInv
  <1>1. FlowInv /\ [Next]_vars => FlowInv'
    BY NextTableInv, NextExclusion, NextSentListed DEF FlowInv
  <1>2. QED
    BY <1>1, InitFlowInv, PTL DEF Spec

\* However many keys share a window and whatever gaps the exports leave in it, no
\* two slots ever hold flows of one key (flow_find_or_create).
THEOREM FlowsNeverSplit == Spec => []OneFlowPerKey
  <1>1. FlowInv => OneFlowPerKey
    BY DEF FlowInv, TableInv
  <1>2. QED
    BY <1>1, FlowInvariance, PTL

\* The export task never runs without a flow table, whatever calls and restarts
\* come in between (netflow_enable, netflow_disable).
THEOREM TaskAlwaysHasTable == Spec => []TaskHasTable
  <1>1. FlowInv => TaskHasTable
    BY DEF FlowInv, Exclusion, TaskHasTable
  <1>2. QED
    BY <1>1, FlowInvariance, PTL

\* No flow that has been sent is ever read for sending again before it is cleared
\* (sweep_and_export).
THEOREM FlowsSentOnce == Spec => []SentOnce
  <1>1. FlowInv => SentOnce
    <2> SUFFICES ASSUME FlowInv, NEW i \in unsent, Active(i), table[i].sent PROVE FALSE
      BY DEF SentOnce
    <2>1. i \in Slots /\ task # "none"
      BY DEF FlowInv, Exclusion
    <2>2. call.pc \notin {"dis_take", "dis_free"}
      BY <2>1 DEF FlowInv, Exclusion
    <2>3. QED
      BY <2>1, <2>2 DEF FlowInv, SentListed
  <1>2. QED
    BY <1>1, FlowInvariance, PTL

\* What one packet does to the flow of a slot: it keeps its key, or the slot was free,
\* or it was the one in the window that had been silent longest.
LEMMA CountReplaces ==
  ASSUME TableInv, NEW d \in Dirs, Count(d),
         NEW i \in Slots, table[i].active, table'[i].key # table[i].key
  PROVE  \A j \in Window(hook[d].key) : table[j].active /\ table[j].idle <= table[i].idle
  <1> DEFINE key == hook[d].key
  <1>1. key \in Keys /\ table \in [Slots -> Entries \cup {Free}]
    BY DEF TableInv, TableType, HookType, Count
  <1>2. ~Match(key)
    <2> SUFFICES ASSUME Match(key) PROVE FALSE
      OBVIOUS
    <2>1. PICK n \in Probes : Holds(Probe(key, n), key)
                              /\ table' = [table EXCEPT ![Probe(key, n)].idle = 0]
      BY DEF Match
    <2>2. Probe(key, n) \in Slots /\ table[Probe(key, n)] \in Entries
      BY <1>1, <2>1, ProbeInSlots DEF Holds, Free
    <2>3. [table[Probe(key, n)] EXCEPT !.idle = 0].key = table[Probe(key, n)].key
      BY <2>2 DEF Entries
    <2>4. QED
      BY <1>1, <2>1, <2>2, <2>3
  <1>3. Claim(key) \/ Evict(key)
    BY <1>2 DEF Count, flow_find_or_create
  <1>4. ASSUME NEW n \in Probes, table' = [table EXCEPT ![Probe(key, n)] = Fresh(key)]
        PROVE  i = Probe(key, n)
    BY <1>1, <1>4
  <1>5. ~Claim(key)
    BY <1>4 DEF Claim
  <1>6. QED
    BY <1>3, <1>4, <1>5 DEF Evict, Window

\* A flow is lost to another only if every slot its packet could have taken holds a
\* flow, and none of them has been silent longer (flow_find_or_create).
THEOREM AlwaysStalestEvicted == Spec => StalestEvicted
  <1> DEFINE Stalest ==
        \A d \in Dirs : Count(d) =>
          \A i \in Slots :
            (table[i].active /\ table'[i].active /\ table'[i].key # table[i].key) =>
              \A j \in Window(hook[d].key) : table[j].active /\ table[j].idle <= table[i].idle
  <1>1. FlowInv => Stalest
    BY CountReplaces DEF FlowInv
  <1>2. FlowInv /\ [Next]_vars => [Stalest]_vars
    BY <1>1
  <1>3. QED
    BY <1>2, FlowInvariance, PTL DEF Spec, StalestEvicted
-----------------------------------------------------------------------------
(* The syslog client *)

Tasks == Callers \cup Loggers

\* Where a caller stands with s_mutex in its hand, and where the hook stands with
\* s_fmt_mutex in its hand.
Locked == {"start", "start_task", "pill", "wait", "delete", "fmt", "close"}
Formatting == {"format", "post", "give"}

Types ==
  /\ pc \in [Tasks -> CallerLabels \cup HookLabels]
  /\ Nobody \notin Tasks /\ Absent \notin Tasks /\ Nobody # Absent
  /\ Callers \cap Loggers = {}

\* The two mutexes are held by whoever stands behind them.
Holders ==
  /\ \A t \in Callers : pc[t] \in Locked => s_mutex = t
  /\ \A l \in Loggers : pc[l] \in Formatting => s_fmt_mutex = l

\* What the sender can rely on.
QueueKept ==
  /\ sender # "none" => s_queue
  /\ \A t \in Callers : pc[t] = "start_task" => s_queue
  /\ \A t \in Callers : pc[t] = "delete" => sender = "none"

LockInv == Types /\ Holders /\ QueueKept /\ BuffersHeld

LEMMA InitLockInv == SyslogInit => LockInv
  BY TaskAssumption DEF SyslogInit, LockInv, Types, Holders, QueueKept, BuffersHeld, Tasks,
     BootPc, Locked, Formatting, CallerLabels, HookLabels, Nobody, Absent

\* What a step of the hook leaves alone.
LEMMA HookLockInv ==
  ASSUME LockInv, NEW l \in Loggers, Log(l) \/ TryLock(l) \/ Format(l) \/ Post(l) \/ Give(l)
  PROVE  LockInv'
  <1> USE DEF LockInv, Types, Holders, QueueKept, BuffersHeld, Tasks, Locked, Formatting,
     CallerLabels, HookLabels, Goto
  <1>1. CASE Log(l)
    BY <1>1 DEF Log, format, queue, socket, config
  <1>2. CASE TryLock(l)
    BY <1>2 DEF TryLock, queue, socket, config
  <1>3. CASE Format(l)
    BY <1>3 DEF Format, format, queue, socket, config
  <1>4. CASE Post(l)
    BY <1>4 DEF Post, format, socket, config
  <1>5. CASE Give(l)
    BY <1>5 DEF Give, queue, socket, config
  <1>6. QED
    BY <1>1, <1>2, <1>3, <1>4, <1>5

LEMMA PanicLockInv ==
  ASSUME LockInv, NEW l \in Loggers, Panic(l)
  PROVE  LockInv'
  BY DEF Panic, LockInv, Types, Holders, QueueKept, BuffersHeld, Tasks, BootPc, Locked,
     Formatting, CallerLabels, HookLabels

LEMMA SenderLockInv ==
  ASSUME LockInv, SenderStep
  PROVE  LockInv'
  <1> USE DEF LockInv, Types, Holders, QueueKept, BuffersHeld
  <1>1. CASE Receive
    BY <1>1 DEF Receive, format
  <1>2. CASE SendLine
    BY <1>2 DEF SendLine, format, queue
  <1>3. CASE SenderClose
    BY <1>3 DEF SenderClose, format, queue
  <1>4. CASE SenderClear
    BY <1>4 DEF SenderClear, format, queue
  <1>5. CASE SenderGone
    BY <1>5 DEF SenderGone, format, queue
  <1>6. QED
    BY <1>1, <1>2, <1>3, <1>4, <1>5 DEF SenderStep

LEMMA BeginLockInv ==
  ASSUME LockInv, NEW t \in Callers,
         Notify(t) \/ Enable(t) \/ Disable(t)
  PROVE  LockInv'
  <1> USE DEF LockInv, Types, Holders, QueueKept, BuffersHeld, Tasks, Locked, Formatting,
     CallerLabels, HookLabels, Goto
  <1>1. CASE Notify(t)
    BY <1>1 DEF Notify, format, queue
  <1>2. CASE Enable(t)
    BY <1>2 DEF Enable, format, queue
  <1>3. CASE Disable(t)
    BY <1>3 DEF Disable, format, queue
  <1>4. QED
    BY <1>1, <1>2, <1>3

LEMMA CallerLockInv ==
  ASSUME LockInv, NEW t \in Callers, CallerStep(t)
  PROVE  LockInv'
  <1> USE DEF LockInv, Types, Holders, QueueKept, BuffersHeld, Tasks, Locked, Formatting,
     CallerLabels, HookLabels, Goto, Done
  <1>1. CASE Connect(t)
    BY <1>1 DEF Connect, format, queue
  <1>2. CASE Resolve(t)
    BY <1>2 DEF Resolve, format, queue
  <1>3. CASE Open(t)
    BY <1>3 DEF Open, format, queue
  <1>4. CASE StartQueue(t)
    BY <1>4 DEF StartQueue, format
  <1>5. CASE StartTask(t)
    <2>1. /\ s_mutex = t /\ s_mutex' = Nobody /\ buffers' = TRUE
          /\ s_queue' = s_queue /\ s_queue
          /\ pc' = [pc EXCEPT ![t] = IF t \in Admins THEN "save" ELSE "idle"]
      BY <1>5 DEF StartTask, queue
    <2>2. \A u \in Callers : pc'[u] \notin Locked
      BY <2>1
    <2>3. \A l \in Loggers : pc'[l] = pc[l]
      BY <2>1
    <2>4. \A l \in Loggers : pc[l] \in Formatting => s_fmt_mutex' = l
      BY <1>5 DEF StartTask
    <2>5. Types' /\ Holders'
      BY <2>1, <2>2, <2>3, <2>4
    <2>6. QueueKept' /\ BuffersHeld'
      BY <2>1, <2>2
    <2>7. QED
      BY <2>5, <2>6
  <1>6. CASE SetEnabled(t)
    BY <1>6 DEF SetEnabled, format, queue
  <1>7. CASE Stop(t)
    <2>1. /\ s_mutex = Nobody /\ s_mutex' = t /\ buffers' = buffers /\ sender' = sender
          /\ s_queue' = s_queue /\ s_fmt_mutex' = s_fmt_mutex
          /\ pc' = [pc EXCEPT ![t] = IF s_queue /\ sender # "none" THEN "pill" ELSE "delete"]
      BY <1>7 DEF Stop, format, queue
    <2>2. QED
      BY <2>1
  <1>8. CASE SendPill(t)
    BY <1>8 DEF SendPill, format
  <1>9. CASE Wait(t)
    BY <1>9 DEF Wait, format, queue
  <1>10. CASE DeleteQueue(t)
    BY <1>10 DEF DeleteQueue, format
  <1>11. CASE FreeBuffers(t)
    BY <1>11 DEF FreeBuffers, queue
  <1>12. CASE CloseAtDisable(t)
    BY <1>12 DEF CloseAtDisable, format, queue
  <1>13. CASE SaveConfig(t)
    BY <1>13 DEF SaveConfig, format, queue
  <1>14. QED
    BY <1>1, <1>2, <1>3, <1>4, <1>5, <1>6, <1>7, <1>8, <1>9, <1>10, <1>11, <1>12, <1>13
    DEF CallerStep

LEMMA NextLockInv == LockInv /\ [SyslogNext]_syslog_vars => LockInv'
  <1> SUFFICES ASSUME LockInv, [SyslogNext]_syslog_vars PROVE LockInv'
    OBVIOUS
  <1>1. CASE SenderStep
    BY <1>1, SenderLockInv
  <1>2. ASSUME NEW l \in Loggers, Log(l) \/ Hook(l) PROVE LockInv'
    BY <1>2, HookLockInv, PanicLockInv DEF Hook
  <1>3. ASSUME NEW t \in Callers, CallerStep(t) PROVE LockInv'
    BY <1>3, CallerLockInv
  <1>4. ASSUME NEW t \in Connectors, Notify(t) PROVE LockInv'
    BY <1>4, BeginLockInv DEF Callers
  <1>5. ASSUME NEW a \in Admins, Enable(a) \/ Disable(a) PROVE LockInv'
    BY <1>5, BeginLockInv DEF Callers
  <1>6. CASE UNCHANGED syslog_vars
    BY <1>6 DEF syslog_vars, format, queue, LockInv, Types, Holders, QueueKept, BuffersHeld
  <1>7. QED
    BY <1>1, <1>2, <1>3, <1>4, <1>5, <1>6 DEF SyslogNext

\* For any number of tasks, the hook never formats into buffers a disable has
\* freed (stop_sender frees them under the mutex syslog_vprintf takes).
THEOREM BuffersAlwaysHeld == SyslogSpec => []BuffersHeld
  <1>1. LockInv => BuffersHeld
    BY DEF LockInv
  <1>2. QED
    BY <1>1, InitLockInv, NextLockInv, PTL DEF SyslogSpec

\* For any number of tasks, the sender's queue is never deleted under it
\* (stop_sender deletes it only after the sender has cleared its own handle, and
\* only start_sender, under the same mutex, makes another sender).
THEOREM SenderAlwaysHasQueue == SyslogSpec => []SenderHasQueue
  <1>1. LockInv => SenderHasQueue
    BY DEF LockInv, QueueKept, SenderHasQueue
  <1>2. QED
    BY <1>1, InitLockInv, NextLockInv, PTL DEF SyslogSpec
-----------------------------------------------------------------------------
(* Running or released *)

Up == s_queue /\ buffers /\ sender \in {"receive", "send"}
Down == ~s_queue /\ ~buffers /\ sender = "none"
NoPill == \A i \in DOMAIN messages : messages[i] # "pill"
Sockets == open_sockets = (IF s_sock THEN 1 ELSE 0)

\* What holds between two operations that did not overlap.
Rests == NoPill /\ (IF s_enabled THEN Up ELSE Down /\ ~s_sock)

\* What holds at the label a caller has reached, if it is alone.
Phase(l) ==
  /\ l \in {"enable", "save"} => Rests
  /\ l \in {"connect", "resolve", "open", "start"} => s_enabled /\ NoPill /\ (Up \/ Down)
  /\ l \in {"resolve", "open"} => ~s_sock
  /\ l = "start_task" => s_enabled /\ NoPill /\ s_queue /\ (Up
         \/ (~buffers /\ sender = "none"))
  /\ l \in {"disable", "pill", "wait", "delete", "fmt", "close"} => ~s_enabled
  /\ l = "disable" => NoPill /\ (Up \/ Down)
  /\ l = "pill" => NoPill /\ Up
  /\ l = "delete" => sender = "none"
  /\ l = "fmt" => NoPill /\ ~s_queue /\ sender = "none"
  /\ l = "close" => NoPill /\ Down

Alone == ~overlapped => \A t, u \in Callers : pc[t] # "idle" /\ pc[u] # "idle" => t = u
Phases ==
  ~overlapped /\ ~timed_out => Sockets /\ (Quiet => Rests) /\ \A t \in Callers : Phase(pc[t])
Made == buffers => s_fmt_mutex # Absent
Lines == messages \in Seq({"line", "pill"})

RunInv == Lines /\ Made /\ Alone /\ Phases

LEMMA InitRunInv == SyslogInit => RunInv
<1> SUFFICES ASSUME SyslogInit PROVE RunInv
  OBVIOUS
<1>1. /\ messages = <<>> /\ NoPill /\ Down /\ ~s_sock /\ Sockets /\ s_enabled = nvs_enabled
  BY DEF SyslogInit, NoPill, Down, Sockets
<1>2. PICK main \in Connectors : pc = BootPc(nvs_enabled, main)
  BY DEF SyslogInit
<1>3. \A t \in Callers : pc[t] = IF nvs_enabled /\ t = main THEN "connect" ELSE "idle"
  BY <1>2 DEF BootPc
<1>4. main \in Callers
  BY DEF Callers
<1>5. Alone
  BY <1>3 DEF Alone
<1>6. Quiet => Rests
  BY <1>1, <1>3, <1>4 DEF Quiet, Rests
<1>7. \A t \in Callers : Phase(pc[t])
  BY <1>1, <1>3 DEF Phase
<1> QED BY <1>1, <1>5, <1>6, <1>7 DEF SyslogInit, RunInv, Lines, Made, Phases

LEMMA PanicRunInv ==
  ASSUME NEW l \in Loggers, Panic(l)
  PROVE  RunInv'
<1>1. messages' = <<>> /\ NoPill' /\ Down' /\ ~s_sock' /\ Sockets' /\ s_enabled' = nvs_enabled
  BY DEF Panic, NoPill, Down, Sockets
<1>2. PICK main \in Connectors : pc' = BootPc(nvs_enabled, main)
  BY DEF Panic
<1>3. \A t \in Callers : pc'[t] = IF nvs_enabled /\ t = main THEN "connect" ELSE "idle"
  BY <1>2 DEF BootPc
<1>4. main \in Callers
  BY DEF Callers
<1>5. Alone'
  BY <1>3 DEF Alone
<1>6. Quiet' => Rests'
  BY <1>1, <1>3, <1>4 DEF Quiet, Rests
<1>7. (\A t \in Callers : Phase(pc[t]))'
  BY <1>1, <1>3 DEF Phase
<1> QED BY <1>1, <1>5, <1>6, <1>7 DEF Panic, RunInv, Lines, Made, Phases

\* What a queue without a pill becomes.
LEMMA LinePosted ==
  ASSUME Lines, messages' = messages \/ messages' = Append(messages, "line")
  PROVE  Lines' /\ (NoPill => NoPill')
BY DEF Lines, NoPill

LEMMA LineTaken ==
  ASSUME Lines, messages # <<>>, messages' = Tail(messages)
  PROVE  Lines' /\ (NoPill => NoPill' /\ Head(messages) # "pill")
<1>1. Lines'
  BY DEF Lines
<1>2. Len(messages) \in Nat \ {0} /\ Len(messages') = Len(messages) - 1
  BY DEF Lines
<1>3. \A i \in 1 .. Len(messages') : messages'[i] = messages[i + 1] /\ i + 1 \in 1 .. Len(messages)
  BY <1>2 DEF Lines
<1>4. Head(messages) = messages[1] /\ 1 \in DOMAIN messages
  BY <1>2 DEF Lines
<1>5. DOMAIN messages = 1 .. Len(messages) /\ DOMAIN messages' = 1 .. Len(messages')
  BY <1>1 DEF Lines
<1> QED BY <1>1, <1>3, <1>4, <1>5 DEF NoPill

\* A step of the hook: it leaves the callers where they are.
LEMMA HookRunInv ==
  ASSUME Types, RunInv, NEW l \in Loggers, Log(l) \/ TryLock(l) \/ Format(l) \/ Post(l) \/ Give(l)
  PROVE  RunInv'
<1>1. /\ UNCHANGED <<s_enabled, s_sock, open_sockets, s_queue, buffers, sender, overlapped, timed_out>>
      /\ messages' = messages \/ messages' = Append(messages, "line")
      /\ s_fmt_mutex' \in {s_fmt_mutex, l, Nobody}
  BY DEF Log, TryLock, Format, Post, Give, config, socket, queue, format, history
<1>2. \A t \in Callers : pc'[t] = pc[t]
  BY DEF Types, Tasks, Log, TryLock, Format, Post, Give, Goto
<1>3. Lines' /\ (NoPill => NoPill')
  BY <1>1, LinePosted DEF RunInv
<1>4. Made'
  BY <1>1 DEF RunInv, Made, Types, Tasks
<1>5. Alone'
  BY <1>1, <1>2 DEF RunInv, Alone
<1>6. Quiet' => Quiet
  BY <1>2 DEF Quiet
<1>7. (Sockets => Sockets') /\ (Rests => Rests')
  BY <1>1, <1>3 DEF Sockets, Rests, Up, Down
<1>8. ASSUME NEW t \in Callers, Phase(pc[t]) PROVE Phase(pc[t])'
  BY <1>1, <1>2, <1>3, <1>7, <1>8 DEF Phase, Up, Down
<1>9. Phases'
  BY <1>1, <1>6, <1>7, <1>8 DEF RunInv, Phases
<1> QED BY <1>3, <1>4, <1>5, <1>9 DEF RunInv

\* The sender cleans up only while a stop waits for it.
LEMMA SenderRunInv ==
  ASSUME RunInv, SenderStep
  PROVE  RunInv'
<1>1. /\ UNCHANGED <<pc, s_enabled, s_queue, buffers, s_fmt_mutex, overlapped, timed_out>>
      /\ sender # "none" /\ Quiet' = Quiet
  BY DEF SenderStep, Receive, SendLine, SenderClose, SenderClear, SenderGone, config, queue,
     format, history, Quiet
<1>2. Lines' /\ (NoPill => NoPill') /\ (NoPill /\ sender = "receive" => sender' = "send")
  BY <1>1, LineTaken DEF RunInv, SenderStep, Receive, SendLine, SenderClose, SenderClear,
     SenderGone, queue, NoPill, Lines
<1>3. Sockets => Sockets'
  BY DEF SenderStep, Receive, SendLine, SenderClose, SenderClear, SenderGone, socket,
     CloseSocket, Sockets
<1>4. sender \in {"receive", "send"} =>
        /\ UNCHANGED s_sock
        /\ NoPill => sender' \in {"receive", "send"}
  BY <1>2 DEF SenderStep, Receive, SendLine, SenderClose, SenderClear, SenderGone, socket
<1>5. ~Down
  BY <1>1 DEF Down
<1>6. NoPill /\ Up => NoPill' /\ Up' /\ UNCHANGED s_sock
  BY <1>1, <1>2, <1>4 DEF Up
<1>7. Rests => Rests'
  BY <1>1, <1>5, <1>6 DEF Rests
<1>8. ASSUME NEW t \in Callers, Phase(pc[t]) PROVE Phase(pc[t])'
  BY <1>1, <1>5, <1>6, <1>7, <1>8 DEF Phase
<1> QED BY <1>1, <1>2, <1>3, <1>7, <1>8 DEF RunInv, Made, Alone, Phases

\* A caller that is alone arrives where its step leads.
LEMMA CallerArrives ==
  ASSUME Types, Alone, NEW t \in Callers, pc[t] # "idle", ~overlapped,
         NEW l, pc' = [pc EXCEPT ![t] = l],
         Sockets', l = "idle" => Rests', Phase(l)'
  PROVE  Phases'
<1>1. \A u \in Callers : u # t => pc'[u] = "idle"
  BY DEF Types, Alone, Tasks
<1>2. pc'[t] = l
  BY DEF Types, Tasks
<1>3. Phase("idle")'
  BY DEF Phase
<1>4. (\A u \in Callers : Phase(pc[u]))'
  BY <1>1, <1>2, <1>3
<1>5. Quiet' => Rests'
  BY <1>2 DEF Quiet
<1> QED BY <1>4, <1>5 DEF Phases

\* An operation that begins while no other is under way finds the client at rest.
LEMMA BeginRunInv ==
  ASSUME Types, RunInv, NEW t \in Callers, Notify(t) \/ Enable(t) \/ Disable(t)
  PROVE  RunInv'
<1>1. /\ pc[t] = "idle" /\ overlapped' = (overlapped \/ ~Quiet)
      /\ UNCHANGED <<s_sock, open_sockets, s_queue, messages, s_fmt_mutex, buffers, sender, timed_out>>
  BY DEF Notify, Enable, Disable, BeginCall, socket, queue, format
<1>2. PICK l \in {"connect", "enable", "disable"} : pc' = [pc EXCEPT ![t] = l]
  BY DEF Notify, Enable, Disable, Goto
<1>3. Lines' /\ Made' /\ (NoPill => NoPill')
  BY <1>1 DEF RunInv, Lines, Made, NoPill
<1>4. ASSUME ~overlapped' PROVE ~overlapped /\ Quiet /\ \A u \in Callers : u # t => pc'[u] = "idle"
  BY <1>1, <1>2, <1>4 DEF Quiet, Types, Tasks
<1>5. Alone'
  BY <1>4 DEF Alone
<1>6. ASSUME ~overlapped', ~timed_out' PROVE Sockets' /\ ~Quiet' /\ (\A u \in Callers : Phase(pc[u]))'
  <2>1. Rests /\ Sockets /\ Sockets' /\ pc'[t] = l
    BY <1>1, <1>2, <1>4, <1>6 DEF RunInv, Phases, Sockets, Types, Tasks
  <2>2. Phase("idle")'
    BY DEF Phase
  <2>3. ASSUME Notify(t) PROVE Phase(l)'
    <3>1. l = "connect" /\ s_enabled' = s_enabled /\ s_enabled
      BY <1>2, <2>1, <2>3 DEF Notify, Goto, config, Types, Tasks
    <3> QED BY <1>1, <1>3, <2>1, <3>1 DEF Phase, Rests, Up, Down, Quiet
  <2>4. ASSUME Enable(t) PROVE Phase(l)'
    <3>1. l = "enable" /\ s_enabled' = s_enabled
      BY <1>2, <2>1, <2>4 DEF Enable, Goto, config, Types, Tasks
    <3> QED BY <1>1, <1>3, <2>1, <3>1 DEF Phase, Rests, Up, Down
  <2>5. ASSUME Disable(t) PROVE Phase(l)'
    <3>1. l = "disable" /\ ~s_enabled'
      BY <1>2, <2>1, <2>5 DEF Disable, Goto, Types, Tasks
    <3>2. NoPill' /\ (Up \/ Down)
      BY <1>3, <2>1 DEF Rests
    <3>3. NoPill' /\ (Up' \/ Down')
      BY <1>1, <3>2 DEF Up, Down
    <3> QED BY <3>1, <3>3 DEF Phase
  <2>6. Phase(l)'
    BY <2>3, <2>4, <2>5
  <2>7. (\A u \in Callers : Phase(pc[u]))'
    BY <1>4, <1>6, <2>1, <2>2, <2>6
  <2>8. ~Quiet'
    BY <2>1 DEF Quiet
  <2> QED BY <2>1, <2>7, <2>8
<1>7. Phases'
  BY <1>6 DEF Phases
<1> QED BY <1>3, <1>5, <1>7 DEF RunInv

\* A step of a caller: alone, it takes the client from one phase to the next.
LEMMA CallerPhases ==
  ASSUME Types, RunInv, NEW t \in Callers, CallerStep(t), ~overlapped', ~timed_out'
  PROVE  Phases'
<1>1. pc[t] # "idle"
  BY DEF CallerStep, Connect, Resolve, Open, StartQueue, StartTask, SetEnabled, Stop, SendPill,
     Wait, DeleteQueue, FreeBuffers, CloseAtDisable, SaveConfig
<1>2. ~overlapped /\ ~timed_out
  <2>1. CASE Wait(t)
    BY <2>1 DEF Wait
  <2>2. CASE ~Wait(t)
    <3>1. UNCHANGED history
      BY <2>2 DEF CallerStep, Connect, Resolve, Open, StartQueue, StartTask, SetEnabled, Stop,
         SendPill, DeleteQueue, FreeBuffers, CloseAtDisable, SaveConfig
    <3> QED BY <3>1 DEF history
  <2> QED BY <2>1, <2>2
<1>3. Phase(pc[t]) /\ Sockets /\ Alone /\ Made /\ Lines
  BY <1>2 DEF RunInv, Phases
<1> DEFINE Arrives(l) == pc' = [pc EXCEPT ![t] = l] /\ Sockets' /\ (l = "idle" => Rests') /\ Phase(l)'
<1>4. ASSUME NEW l, Arrives(l) PROVE Phases'
  BY <1>1, <1>2, <1>3, <1>4, CallerArrives
<1> USE DEF Goto, Done, Up, Down, Sockets, NoPill, Rests, Phase, config, socket, queue, format,
   history
<1>5. CASE Connect(t)
  <2>1. Arrives("resolve")
    BY <1>3, <1>5 DEF Connect, CloseSocket
  <2> QED BY <1>4, <2>1
<1>6. CASE Resolve(t)
  <2>1. Arrives("open")
    BY <1>3, <1>6 DEF Resolve
  <2> QED BY <1>4, <2>1
<1>7. CASE Open(t)
  <2>1. Arrives("start")
    BY <1>3, <1>7 DEF Open
  <2> QED BY <1>4, <2>1
<1>8. CASE StartQueue(t)
  <2>1. Arrives("start_task")
    BY <1>3, <1>8 DEF StartQueue
  <2> QED BY <1>4, <2>1
<1>9. CASE StartTask(t)
  <2>1. Arrives("save") \/ Arrives("idle")
    BY <1>3, <1>9 DEF StartTask
  <2> QED BY <1>4, <2>1
<1>10. CASE SetEnabled(t)
  <2>1. Arrives("connect")
    BY <1>3, <1>10 DEF SetEnabled
  <2> QED BY <1>4, <2>1
<1>11. CASE Stop(t)
  <2>1. Arrives("pill") \/ Arrives("delete")
    BY <1>3, <1>11 DEF Stop
  <2> QED BY <1>4, <2>1
<1>12. CASE SendPill(t)
  <2>1. Arrives("wait")
    BY <1>3, <1>12 DEF SendPill
  <2> QED BY <1>4, <2>1
<1>13. CASE Wait(t)
  <2>1. Arrives("delete")
    BY <1>2, <1>3, <1>13 DEF Wait
  <2> QED BY <1>4, <2>1
<1>14. CASE DeleteQueue(t)
  <2>1. /\ pc' = [pc EXCEPT ![t] = IF s_fmt_mutex = Absent THEN "close" ELSE "fmt"]
        /\ ~s_queue' /\ UNCHANGED <<s_enabled, buffers, sender, s_sock, open_sockets>>
        /\ NoPill'
    BY <1>14 DEF DeleteQueue
  <2>2. sender = "none" /\ ~s_enabled /\ (s_fmt_mutex = Absent => ~buffers)
    BY <1>3, <1>14 DEF DeleteQueue, Made
  <2> HIDE DEF NoPill
  <2>3. CASE s_fmt_mutex = Absent
    <3>1. Arrives("close")
      BY <1>3, <2>1, <2>2, <2>3
    <3> QED BY <1>4, <3>1
  <2>4. CASE s_fmt_mutex # Absent
    <3>1. Arrives("fmt")
      BY <1>3, <2>1, <2>2, <2>4
    <3> QED BY <1>4, <3>1
  <2> QED BY <2>3, <2>4
<1>15. CASE FreeBuffers(t)
  <2>1. Arrives("close")
    BY <1>3, <1>15 DEF FreeBuffers
  <2> QED BY <1>4, <2>1
<1>16. CASE CloseAtDisable(t)
  <2>1. Arrives("save")
    BY <1>3, <1>16 DEF CloseAtDisable, CloseSocket
  <2> QED BY <1>4, <2>1
<1>17. CASE SaveConfig(t)
  <2>1. Arrives("idle")
    BY <1>3, <1>17 DEF SaveConfig
  <2> QED BY <1>4, <2>1
<1> QED BY <1>5, <1>6, <1>7, <1>8, <1>9, <1>10, <1>11, <1>12, <1>13, <1>14, <1>15, <1>16, <1>17
        DEF CallerStep

LEMMA CallerRunInv ==
  ASSUME Types, RunInv, NEW t \in Callers, CallerStep(t)
  PROVE  RunInv'
<1>1. pc[t] # "idle"
  BY DEF CallerStep, Connect, Resolve, Open, StartQueue, StartTask, SetEnabled, Stop, SendPill,
     Wait, DeleteQueue, FreeBuffers, CloseAtDisable, SaveConfig
<1>0. overlapped' = overlapped
  BY DEF CallerStep, Connect, Resolve, Open, StartQueue, StartTask, SetEnabled, Stop, SendPill,
     Wait, DeleteQueue, FreeBuffers, CloseAtDisable, SaveConfig, history
<1>2. \E l : pc' = [pc EXCEPT ![t] = l]
  BY DEF CallerStep, Connect, Resolve, Open, StartQueue, StartTask, SetEnabled, Stop, SendPill,
     Wait, DeleteQueue, FreeBuffers, CloseAtDisable, SaveConfig, Goto, Done
<1>3. messages' = messages \/ messages' = Append(messages, "pill") \/ messages' = <<>>
  BY DEF CallerStep, Connect, Resolve, Open, StartQueue, StartTask, SetEnabled, Stop, SendPill,
     Wait, DeleteQueue, FreeBuffers, CloseAtDisable, SaveConfig, queue
<1>4. Lines'
  <2>1. Append(messages, "pill") \in Seq({"line", "pill"}) /\ <<>> \in Seq({"line", "pill"})
    BY DEF RunInv, Lines
  <2> QED BY <1>3, <2>1, Zenon DEF RunInv, Lines
<1>5. Made'
  BY DEF RunInv, Made, CallerStep, Connect, Resolve, Open, StartQueue, StartTask, SetEnabled,
     Stop, SendPill, Wait, DeleteQueue, FreeBuffers, CloseAtDisable, SaveConfig, format, Types
<1>6. Alone'
  BY <1>0, <1>1, <1>2 DEF RunInv, Alone, Types, Tasks
<1> QED BY <1>4, <1>5, <1>6, CallerPhases DEF RunInv, Phases

LEMMA NextRunInv == Types /\ RunInv /\ [SyslogNext]_syslog_vars => RunInv'
<1> SUFFICES ASSUME Types, RunInv, [SyslogNext]_syslog_vars PROVE RunInv'
  OBVIOUS
<1>1. ASSUME NEW l \in Loggers, Log(l) \/ Hook(l) PROVE RunInv'
  BY <1>1, HookRunInv, PanicRunInv DEF Hook
<1>2. ASSUME NEW t \in Connectors, Notify(t) PROVE RunInv'
  BY <1>2, BeginRunInv DEF Callers
<1>3. ASSUME NEW a \in Admins, Enable(a) \/ Disable(a) PROVE RunInv'
  BY <1>3, BeginRunInv DEF Callers
<1>4. CASE UNCHANGED syslog_vars
  BY <1>4 DEF syslog_vars, config, socket, queue, format, history, RunInv, Lines, Made, Alone,
     Phases, Sockets, Quiet, Rests, NoPill, Up, Down, Phase
<1> QED BY <1>1, <1>2, <1>3, <1>4, SenderRunInv, CallerRunInv DEF SyslogNext

\* For any number of tasks, when no enable, disable or connect is under way, none overlapped
\* and no stop timed out, the client runs if it is enabled and holds nothing if it is not:
\* the sender's cleanup without the lock, and a panic and boot, never leave it in between
\* (start_sender, stop_sender, sender_task).
THEOREM AlwaysRunsIffEnabled == SyslogSpec => []RunsIffEnabled
<1>1. LockInv /\ RunInv /\ [SyslogNext]_syslog_vars => (LockInv /\ RunInv)'
  BY NextLockInv, NextRunInv DEF LockInv
<1>2. RunInv => RunsIffEnabled
  BY DEF RunInv, Phases, Rests, Up, Down, Sockets, RunsIffEnabled, Released
<1> QED BY <1>1, <1>2, InitLockInv, InitRunInv, PTL DEF SyslogSpec
=============================================================================
