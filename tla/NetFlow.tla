------------------------------ MODULE NetFlow ------------------------------
(***************************************************************************)
(* The NetFlow v5 exporter (netflow.c): a hash table of flows that the     *)
(* packet hooks fill without ever waiting, an export task that collects    *)
(* the expired flows under the mutex, sends them without it and clears     *)
(* them under it again, and the calls that switch the exporter on and off  *)
(* while both are at work.                                                 *)
(*                                                                         *)
(* The settings calls come from one task at a time.  A flow's counters     *)
(* are left out: what matters is which flow a slot holds, how old it is,   *)
(* and whether it has been sent.                                           *)
(***************************************************************************)
EXTENDS Naturals, FiniteSets

CONSTANTS
  Dirs,         \* the two directions; each hook runs in a task of its own
  Keys,         \* the 5-tuples seen on the downlink
  TableSize,    \* NF_TABLE_SIZE
  ProbeLimit,   \* NF_PROBE_LIMIT
  Hash,         \* fnv1a(key) % NF_TABLE_SIZE
  Limits,       \* the timeouts that may be set: [idle, active], in ticks
  MaxAge        \* bound: time stands still while a flow is this old

Slots == 0 .. (TableSize - 1)

ASSUME NetFlowAssumption ==
  /\ TableSize \in Nat \ {0} /\ ProbeLimit \in 1 .. TableSize
  /\ Hash \in [Keys -> Slots]
  /\ Limits \subseteq [idle : Nat \ {0}, active : Nat \ {0}] /\ Limits # {}
  /\ MaxAge \in Nat /\ \A l \in Limits : l.active <= MaxAge

Free == [active |-> FALSE]
NULL == [i \in {} |-> Free]      \* s_table before calloc and after free

VARIABLES
  table,       \* s_table
  directions,  \* s_directions
  limits,      \* s_idle_ms and s_active_ms
  sock,        \* s_sock >= 0
  mutex,       \* who holds s_mutex
  task,        \* the export task: where it stands, "none" if there is none
  listed,      \* to_export
  unsent,      \* what export_batch has still to read of it
  hook,        \* where each hook stands in netflow_account, and its packet's key
  call,        \* where the settings call stands, and its direction argument
  flash        \* nf_dir

vars == <<table, directions, limits, sock, mutex, task, listed, unsent, hook, call, flash>>

exporter == <<task, listed, unsent>>
settings == <<directions, limits, sock, flash>>

Empty == [i \in Slots |-> Free]
IdleHooks == [d \in Dirs |-> [pc |-> "idle"]]
NoCall == [pc |-> "none"]
-----------------------------------------------------------------------------
(* The flow table *)

Probe(key, n) == (Hash[key] + n) % TableSize
Probes == 0 .. (ProbeLimit - 1)
Window(key) == {Probe(key, n) : n \in Probes}

Fresh(key) == [active |-> TRUE, key |-> key, idle |-> 0, age |-> 0, sent |-> FALSE]
Holds(i, key) == table[i].active /\ table[i].key = key

Match(key) ==
  \E n \in Probes :
    /\ Holds(Probe(key, n), key)
    /\ \A m \in 0 .. (n - 1) : ~Holds(Probe(key, m), key)
    /\ table' = [table EXCEPT ![Probe(key, n)].idle = 0]

Claim(key) ==
  \E n \in Probes :
    /\ ~table[Probe(key, n)].active
    /\ \A m \in 0 .. (n - 1) : table[Probe(key, m)].active
    /\ table' = [table EXCEPT ![Probe(key, n)] = Fresh(key)]

\* A fault: the comparison is turned round.
Evict_Newest(key) ==
  \E n \in Probes :
    /\ \A m \in Probes : table[Probe(key, m)].active
    /\ \A m \in Probes : table[Probe(key, m)].idle >= table[Probe(key, n)].idle
    /\ \A m \in 0 .. (n - 1) : table[Probe(key, m)].idle > table[Probe(key, n)].idle
    /\ table' = [table EXCEPT ![Probe(key, n)] = Fresh(key)]

\* The first of the flows that have been silent longest makes room, unsent.
Evict(key) ==
  \E n \in Probes :
    /\ \A m \in Probes : table[Probe(key, m)].active
    /\ \A m \in Probes : table[Probe(key, m)].idle <= table[Probe(key, n)].idle
    /\ \A m \in 0 .. (n - 1) : table[Probe(key, m)].idle < table[Probe(key, n)].idle
    /\ table' = [table EXCEPT ![Probe(key, n)] = Fresh(key)]

\* A fault: the search for a match ends at the first empty slot.
flow_find_or_create_StopsAtFree(key) ==
  IF \E n \in Probes : /\ Holds(Probe(key, n), key)
                       /\ \A m \in 0 .. (n - 1) : table[Probe(key, m)].active
  THEN Match(key)
  ELSE Claim(key) \/ Evict(key)

flow_find_or_create(key) ==
  IF \E i \in Window(key) : Holds(i, key)
  THEN Match(key)
  ELSE Claim(key) \/ Evict(key)

\* A fault: a flow that still gets packets is never old enough.
Expired_IdleOnly(flow) == flow.idle >= limits.idle

Expired(flow) == flow.idle >= limits.idle \/ flow.age >= limits.active
-----------------------------------------------------------------------------
(* netflow_init.  The saved directions are there only with a collector.  If
   calloc fails the exporter stays off until the next boot. *)
Boot(allocated) ==
  /\ directions' = IF allocated THEN flash ELSE {}
  /\ table' = IF allocated /\ flash # {} THEN Empty ELSE NULL
  /\ task' = IF allocated /\ flash # {} THEN "sleep" ELSE "none"
  /\ sock' = FALSE /\ mutex' = "free" /\ listed' = {} /\ unsent' = {}
  /\ hook' = IdleHooks /\ call' = NoCall
  /\ UNCHANGED <<limits, flash>>

Init ==
  /\ table = NULL /\ directions = {} /\ limits \in Limits /\ sock = FALSE
  /\ mutex = "free" /\ task = "none" /\ listed = {} /\ unsent = {}
  /\ hook = IdleHooks /\ call = NoCall /\ flash = {}

\* A reset or power failure at any time.
Restart == \E allocated \in BOOLEAN : Boot(allocated)

(* netflow_account.  The checks are made before the mutex is tried. *)

Account(d, key) ==
  /\ hook[d].pc = "idle" /\ d \in directions /\ table # NULL
  /\ hook' = [hook EXCEPT ![d] = [pc |-> "try", key |-> key]]
  /\ UNCHANGED <<table, mutex, exporter, settings, call>>

TryMutex(d) ==
  /\ hook[d].pc = "try"
  /\ IF mutex = "free"
     THEN /\ mutex' = d
          /\ hook' = [hook EXCEPT ![d].pc = "count"]
     ELSE /\ hook' = [hook EXCEPT ![d] = [pc |-> "idle"]]
          /\ UNCHANGED mutex
  /\ UNCHANGED <<table, exporter, settings, call>>

Count(d) ==
  /\ hook[d].pc = "count" /\ table # NULL
  /\ flow_find_or_create(hook[d].key)
  /\ mutex' = "free"
  /\ hook' = [hook EXCEPT ![d] = [pc |-> "idle"]]
  /\ UNCHANGED <<exporter, settings, call>>

\* The table was freed after the check: the access through NULL is a panic, and
\* the panic handler restarts the router.
CountFreed(d) ==
  /\ hook[d].pc = "count" /\ table = NULL
  /\ \E allocated \in BOOLEAN : Boot(allocated)

\* Time passes for every flow.
Tick ==
  /\ table # NULL
  /\ \E i \in Slots : table[i].active
  /\ \A i \in Slots : table[i].active => table[i].age < MaxAge
  /\ table' = [i \in Slots |->
                 IF table[i].active
                 THEN [table[i] EXCEPT !.idle = @ + 1, !.age = @ + 1]
                 ELSE table[i]]
  /\ UNCHANGED <<mutex, exporter, settings, hook, call>>
-----------------------------------------------------------------------------
(* export_task *)

Wake ==
  /\ task = "sleep" /\ directions # {} /\ sock /\ table # NULL
  /\ task' = "collect_take"
  /\ UNCHANGED <<table, mutex, listed, unsent, settings, hook, call>>

Take(from, to) ==
  /\ task = from /\ mutex = "free"
  /\ mutex' = "export" /\ task' = to
  /\ UNCHANGED <<table, listed, unsent, settings, hook, call>>

CollectTake == Take("collect_take", "collect")

Collect ==
  /\ task = "collect"
  /\ listed' = {i \in Slots : table[i].active /\ Expired(table[i])}
  /\ unsent' = listed'
  /\ mutex' = "free"
  /\ task' = IF listed' = {} THEN "sleep" ELSE "batch"
  /\ UNCHANGED <<table, settings, hook, call>>

\* export_batch gives up when there is no socket; the flows are cleared all the same.
Batch ==
  /\ task = "batch"
  /\ task' = IF sock THEN "send" ELSE "clear_take"
  /\ UNCHANGED <<table, mutex, listed, unsent, settings, hook, call>>

\* One record, read from the live table without the mutex.
Send ==
  /\ task = "send"
  /\ \E i \in unsent :
       /\ \A j \in unsent : i <= j
       /\ unsent' = unsent \ {i}
       /\ table' = IF table[i].active THEN [table EXCEPT ![i].sent = TRUE] ELSE table
  /\ task' = IF unsent' = {} THEN "clear_take" ELSE "send"
  /\ UNCHANGED <<mutex, listed, settings, hook, call>>

ClearTake == Take("clear_take", "clear")

\* A fault: a flow that was not idle keeps its slot.
Clear_KeepsBusy ==
  /\ task = "clear"
  /\ table' = [i \in Slots |-> IF i \in listed /\ table[i].active /\ table[i].idle >= limits.idle
                               THEN Free ELSE table[i]]
  /\ mutex' = "free" /\ task' = "sleep" /\ listed' = {} /\ unsent' = {}
  /\ UNCHANGED <<settings, hook, call>>

Clear ==
  /\ task = "clear"
  /\ table' = [i \in Slots |-> IF i \in listed THEN Free ELSE table[i]]
  /\ mutex' = "free" /\ task' = "sleep" /\ listed' = {} /\ unsent' = {}
  /\ UNCHANGED <<settings, hook, call>>
-----------------------------------------------------------------------------
(* The settings calls, one statement of shared state after the other *)

Begin(pc, dirs) == call = NoCall /\ call' = [pc |-> pc, dirs |-> dirs]
Step(from, to) == call.pc = from /\ call' = [call EXCEPT !.pc = to]
End(from) == call.pc = from /\ call' = NoCall

\* netflow_enable
EnableClose(dirs) ==
  /\ Begin("en_table", dirs) /\ dirs # {}
  /\ sock' = FALSE
  /\ UNCHANGED <<table, mutex, exporter, directions, limits, flash, hook>>

EnableAlloc ==
  /\ table = NULL
  /\ \/ Step("en_table", "en_set") /\ table' = Empty
     \/ End("en_table") /\ UNCHANGED table
  /\ UNCHANGED <<mutex, exporter, settings, hook>>

EnableTake ==
  /\ table # NULL /\ mutex = "free"
  /\ Step("en_table", "en_memset")
  /\ mutex' = "call"
  /\ UNCHANGED <<table, exporter, settings, hook>>

EnableMemset ==
  /\ Step("en_memset", "en_set")
  /\ table' = Empty /\ mutex' = "free"
  /\ UNCHANGED <<exporter, settings, hook>>

EnableSet ==
  /\ Step("en_set", "en_save")
  /\ directions' = call.dirs
  /\ UNCHANGED <<table, mutex, exporter, limits, sock, flash, hook>>

EnableSave ==
  /\ Step("en_save", "en_open")
  /\ flash' = directions
  /\ UNCHANGED <<table, mutex, exporter, directions, limits, sock, hook>>

\* Without a socket there is no export task either; xTaskCreate may fail.
EnableOpen ==
  /\ End("en_open")
  /\ \/ UNCHANGED <<sock, task>>
     \/ /\ sock' = TRUE
        /\ task' \in IF task = "none" THEN {"none", "sleep"} ELSE {task}
  /\ UNCHANGED <<table, mutex, listed, unsent, directions, limits, flash, hook>>

\* netflow_set_directions and netflow_set_timeouts
SetDirections(dirs) ==
  /\ Begin("save", dirs) /\ directions # {} /\ dirs # {}
  /\ directions' = dirs
  /\ UNCHANGED <<table, mutex, exporter, limits, sock, flash, hook>>

SetTimeouts(new) ==
  /\ Begin("save", {})
  /\ limits' = new
  /\ UNCHANGED <<table, mutex, exporter, directions, sock, flash, hook>>

Save ==
  /\ End("save")
  /\ flash' = directions
  /\ UNCHANGED <<table, mutex, exporter, directions, limits, sock, hook>>

\* netflow_disable.  vTaskDelete ends the task wherever it stands, also when it
\* holds the mutex.
DisableStop ==
  /\ Begin("dis_close", {})
  /\ directions' = {}
  /\ UNCHANGED <<table, mutex, exporter, limits, sock, flash, hook>>

DisableClose ==
  /\ Step("dis_close", "dis_delete")
  /\ sock' = FALSE
  /\ UNCHANGED <<table, mutex, exporter, directions, limits, flash, hook>>

\* A fault: the task is left to find out by itself that the exporter is off.
DisableDelete_LeavesTask ==
  /\ Step("dis_delete", "dis_take")
  /\ UNCHANGED <<table, mutex, exporter, settings, hook>>

DisableDelete ==
  /\ Step("dis_delete", "dis_take")
  /\ task' = "none" /\ listed' = {} /\ unsent' = {}
  /\ UNCHANGED <<table, mutex, settings, hook>>

DisableTake ==
  /\ mutex = "free"
  /\ Step("dis_take", "dis_free")
  /\ mutex' = "call"
  /\ UNCHANGED <<table, exporter, settings, hook>>

DisableFree ==
  /\ Step("dis_free", "save")
  /\ table' = NULL /\ mutex' = "free"
  /\ UNCHANGED <<exporter, settings, hook>>

\* netflow_print_flows and netflow_get_active_flows
Show ==
  /\ Begin("show_take", {}) /\ table # NULL
  /\ UNCHANGED <<table, mutex, exporter, settings, hook>>

ShowTake ==
  /\ mutex = "free"
  /\ Step("show_take", "show_give")
  /\ mutex' = "call"
  /\ UNCHANGED <<table, exporter, settings, hook>>

ShowGive ==
  /\ End("show_give")
  /\ mutex' = "free"
  /\ UNCHANGED <<table, exporter, settings, hook>>

\* netflow_notify_connected, from the task that handles the uplink's events
NotifyConnected ==
  /\ directions # {} /\ ~sock
  /\ sock' = TRUE
  /\ UNCHANGED <<table, mutex, exporter, directions, limits, flash, hook, call>>

CallStep ==
  \/ EnableAlloc \/ EnableTake \/ EnableMemset \/ EnableSet \/ EnableSave \/ EnableOpen
  \/ Save \/ DisableClose \/ DisableDelete \/ DisableTake \/ DisableFree
  \/ ShowTake \/ ShowGive

ExportStep == Wake \/ CollectTake \/ Collect \/ Batch \/ Send \/ ClearTake \/ Clear

HookStep(d) == TryMutex(d) \/ Count(d) \/ CountFreed(d)

Next ==
  \/ \E d \in Dirs, key \in Keys : Account(d, key)
  \/ \E d \in Dirs : HookStep(d)
  \/ ExportStep \/ CallStep \/ Tick \/ Restart \/ NotifyConnected
  \/ \E dirs \in SUBSET Dirs : EnableClose(dirs) \/ SetDirections(dirs)
  \/ \E new \in Limits : SetTimeouts(new)
  \/ DisableStop \/ Show

Spec == Init /\ [][Next]_vars

\* A hook gives the mutex back at once and its task sleeps between packets, so a
\* task that waits for the mutex gets it (strong fairness); the delay of the
\* export task ends; time passes.
FairSpec ==
  /\ Spec
  /\ \A d \in Dirs : WF_vars(HookStep(d))
  /\ SF_vars(ExportStep) /\ SF_vars(CallStep)
  /\ WF_vars(Tick)
-----------------------------------------------------------------------------
CallPCs ==
  {"none", "en_table", "en_memset", "en_set", "en_save", "en_open", "save",
   "dis_close", "dis_delete", "dis_take", "dis_free", "show_take", "show_give"}

TaskPCs ==
  {"none", "sleep", "collect_take", "collect", "batch", "send", "clear_take", "clear"}

Flows == [active : {TRUE}, key : Keys, idle : 0 .. MaxAge, age : 0 .. MaxAge, sent : BOOLEAN]

\* The types of the variables; and whoever stands in a critical section holds the
\* mutex, a hook that found it taken having skipped its packet.
TypeOK ==
  /\ table = NULL \/ table \in [Slots -> Flows \cup {Free}]
  /\ directions \subseteq Dirs /\ flash \subseteq Dirs
  /\ limits \in Limits /\ sock \in BOOLEAN
  /\ mutex \in {"free", "export", "call"} \cup Dirs
  /\ task \in TaskPCs /\ listed \subseteq Slots /\ unsent \subseteq listed
  /\ \A d \in Dirs : hook[d] = [pc |-> "idle"]
                     \/ hook[d] \in [pc : {"try", "count"}, key : Keys]
  /\ call = NoCall \/ call \in [pc : CallPCs \ {"none"}, dirs : SUBSET Dirs]
  /\ \A d \in Dirs : hook[d].pc = "count" => mutex = d
  /\ task \in {"collect", "clear"} => mutex = "export"
  /\ call.pc \in {"en_memset", "dis_free", "show_give"} => mutex = "call"

Active(i) == table # NULL /\ table[i].active

\* A packet's flow is never split over two slots: the search looks at the whole
\* window before it claims a slot, while exports open gaps in front of flows
\* that are already there (flow_find_or_create).
OneFlowPerKey ==
  \A i, j \in Slots : Active(i) /\ Active(j) /\ table[i].key = table[j].key => i = j

\* The export task never looks for flows in a table that was freed: netflow_disable
\* deletes the task first and enable creates the table first (netflow_disable).
TaskHasTable == task # "none" => table # NULL

\* No packet is reported twice: a flow that was sent is cleared before the next
\* sweep can collect it, however hooks, settings and the export interleave
\* (sweep_and_export).
SentOnce == \A i \in unsent : Active(i) => ~table[i].sent

\* A flow lost to another was silent at least as long as every flow it could have
\* been sacrificed for (flow_find_or_create).
StalestEvicted ==
  [][\A d \in Dirs : Count(d) =>
       \A i \in Slots :
         (table[i].active /\ table'[i].active /\ table'[i].key # table[i].key) =>
           \A j \in Window(hook[d].key) : table[j].active /\ table[j].idle <= table[i].idle]_vars

\* While the exporter runs, every flow leaves the table again and again, also one
\* that is never silent.
Exporting == directions # {} /\ sock /\ task # "none"
FlowsLeave ==
  \A key \in Keys : []<>(~Exporting \/ \A i \in Slots : Active(i) => table[i].key # key)
=============================================================================
