-------------------------- MODULE DhcpReservations --------------------------
(***************************************************************************)
(* The reservation table of dhcp_manager.c, the counter of isolated        *)
(* entries the packet hook reads, and the copy in flash.  The web server   *)
(* and the console tasks edit the table, without a lock: every operation   *)
(* is a sequence of steps between which another task may run.  A power     *)
(* loss may come between any two of them, and a write to flash may fail.   *)
(*                                                                         *)
(* The IP address and the name of an entry are left out: they are written  *)
(* and read together with its MAC.                                         *)
(***************************************************************************)
EXTENDS Naturals, FiniteSets

CONSTANTS
  Tasks,      \* tasks that edit the table: the web server, the consoles
  MacAddrs,   \* hardware addresses
  TableSize   \* MAX_DHCP_RESERVATIONS

ASSUME TableAssumption == TableSize \in Nat \ {0} /\ MacAddrs # {} /\ Tasks # {}

Slots == 1 .. TableSize

Entry == [valid : BOOLEAN, mac : MacAddrs, isolation : BOOLEAN]

AnyMac == CHOOSE m \in MacAddrs : TRUE
ZeroEntry == [valid |-> FALSE, mac |-> AnyMac, isolation |-> FALSE]
ZeroTable == [s \in Slots |-> ZeroEntry]

VARIABLES
  dhcp_reservations,  \* the table in RAM
  isolated_count,     \* atomic_int, read without a lock by the packet hook
  nvs,                \* the blob "dhcp_res"
  pc,                 \* where each task is in its operation
  slot,               \* the free slot a task found for its new entry
  mac,                \* the client a task works on
  n,                  \* the count a task's recount_isolated arrived at; as the two
                      \* above, with a fixed value when not in use
  \* history, for the properties
  outdated,           \* tasks whose scan another task has overtaken since
  stale,              \* the last count stored was of such a scan, or an entry was overwritten
  unsaved             \* the last save failed

history == <<outdated, stale, unsaved>>
table_vars == <<dhcp_reservations, isolated_count, nvs, pc, slot, mac, n, history>>

Isolated(table) == {s \in Slots : table[s].valid /\ table[s].isolation}

Matching(m) == {s \in Slots : dhcp_reservations[s].valid /\ dhcp_reservations[s].mac = m}
Free == {s \in Slots : ~dhcp_reservations[s].valid}
FirstOf(S) == CHOOSE s \in S : \A u \in S : s <= u

Goto(t, label) == pc' = [pc EXCEPT ![t] = label]

\* Task t begins an operation.
Begin(t) == pc[t] = "idle"

\* The table has changed: who has scanned it and not yet stored the count is late.
Overtake ==
  outdated' = IF Isolated(dhcp_reservations)' = Isolated(dhcp_reservations) THEN outdated
              ELSE {t \in Tasks : pc[t] = "store"}
-----------------------------------------------------------------------------
AnySlots == [t \in Tasks |-> 1]
AnyMacs == [t \in Tasks |-> AnyMac]
ZeroCounts == [t \in Tasks |-> 0]

TableInit ==
  /\ dhcp_reservations = ZeroTable
  /\ isolated_count = 0
  /\ nvs = ZeroTable
  /\ pc = [t \in Tasks |-> "idle"]
  /\ slot = AnySlots /\ mac = AnyMacs /\ n = ZeroCounts
  /\ outdated = {} /\ stale = FALSE /\ unsaved = FALSE

\* add_dhcp_reservation on a known MAC: the entry keeps its isolation, and there
\* is nothing to count.
UpdateKnown(t, m) ==
  /\ Begin(t) /\ Matching(m) # {}
  /\ Goto(t, "save")
  /\ UNCHANGED <<dhcp_reservations, isolated_count, nvs, slot, mac, n, history>>

\* add_dhcp_reservation on a new MAC: the search for a slot ...
FindSlot(t, m) ==
  /\ Begin(t) /\ Matching(m) = {} /\ Free # {}
  /\ slot' = [slot EXCEPT ![t] = FirstOf(Free)]
  /\ mac' = [mac EXCEPT ![t] = m]
  /\ Goto(t, "fill")
  /\ UNCHANGED <<dhcp_reservations, isolated_count, nvs, n, history>>

\* ... and the writes to it, also when another task has filled it in between.
FillSlot(t) ==
  /\ pc[t] = "fill"
  /\ dhcp_reservations' =
       [dhcp_reservations EXCEPT ![slot[t]] = [valid |-> TRUE, mac |-> mac[t], isolation |-> FALSE]]
  /\ Goto(t, "save")
  /\ Overtake
  /\ stale' = (stale \/ Isolated(dhcp_reservations)' # Isolated(dhcp_reservations))
  /\ slot' = [slot EXCEPT ![t] = 1] /\ mac' = [mac EXCEPT ![t] = AnyMac]
  /\ UNCHANGED <<isolated_count, nvs, n, unsaved>>

\* A fault: nothing is counted after a deletion.
Delete_NoCount(t, m) ==
  /\ Begin(t) /\ Matching(m) # {}
  /\ dhcp_reservations' =
       [dhcp_reservations EXCEPT ![FirstOf(Matching(m))].valid = FALSE,
                                 ![FirstOf(Matching(m))].isolation = FALSE]
  /\ Goto(t, "save")
  /\ Overtake
  /\ UNCHANGED <<isolated_count, nvs, slot, mac, n, stale, unsaved>>

\* del_dhcp_reservation, up to its recount.
Delete(t, m) ==
  /\ Begin(t) /\ Matching(m) # {}
  /\ dhcp_reservations' =
       [dhcp_reservations EXCEPT ![FirstOf(Matching(m))].valid = FALSE,
                                 ![FirstOf(Matching(m))].isolation = FALSE]
  /\ Goto(t, "count")
  /\ Overtake
  /\ UNCHANGED <<isolated_count, nvs, slot, mac, n, stale, unsaved>>

\* set_dhcp_reservation_isolation, up to its recount.
SetIsolation(t, m, level) ==
  /\ Begin(t) /\ Matching(m) # {}
  /\ dhcp_reservations' =
       [dhcp_reservations EXCEPT ![FirstOf(Matching(m))].isolation = level]
  /\ Goto(t, "count")
  /\ Overtake
  /\ UNCHANGED <<isolated_count, nvs, slot, mac, n, stale, unsaved>>

\* clear_all_dhcp_reservations, up to its recount.
ClearAll(t) ==
  /\ Begin(t)
  /\ dhcp_reservations' =
       [s \in Slots |-> [dhcp_reservations[s] EXCEPT !.valid = FALSE, !.isolation = FALSE]]
  /\ Goto(t, "count")
  /\ Overtake
  /\ UNCHANGED <<isolated_count, nvs, slot, mac, n, stale, unsaved>>

\* recount_isolated: the scan, then the atomic store of what it found.
Count(t) ==
  /\ pc[t] = "count"
  /\ n' = [n EXCEPT ![t] = Cardinality(Isolated(dhcp_reservations))]
  /\ Goto(t, "store")
  /\ UNCHANGED <<dhcp_reservations, isolated_count, nvs, slot, mac, history>>

\* A fault: the operation ends without a save.
Store_NoSave(t) ==
  /\ pc[t] = "store"
  /\ isolated_count' = n[t]
  /\ stale' = (t \in outdated) /\ outdated' = outdated \ {t}
  /\ n' = [n EXCEPT ![t] = 0]
  /\ Goto(t, "idle")
  /\ UNCHANGED <<dhcp_reservations, nvs, slot, mac, unsaved>>

Store(t) ==
  /\ pc[t] = "store"
  /\ isolated_count' = n[t]
  /\ stale' = (t \in outdated) /\ outdated' = outdated \ {t}
  /\ n' = [n EXCEPT ![t] = 0]
  /\ Goto(t, "save")
  /\ UNCHANGED <<dhcp_reservations, nvs, slot, mac, unsaved>>

\* set_config_param_blob writes the whole table as it is now.  When NVS cannot be
\* opened or refuses the blob the caller is told, and the table stays as it is.
Save(t) ==
  /\ pc[t] = "save"
  /\ \/ nvs' = dhcp_reservations /\ unsaved' = FALSE
     \/ UNCHANGED nvs /\ unsaved' = TRUE
  /\ Goto(t, "idle")
  /\ UNCHANGED <<dhcp_reservations, isolated_count, slot, mac, n, outdated, stale>>

\* Power loss and boot: get_dhcp_reservations loads the blob and recounts,
\* before any other task runs.
Reboot ==
  /\ dhcp_reservations' = nvs
  /\ isolated_count' = Cardinality(Isolated(nvs))
  /\ pc' = [t \in Tasks |-> "idle"]
  /\ slot' = AnySlots /\ mac' = AnyMacs /\ n' = ZeroCounts
  /\ outdated' = {} /\ stale' = FALSE /\ unsaved' = FALSE
  /\ UNCHANGED nvs

TableNext ==
  \/ \E t \in Tasks :
       \/ \E m \in MacAddrs :
            \/ UpdateKnown(t, m) \/ FindSlot(t, m) \/ Delete(t, m)
            \/ \E level \in BOOLEAN : SetIsolation(t, m, level)
       \/ FillSlot(t) \/ ClearAll(t) \/ Count(t) \/ Store(t) \/ Save(t)
  \/ Reboot

TableSpec == TableInit /\ [][TableNext]_table_vars
-----------------------------------------------------------------------------
TableTypeOK ==
  /\ dhcp_reservations \in [Slots -> Entry]
  /\ isolated_count \in 0 .. TableSize
  /\ nvs \in [Slots -> Entry]
  /\ pc \in [Tasks -> {"idle", "fill", "count", "store", "save"}]
  /\ slot \in [Tasks -> Slots]
  /\ mac \in [Tasks -> MacAddrs]
  /\ n \in [Tasks -> 0 .. TableSize]
  /\ outdated \subseteq Tasks /\ stale \in BOOLEAN /\ unsaved \in BOOLEAN

Idle == \A t \in Tasks : pc[t] = "idle"

\* However edits overlap and power is lost inside them, the counter the packet hook
\* reads is, between them, the number of valid isolated entries (dhcp_reservations.h:76
\* "Number of valid reservations with isolation enabled"); at 0 the hook lets every
\* packet pass.  Two orders of steps leave it wrong until the next recount, and only
\* they: a count is stored after another task has changed what was counted, or an
\* addition, which counts nothing, overwrites an isolated entry that another addition
\* has put in the slot it had found.
CountExactWhenIdle ==
  Idle /\ ~stale => isolated_count = Cardinality(Isolated(dhcp_reservations))

\* When no edit is under way, flash holds the table, however the edits of
\* several tasks overlapped: each saves the whole table after its last write.  A
\* save that fails leaves them apart until the next one that does not, or a restart.
PersistedWhenIdle == Idle /\ ~unsaved => nvs = dhcp_reservations
=============================================================================
