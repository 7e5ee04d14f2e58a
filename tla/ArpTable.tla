------------------------------ MODULE ArpTable ------------------------------
(***************************************************************************)
(* The table of arp.c that maps IP addresses to MAC addresses.  It learns  *)
(* from every ARP packet that net_rx_handler passes on, requests and       *)
(* replies alike, and never forgets but to make room.                      *)
(*                                                                         *)
(* A request for this machine's own address is answered by net_send, which *)
(* refuses: no device is ever up, as rtl8139_open sets the flag of another *)
(* structure than the one it was given.  So packets come in and none go    *)
(* out, and an answer changes no state.                                    *)
(***************************************************************************)
EXTENDS Naturals

CONSTANTS Ip, Mac,
          ArpEntries,    \* the code has 32
          MaxTicks,      \* bound: timer ticks
          Unheard        \* no MAC address

ASSUME ArpAssumption == ArpEntries \in Nat \ {0} /\ Unheard \notin Mac

VARIABLES
  arp_table,     \* entries [ip, mac, timestamp, valid]
  arpTicks,      \* timer_ticks()
  heard          \* history: for each IP the last MAC claimed for it, and when

arpVars == <<arp_table, arpTicks, heard>>

Slots == 1 .. ArpEntries

(* arp_init clears the table: address 0 in entries that are not valid. *)
ArpInit ==
  /\ arp_table = [s \in Slots |-> [ip |-> 0, mac |-> Unheard, timestamp |-> 0,
                                   valid |-> FALSE]]
  /\ arpTicks = 0
  /\ heard = [i \in Ip |-> [mac |-> Unheard, at |-> 0]]

Holding(i) == {s \in Slots : arp_table[s].valid /\ arp_table[s].ip = i}
First(slots) == CHOOSE s \in slots : \A t \in slots : s <= t

arp_lookup(i) ==
  IF Holding(i) = {} THEN Unheard ELSE arp_table[First(Holding(i))].mac

(* The entry an address goes to: its own, else an empty one, else the one  *)
(* not heard of for longest.                                               *)
SlotFor(i) ==
  LET empty  == {s \in Slots : ~arp_table[s].valid}
      oldest == {s \in Slots : \A t \in Slots :
                   arp_table[s].timestamp <= arp_table[t].timestamp}
  IN  IF Holding(i) # {} THEN First(Holding(i))
      ELSE IF empty # {} THEN First(empty) ELSE First(oldest)

(* Faulty variant of arp_update_table: an entry it knows keeps its time. *)
arp_update_table_KeepTime(i, m) ==
  arp_table' = [arp_table EXCEPT ![SlotFor(i)] =
                  [ip |-> i, mac |-> m, valid |-> TRUE,
                   timestamp |-> IF @.valid /\ @.ip = i THEN @.timestamp ELSE arpTicks]]

arp_update_table(i, m) ==
  arp_table' = [arp_table EXCEPT ![SlotFor(i)] =
                  [ip |-> i, mac |-> m, timestamp |-> arpTicks, valid |-> TRUE]]

arp_handle_packet(i, m) ==
  /\ arp_update_table(i, m)
  /\ heard' = [heard EXCEPT ![i] = [mac |-> m, at |-> arpTicks]]
  /\ UNCHANGED arpTicks

ArpTick ==
  /\ arpTicks < MaxTicks
  /\ arpTicks' = arpTicks + 1
  /\ UNCHANGED <<arp_table, heard>>

ArpNext ==
  \/ \E i \in Ip, m \in Mac : arp_handle_packet(i, m)
  \/ ArpTick

ArpSpec == ArpInit /\ [][ArpNext]_arpVars

(* A lookup answers with the MAC address last claimed for an IP address,   *)
(* never with an earlier one; and an address that was heard of is unknown  *)
(* only when the table is full of addresses heard of no earlier.           *)
LatestAnswerKept ==
  \A i \in Ip :
    \/ arp_lookup(i) = heard[i].mac
    \/ /\ arp_lookup(i) = Unheard
       /\ \A s \in Slots : arp_table[s].valid /\ arp_table[s].timestamp >= heard[i].at
=============================================================================
