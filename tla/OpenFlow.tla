------------------------------ MODULE OpenFlow ------------------------------
(***************************************************************************)
(* The structures of OpenFlow 1.0 (include/openflow.h), as the sequences   *)
(* of their fields: name, bytes of one element, number of elements.  What  *)
(* depends on the structures (their sizes, where an array behind one       *)
(* begins, what a conversion does to a field) is computed from them.       *)
(***************************************************************************)
EXTENDS Integers, Sequences, SequencesExt, FiniteSetsExt

Max16 == 65535  \* USHRT_MAX

\* Mutation: the arithmetic is not on 16 bits.
Unbounded(n) == n

\* What a uint16_t holds of n.
Uint16(n) == n % (Max16 + 1)

-----------------------------------------------------------------------------
Field(f, width, count) == [name |-> f, width |-> width, count |-> count]
u8(f) == Field(f, 1, 1)
u16(f) == Field(f, 2, 1)
u32(f) == Field(f, 4, 1)
u64(f) == Field(f, 8, 1)
bytes(f, n) == Field(f, 1, n)

\* All the fields of one type.
Each(type(_), names) == [i \in DOMAIN names |-> type(names[i])]

ofp_header == <<u8("version"), u8("type"), u16("length"), u32("xid")>>

\* Configuration of the switch and reports of its ports.
ofp_switch_config == ofp_header \o <<u16("flags"), u16("miss_send_len")>>
ofp_phy_port ==
  <<u16("port_no"), bytes("hw_addr", 6), bytes("name", 16)>>
    \o Each(u32, <<"config", "state", "curr", "advertised", "supported", "peer">>)
ofp_switch_features ==
  ofp_header \o <<u64("datapath_id"), u32("n_buffers"), u8("n_tables"),
                  bytes("pad", 3), u32("capabilities"), u32("actions")>>
ofp_port_status == ofp_header \o <<u8("reason"), bytes("pad", 7)>> \o ofp_phy_port
ofp_port_mod ==
  ofp_header \o <<u16("port_no"), bytes("hw_addr", 6), u32("config"),
                  u32("mask"), u32("advertise"), bytes("pad", 4)>>
ofp_packet_in ==
  ofp_header \o <<u32("buffer_id"), u16("total_len"), u16("in_port"),
                  u8("reason"), bytes("pad", 1)>>

\* Actions.
ActionOf(fields) == Each(u16, <<"type", "len">>) \o fields
ofp_action_output == ActionOf(Each(u16, <<"port", "max_len">>))
ofp_action_vlan_vid == ActionOf(<<u16("vlan_vid"), bytes("pad", 2)>>)
ofp_action_vlan_pcp == ActionOf(<<u8("vlan_pcp"), bytes("pad", 3)>>)
ofp_action_dl_addr == ActionOf(<<bytes("dl_addr", 6), bytes("pad", 6)>>)
ofp_action_nw_addr == ActionOf(<<u32("nw_addr")>>)
ofp_action_tp_port == ActionOf(<<u16("tp_port"), bytes("pad", 2)>>)
ofp_action_nw_tos == ActionOf(<<u8("nw_tos"), bytes("pad", 3)>>)
ofp_action_vendor_header == ActionOf(<<u32("vendor")>>)
ofp_action_header == ActionOf(<<bytes("pad", 4)>>)
ofp_action_enqueue ==
  ActionOf(<<u16("port"), bytes("pad", 6), u32("queue_id")>>)

\* Packets and flows.
ofp_packet_out ==
  ofp_header \o <<u32("buffer_id"), u16("in_port"), u16("actions_len")>>
ofp_match ==
  <<u32("wildcards"), u16("in_port"), bytes("dl_src", 6), bytes("dl_dst", 6),
    u16("dl_vlan"), u8("dl_vlan_pcp"), bytes("pad1", 1), u16("dl_type"),
    u8("nw_tos"), u8("nw_proto"), bytes("pad2", 2), u32("nw_src"),
    u32("nw_dst"), u16("tp_src"), u16("tp_dst")>>
ofp_flow_mod ==
  ofp_header \o ofp_match \o <<u64("cookie")>>
    \o Each(u16, <<"command", "idle_timeout", "hard_timeout", "priority">>)
    \o <<u32("buffer_id"), u16("out_port"), u16("flags")>>
ofp_flow_removed ==
  ofp_header \o ofp_match
    \o <<u64("cookie"), u16("priority"), u8("reason"), bytes("pad", 1),
         u32("duration_sec"), u32("duration_nsec"), u16("idle_timeout"),
         bytes("pad2", 2), u64("packet_count"), u64("byte_count")>>

\* Errors, statistics and vendor messages.
ofp_error_msg == ofp_header \o Each(u16, <<"type", "code">>)
ofp_stats_request == ofp_header \o Each(u16, <<"type", "flags">>)
ofp_stats_reply == ofp_stats_request
ofp_desc_stats ==
  <<bytes("mfr_desc", 256), bytes("hw_desc", 256), bytes("sw_desc", 256),
    bytes("serial_num", 32), bytes("dp_desc", 256)>>
ofp_flow_stats_request ==
  ofp_match \o <<u8("table_id"), bytes("pad", 1), u16("out_port")>>
ofp_aggregate_stats_request == ofp_flow_stats_request
ofp_flow_stats ==
  <<u16("length"), u8("table_id"), bytes("pad", 1)>> \o ofp_match
    \o <<u32("duration_sec"), u32("duration_nsec"), u16("priority"),
         u16("idle_timeout"), u16("hard_timeout"), bytes("pad2", 6)>>
    \o Each(u64, <<"cookie", "packet_count", "byte_count">>)
ofp_aggregate_stats_reply ==
  <<u64("packet_count"), u64("byte_count"), u32("flow_count"), bytes("pad", 4)>>
ofp_table_stats ==
  <<u8("table_id"), bytes("pad", 3), bytes("name", 32)>>
    \o Each(u32, <<"wildcards", "max_entries", "active_count">>)
    \o Each(u64, <<"lookup_count", "matched_count">>)
ofp_port_stats_request == <<u16("port_no"), bytes("pad", 6)>>
ofp_port_stats ==
  <<u16("port_no"), bytes("pad", 6)>>
    \o Each(u64, <<"rx_packets", "tx_packets", "rx_bytes", "tx_bytes",
                   "rx_dropped", "tx_dropped", "rx_errors", "tx_errors",
                   "rx_frame_err", "rx_over_err", "rx_crc_err", "collisions">>)
ofp_vendor_header == ofp_header \o <<u32("vendor")>>

\* Queues.
ofp_queue_prop_header == Each(u16, <<"property", "len">>) \o <<bytes("pad", 4)>>
ofp_queue_prop_min_rate ==
  ofp_queue_prop_header \o <<u16("rate"), bytes("pad", 6)>>
ofp_packet_queue == <<u32("queue_id"), u16("len"), bytes("pad", 2)>>
ofp_queue_get_config_request == ofp_header \o <<u16("port"), bytes("pad", 2)>>
ofp_queue_get_config_reply == ofp_header \o <<u16("port"), bytes("pad", 6)>>
ofp_queue_stats_request == <<u16("port_no"), bytes("pad", 2), u32("queue_id")>>
ofp_queue_stats ==
  ofp_queue_stats_request \o Each(u64, <<"tx_bytes", "tx_packets", "tx_errors">>)

-----------------------------------------------------------------------------
\* Where the array of no elements behind a structure begins.
EndOf(struct) == FoldSeq(LAMBDA f, n : n + f.width * f.count, 0, struct)

\* sizeof: a structure ends where the next one could begin.
SizeOf(struct) ==
  LET align == Max({f.width : f \in ToSet(struct)})
  IN align * ((EndOf(struct) + align - 1) \div align)

\* The assertions of the header on the sizes.
ASSUME OfpAssertions ==
  /\ SizeOf(ofp_header) = 8
  /\ \A s \in {ofp_switch_config, ofp_error_msg, ofp_stats_request,
               ofp_vendor_header, ofp_queue_get_config_request} : SizeOf(s) = 12
  /\ SizeOf(ofp_phy_port) = 48 /\ SizeOf(ofp_switch_features) = 32
  /\ SizeOf(ofp_port_status) = 64 /\ SizeOf(ofp_port_mod) = 32
  /\ SizeOf(ofp_packet_in) = 20 /\ SizeOf(ofp_packet_out) = 16
  /\ \A s \in {ofp_action_output, ofp_action_vlan_vid, ofp_action_vlan_pcp,
               ofp_action_nw_addr, ofp_action_tp_port, ofp_action_nw_tos,
               ofp_action_vendor_header, ofp_action_header,
               ofp_queue_prop_header, ofp_packet_queue, ofp_port_stats_request,
               ofp_queue_stats_request} : SizeOf(s) = 8
  /\ \A s \in {ofp_action_dl_addr, ofp_action_enqueue, ofp_queue_prop_min_rate,
               ofp_queue_get_config_reply} : SizeOf(s) = 16
  /\ SizeOf(ofp_match) = 40 /\ SizeOf(ofp_flow_mod) = 72
  /\ SizeOf(ofp_flow_removed) = 88 /\ SizeOf(ofp_desc_stats) = 1056
  /\ SizeOf(ofp_flow_stats_request) = 44 /\ SizeOf(ofp_flow_stats) = 88
  /\ SizeOf(ofp_aggregate_stats_reply) = 24 /\ SizeOf(ofp_table_stats) = 64
  /\ SizeOf(ofp_port_stats) = 104 /\ SizeOf(ofp_queue_stats) = 32
=============================================================================
