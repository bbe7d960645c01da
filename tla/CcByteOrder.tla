---------------------------- MODULE CcByteOrder -----------------------------
(***************************************************************************)
(* Conversion between host and network byte order (lib/cc_byte_order.c):   *)
(* which fields of a structure each function converts, with which width,   *)
(* copies or clears, and the walks over the actions of a flow and the      *)
(* properties of a queue.  The host is little-endian; an hton_X that is a  *)
(* macro for ntoh_X (include/cc_byte_order.h) is the same definition.      *)
(*                                                                         *)
(* A walk subtracts from what remains of the flow or queue the length an   *)
(* action or property claims, on 16 bits, and never looks whether there is *)
(* that much: when it goes on behind the last part it is "astray".         *)
(***************************************************************************)
EXTENDS OpenFlow

VARIABLES piece,     \* the structure converted last, and what became of it
          item,      \* the flow or queue being converted
          part,      \* the index of its next action or property
          remaining  \* actions_length or properties_length

walk_vars == <<item, part, remaining>>

-----------------------------------------------------------------------------
(***************************************************************************)
(* The fields each function treats with ntohs, ntohl, ntohll, copies, sets *)
(* to zero.                                                                *)
(***************************************************************************)
Fields(s, l, ll, copy, zero) ==
  [s |-> s, l |-> l, ll |-> ll, copy |-> copy, zero |-> zero]

ntoh_match ==
  Fields({"in_port", "dl_vlan", "dl_type", "tp_src", "tp_dst"},
         {"wildcards", "nw_src", "nw_dst"}, {},
         {"dl_src", "dl_dst", "dl_vlan_pcp", "nw_tos", "nw_proto"},
         {"pad1", "pad2"})
ntoh_phy_port ==
  Fields({"port_no"},
         {"config", "state", "curr", "advertised", "supported", "peer"}, {},
         {"hw_addr", "name"}, {})

\* The conversion of an action beyond its type and length.
OfAction(s, l, copy, zero) == Fields({"type", "len"} \cup s, l, {}, copy, zero)

ntoh_action_output == OfAction({"port", "max_len"}, {}, {}, {})
ntoh_action_vlan_vid == OfAction({"vlan_vid"}, {}, {}, {"pad"})
ntoh_action_vlan_pcp == OfAction({}, {}, {"vlan_pcp"}, {"pad"})
ntoh_action_strip_vlan == OfAction({}, {}, {}, {"pad"})
ntoh_action_dl_addr == OfAction({}, {}, {"dl_addr"}, {"pad"})
ntoh_action_nw_addr == OfAction({}, {"nw_addr"}, {}, {})
ntoh_action_nw_tos == OfAction({}, {}, {"nw_tos"}, {"pad"})
ntoh_action_tp_port == OfAction({"tp_port"}, {}, {}, {"pad"})
ntoh_action_enqueue == OfAction({"port"}, {"queue_id"}, {}, {"pad"})
ntoh_action_vendor == OfAction({}, {"vendor"}, {}, {})
hton_action_vendor == ntoh_action_vendor

\* ntoh_flow_stats and hton_flow_stats, before the actions.
flow_stats_fields ==
  Fields({"length", "priority", "idle_timeout", "hard_timeout"} \cup ntoh_match.s,
         {"duration_sec", "duration_nsec"} \cup ntoh_match.l,
         {"cookie", "packet_count", "byte_count"},
         {"table_id"} \cup ntoh_match.copy,
         {"pad"} \cup ntoh_match.zero)
ntoh_aggregate_stats ==
  Fields({}, {"flow_count"}, {"packet_count", "byte_count"}, {}, {"pad"})

\* Mutation: the counters of 64 bits are taken for 32 bits.
TableStatsNarrow ==
  Fields({}, {"wildcards", "max_entries", "active_count", "lookup_count",
              "matched_count"}, {}, {"table_id", "name"}, {"pad"})

ntoh_table_stats ==
  Fields({}, {"wildcards", "max_entries", "active_count"},
         {"lookup_count", "matched_count"}, {"table_id", "name"}, {"pad"})
ntoh_port_stats ==
  Fields({"port_no"}, {},
         {"rx_packets", "tx_packets", "rx_bytes", "tx_bytes", "rx_dropped",
          "tx_dropped", "rx_errors", "tx_errors", "rx_frame_err",
          "rx_over_err", "rx_crc_err", "collisions"}, {}, {"pad"})
ntoh_queue_stats ==
  Fields({"port_no"}, {"queue_id"}, {"tx_bytes", "tx_packets", "tx_errors"},
         {}, {"pad"})

\* The property of a queue: the rate only of the type that has one.
queue_property_fields(type) ==
  Fields({"property", "len"} \cup IF type = "MIN_RATE" THEN {"rate"} ELSE {},
         {}, {}, {}, {})

\* ntoh_packet_queue and hton_packet_queue, before the properties.
packet_queue_fields == Fields({"len"}, {"queue_id"}, {}, {}, {"pad"})

-----------------------------------------------------------------------------
(***************************************************************************)
(* What a conversion does to the bytes of a field.                         *)
(***************************************************************************)
Zero == <<"zero", 0>>

\* An integer of some bytes, the least significant first, as one of k bytes.
Resized(b, k) == [i \in 1 .. k |-> IF i <= Len(b) THEN b[i] ELSE Zero]

\* ntohs, ntohl and ntohll, for k of 2, 4 and 8.
Swapped(b, k) == Resized(Reverse(Resized(b, k)), Len(b))

\* What becomes of a field; one that is left alone is zero in a new message.
Converted(fields, f, b) ==
  CASE f.name \in fields.s -> Swapped(b, 2)
    [] f.name \in fields.l -> Swapped(b, 4)
    [] f.name \in fields.ll -> Swapped(b, 8)
    [] f.name \in fields.copy -> b
    [] OTHER -> [i \in DOMAIN b |-> Zero]

IsPad(f) == f.name \in {"pad", "pad1", "pad2"}

\* A structure in the host: its bytes are told apart.
Host(struct) ==
  [i \in DOMAIN struct |->
     [j \in 1 .. struct[i].width * struct[i].count |-> <<struct[i].name, j>>]]

\* The same on the wire: integers with the most significant byte first, pads 0.
Network(struct) ==
  [i \in DOMAIN struct |->
     LET b == Host(struct)[i]
     IN IF IsPad(struct[i]) THEN [j \in DOMAIN b |-> Zero]
        ELSE IF struct[i].count = 1 THEN Reverse(b) ELSE b]

\* The conversion of one structure, to the network or to the host.
Convert(to, struct, fields) ==
  LET from == IF to = "network" THEN Host(struct) ELSE Network(struct)
  IN piece' = [struct |-> struct, order |-> to,
               bytes |-> [i \in DOMAIN struct |->
                            Converted(fields, struct[i], from[i])]]

-----------------------------------------------------------------------------
(***************************************************************************)
(* Actions and properties.                                                 *)
(***************************************************************************)
ActionStruct ==
  [OUTPUT |-> ofp_action_output, VLAN_VID |-> ofp_action_vlan_vid,
   VLAN_PCP |-> ofp_action_vlan_pcp, STRIP_VLAN |-> ofp_action_header,
   DL_SRC |-> ofp_action_dl_addr, DL_DST |-> ofp_action_dl_addr,
   NW_SRC |-> ofp_action_nw_addr, NW_DST |-> ofp_action_nw_addr,
   NW_TOS |-> ofp_action_nw_tos, TP_SRC |-> ofp_action_tp_port,
   TP_DST |-> ofp_action_tp_port, ENQUEUE |-> ofp_action_enqueue,
   VENDOR |-> ofp_action_vendor_header]
ActionFields ==
  [OUTPUT |-> ntoh_action_output, VLAN_VID |-> ntoh_action_vlan_vid,
   VLAN_PCP |-> ntoh_action_vlan_pcp, STRIP_VLAN |-> ntoh_action_strip_vlan,
   DL_SRC |-> ntoh_action_dl_addr, DL_DST |-> ntoh_action_dl_addr,
   NW_SRC |-> ntoh_action_nw_addr, NW_DST |-> ntoh_action_nw_addr,
   NW_TOS |-> ntoh_action_nw_tos, TP_SRC |-> ntoh_action_tp_port,
   TP_DST |-> ntoh_action_tp_port, ENQUEUE |-> ntoh_action_enqueue,
   VENDOR |-> hton_action_vendor]
PropertyStruct ==
  [NONE |-> ofp_queue_prop_header, MIN_RATE |-> ofp_queue_prop_min_rate]

\* The actions hton_action knows: it ends the process for any other.
Known(a) == a.type \in DOMAIN ActionStruct

\* The bytes converting an action writes: what follows the header of a vendor
\* action is copied by the length it claims, the others are of their own size.
ActionWritten(a) ==
  IF a.type = "VENDOR" THEN Max({8, a.len}) ELSE SizeOf(ActionStruct[a.type])

hton_queue_property(p) ==
  Convert("network", PropertyStruct[p.type], queue_property_fields(p.type))
ntoh_queue_property(p) ==
  Convert("host", PropertyStruct[p.type], queue_property_fields(p.type))

hton_action(a) == Convert("network", ActionStruct[a.type], ActionFields[a.type])
ntoh_action(a) == Convert("host", ActionStruct[a.type], ActionFields[a.type])

-----------------------------------------------------------------------------
(***************************************************************************)
(* The walks.                                                              *)
(***************************************************************************)
NoItem == [type |-> "NONE", len |-> 0, parts |-> <<>>]
NoPiece == [struct |-> <<>>, order |-> "host", bytes |-> <<>>]

WalkInit == item = NoItem /\ part = 0 /\ remaining = 0 /\ piece = NoPiece

BeginWalk(i, header) ==
  /\ item' = i
  /\ part' = 1
  /\ remaining' = Uint16(i.len - header)

\* The part of a structure before its actions or properties.
hton_flow_stats(i) == /\ Convert("network", ofp_flow_stats, flow_stats_fields)
                      /\ BeginWalk(i, SizeOf(ofp_flow_stats))
ntoh_flow_stats(i) == /\ Convert("host", ofp_flow_stats, flow_stats_fields)
                      /\ BeginWalk(i, SizeOf(ofp_flow_stats))
hton_packet_queue(i) == /\ Convert("network", ofp_packet_queue, packet_queue_fields)
                        /\ BeginWalk(i, SizeOf(ofp_packet_queue))
ntoh_packet_queue(i) == /\ Convert("host", ofp_packet_queue, packet_queue_fields)
                        /\ BeginWalk(i, SizeOf(ofp_packet_queue))

\* The loop goes on as long as a header could follow, there or not.
MoreParts == item # NoItem /\ remaining >= 8

\* Where the next part is, behind the header and the parts before it; outside
\* of the flow or queue the walk has gone astray.
Position(header) ==
  FoldSeq(LAMBDA p, n : n + p.len, header, SubSeq(item.parts, 1, part - 1))
IsAstray(header) == part > Len(item.parts) \/ Position(header) >= item.len

\* Behind a part that claims len bytes.
NextPart(len) == /\ part' = part + 1
                 /\ remaining' = Uint16(remaining - len)
                 /\ UNCHANGED item

EndWalk == item' = NoItem /\ part' = 0 /\ remaining' = 0

-----------------------------------------------------------------------------
(***************************************************************************)
(* Properties.                                                             *)
(***************************************************************************)
\* Every structure is converted as a whole: on the wire each integer has its
\* most significant byte first, each name and address its own order and each
\* pad is zero; back in the host every field has the value it was given.
ConvertedWhole ==
  \A i \in DOMAIN piece.struct :
    IF piece.order = "network" THEN piece.bytes[i] = Network(piece.struct)[i]
    ELSE IsPad(piece.struct[i]) \/ piece.bytes[i] = Host(piece.struct)[i]
=============================================================================
