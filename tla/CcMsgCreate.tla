---------------------------- MODULE CcMsgCreate -----------------------------
(***************************************************************************)
(* Making one OpenFlow message (lib/cc_of_msg_create.c): the 16-bit length *)
(* a creator gives the message, what it writes into it, and the loops over *)
(* lists of ports, statistics, actions, flows and queues.                  *)
(*                                                                         *)
(* A creator is represented by a plan: the length of the message, where    *)
(* the writing of its fixed part, data or array ends, and where its list   *)
(* of actions, flows or queues is to be written.  append_back_buffer is    *)
(* taken at its word: the message gets a buffer of that length.            *)
(***************************************************************************)
EXTENDS CcByteOrder

CONSTANTS PartLengths,   \* bound: the lengths actions and properties claim
          WholeLengths,  \* bound: the lengths flows and queues claim
          DataLengths,   \* bound: the lengths of data, 0 for none
          Counts,        \* bound: the numbers of elements of an array
          MaxActions,    \* bound: the actions of a message
          Shapes         \* bound: of flows or queues, at most how many, and
                         \* of how many actions or properties, as a pair

ASSUME CreateAssumption ==
  /\ PartLengths \cup WholeLengths \subseteq 8 .. Max16
  /\ DataLengths \cup Counts \subseteq Nat
  /\ MaxActions \in Nat /\ Shapes \subseteq Nat \X Nat

VARIABLES content,  \* what the message is made from
          stage,
          plan,     \* what the creator has computed
          todo,     \* the items of the list still to be converted
          at,       \* where the next of them is written
          end       \* the end of what has been written

create_vars == <<content, stage, plan, todo, at, end, piece, walk_vars>>

-----------------------------------------------------------------------------
(***************************************************************************)
(* The creators.                                                           *)
(***************************************************************************)
\* cc_create_header: the message is cleared, its header written.
cc_create_header(length) == [length |-> Uint16(length), end |-> 8, from |-> 8]

\* A message that is one structure, or a header of statistics and one.
OfSize(n) == [cc_create_header(n) EXCEPT !.end = n, !.from = n]

\* A message of n bytes and data, of which so much is copied.
WithData(n, data, copied) ==
  [cc_create_header(n + Uint16(data)) EXCEPT
     !.end = n + IF Uint16(data) > 0 THEN copied ELSE 0]

\* A message of n bytes and count elements, counted on 16 bits.
WithArray(n, struct, count) ==
  [cc_create_header(n + SizeOf(struct) * Uint16(count)) EXCEPT
     !.end = n + SizeOf(struct) * count]

\* A message of n bytes, a list whose lengths are summed on 16 bits, and data.
ListLength(items) == FoldSeq(LAMBDA i, n : Uint16(n + i.len), 0, items)
WithList(n, items, data) ==
  [cc_create_header(n + ListLength(items) + Uint16(data)) EXCEPT
     !.end = n + IF Uint16(data) > 0 THEN ListLength(items) + Uint16(data) ELSE 0,
     !.from = n]

cc_create_error(c) == WithData(SizeOf(ofp_error_msg), c.data, c.data)
cc_create_hello(c) == OfSize(SizeOf(ofp_header))
cc_create_echo_request(c) == WithData(SizeOf(ofp_header), c.data, Uint16(c.data))
cc_create_echo_reply(c) == WithData(SizeOf(ofp_header), c.data, Uint16(c.data))
cc_create_vendor(c) == WithData(SizeOf(ofp_vendor_header), c.data, Uint16(c.data))
cc_create_features_request(c) == OfSize(SizeOf(ofp_header))

\* Mutation: the length falls a byte short of the ports.
FeaturesReplyTooShort(c) ==
  [WithArray(EndOf(ofp_switch_features), ofp_phy_port, c.count) EXCEPT
     !.length = Uint16(@ - 1)]

cc_create_features_reply(c) ==
  IF Uint16(c.count) = 0 THEN OfSize(EndOf(ofp_switch_features))
  ELSE WithArray(EndOf(ofp_switch_features), ofp_phy_port, c.count)
cc_create_get_config_request(c) == OfSize(SizeOf(ofp_header))
cc_create_get_config_reply(c) == OfSize(SizeOf(ofp_switch_config))
cc_create_set_config(c) == OfSize(SizeOf(ofp_switch_config))
cc_create_packet_in(c) == WithData(EndOf(ofp_packet_in), c.data, Uint16(c.data))
cc_create_flow_removed(c) == OfSize(SizeOf(ofp_flow_removed))
cc_create_port_status(c) == OfSize(SizeOf(ofp_port_status))

\* An Ethernet frame is 64 bytes, 4 of them its check sequence.
MinFrame == 60
FrameMissing(c) == c.kind = "PACKET_OUT" /\ ~c.buffered /\ c.data < MinFrame
cc_create_packet_out(c) == WithList(EndOf(ofp_packet_out), c.items, c.data)
cc_create_flow_mod(c) == WithList(EndOf(ofp_flow_mod), c.items, 0)
cc_create_port_mod(c) == OfSize(SizeOf(ofp_port_mod))

\* Mutation: a request is made as long as its header.
StatsRequestWithoutBody(n) == OfSize(EndOf(ofp_stats_request))

\* cc_create_stats_request and cc_create_stats_reply for one structure.
cc_create_stats_request(n) == OfSize(EndOf(ofp_stats_request) + n)
cc_create_stats_reply(n) == OfSize(EndOf(ofp_stats_reply) + n)
cc_create_desc_stats_request(c) == cc_create_stats_request(0)
cc_create_flow_stats_request(c) ==
  cc_create_stats_request(SizeOf(ofp_flow_stats_request))
cc_create_aggregate_stats_request(c) ==
  cc_create_stats_request(SizeOf(ofp_aggregate_stats_request))
cc_create_table_stats_request(c) == cc_create_stats_request(0)
cc_create_port_stats_request(c) ==
  cc_create_stats_request(SizeOf(ofp_port_stats_request))
cc_create_queue_stats_request(c) ==
  cc_create_stats_request(SizeOf(ofp_queue_stats_request))
cc_create_vendor_stats_request(c) ==
  WithData(EndOf(ofp_stats_request) + 4, c.data, Uint16(c.data))
cc_create_desc_stats_reply(c) == cc_create_stats_reply(SizeOf(ofp_desc_stats))

cc_create_flow_stats_reply(c) == WithList(EndOf(ofp_stats_reply), c.items, 0)
cc_create_aggregate_stats_reply(c) ==
  cc_create_stats_reply(SizeOf(ofp_aggregate_stats_reply))
cc_create_table_stats_reply(c) ==
  WithArray(EndOf(ofp_stats_reply), ofp_table_stats, c.count)
cc_create_port_stats_reply(c) ==
  WithArray(EndOf(ofp_stats_reply), ofp_port_stats, c.count)
cc_create_queue_stats_reply(c) ==
  WithArray(EndOf(ofp_stats_reply), ofp_queue_stats, c.count)
cc_create_vendor_stats_reply(c) ==
  WithData(EndOf(ofp_stats_reply) + 4, c.data, Uint16(c.data))
cc_create_barrier_request(c) == OfSize(SizeOf(ofp_header))
cc_create_barrier_reply(c) == OfSize(SizeOf(ofp_header))
cc_create_queue_get_config_request(c) ==
  OfSize(SizeOf(ofp_queue_get_config_request))
cc_create_queue_get_config_reply(c) ==
  WithList(EndOf(ofp_queue_get_config_reply), c.items, 0)

\* The creator of a message of each kind.
PlanOf(c) ==
  CASE c.kind = "HELLO" -> cc_create_hello(c)
    [] c.kind = "ERROR" -> cc_create_error(c)
    [] c.kind = "ECHO_REQUEST" -> cc_create_echo_request(c)
    [] c.kind = "ECHO_REPLY" -> cc_create_echo_reply(c)
    [] c.kind = "VENDOR" -> cc_create_vendor(c)
    [] c.kind = "FEATURES_REQUEST" -> cc_create_features_request(c)
    [] c.kind = "FEATURES_REPLY" -> cc_create_features_reply(c)
    [] c.kind = "GET_CONFIG_REQUEST" -> cc_create_get_config_request(c)
    [] c.kind = "GET_CONFIG_REPLY" -> cc_create_get_config_reply(c)
    [] c.kind = "SET_CONFIG" -> cc_create_set_config(c)
    [] c.kind = "PACKET_IN" -> cc_create_packet_in(c)
    [] c.kind = "FLOW_REMOVED" -> cc_create_flow_removed(c)
    [] c.kind = "PORT_STATUS" -> cc_create_port_status(c)
    [] c.kind = "PACKET_OUT" -> cc_create_packet_out(c)
    [] c.kind = "FLOW_MOD" -> cc_create_flow_mod(c)
    [] c.kind = "PORT_MOD" -> cc_create_port_mod(c)
    [] c.kind = "DESC_REQUEST" -> cc_create_desc_stats_request(c)
    [] c.kind = "FLOW_REQUEST" -> cc_create_flow_stats_request(c)
    [] c.kind = "AGGREGATE_REQUEST" -> cc_create_aggregate_stats_request(c)
    [] c.kind = "TABLE_REQUEST" -> cc_create_table_stats_request(c)
    [] c.kind = "PORT_REQUEST" -> cc_create_port_stats_request(c)
    [] c.kind = "QUEUE_REQUEST" -> cc_create_queue_stats_request(c)
    [] c.kind = "VENDOR_REQUEST" -> cc_create_vendor_stats_request(c)
    [] c.kind = "DESC_REPLY" -> cc_create_desc_stats_reply(c)
    [] c.kind = "FLOW_REPLY" -> cc_create_flow_stats_reply(c)
    [] c.kind = "AGGREGATE_REPLY" -> cc_create_aggregate_stats_reply(c)
    [] c.kind = "TABLE_REPLY" -> cc_create_table_stats_reply(c)
    [] c.kind = "PORT_REPLY" -> cc_create_port_stats_reply(c)
    [] c.kind = "QUEUE_REPLY" -> cc_create_queue_stats_reply(c)
    [] c.kind = "VENDOR_REPLY" -> cc_create_vendor_stats_reply(c)
    [] c.kind = "BARRIER_REQUEST" -> cc_create_barrier_request(c)
    [] c.kind = "BARRIER_REPLY" -> cc_create_barrier_reply(c)
    [] c.kind = "QUEUE_GET_CONFIG_REQUEST" -> cc_create_queue_get_config_request(c)
    [] c.kind = "QUEUE_GET_CONFIG_REPLY" -> cc_create_queue_get_config_reply(c)

-----------------------------------------------------------------------------
(***************************************************************************)
(* What a message may be made from.                                        *)
(***************************************************************************)
WithDataOnly == {"ERROR", "ECHO_REQUEST", "ECHO_REPLY", "VENDOR", "PACKET_IN",
                 "VENDOR_REQUEST", "VENDOR_REPLY"}
WithArrayOnly == {"FEATURES_REPLY", "TABLE_REPLY", "PORT_REPLY", "QUEUE_REPLY"}
WithItems == {"PACKET_OUT", "FLOW_MOD", "FLOW_REPLY", "QUEUE_GET_CONFIG_REPLY"}
OfOneSize ==
  {"HELLO", "FEATURES_REQUEST", "GET_CONFIG_REQUEST", "GET_CONFIG_REPLY",
   "SET_CONFIG", "FLOW_REMOVED", "PORT_STATUS", "PORT_MOD", "DESC_REQUEST",
   "FLOW_REQUEST", "AGGREGATE_REQUEST", "TABLE_REQUEST", "PORT_REQUEST",
   "QUEUE_REQUEST", "DESC_REPLY", "AGGREGATE_REPLY", "BARRIER_REQUEST",
   "BARRIER_REPLY", "QUEUE_GET_CONFIG_REQUEST"}

Lists(S, n) == UNION {[1 .. k -> S] : k \in 0 .. n}

Of(kinds, data, counts, items, buffered) ==
  [kind : kinds, data : data, count : counts, items : items, buffered : buffered]

\* An item claims the length of a header at least.
Parts(types) ==
  {[type |-> t, len |-> n, parts |-> <<>>] : t \in types, n \in PartLengths}
Actions == Parts(DOMAIN ActionStruct \cup {"UNDEFINED"})

\* Flows or queues of actions or properties, in the numbers of one of the
\* shapes; actions in them are of fewer types.
Whole(types, n) == {[type |-> "NONE", len |-> len, parts |-> ps] :
                      len \in WholeLengths, ps \in Lists(Parts(types), n)}
Wholes(types) == UNION {Lists(Whole(types, s[2]), s[1]) : s \in Shapes}
Flows == Wholes({"OUTPUT", "ENQUEUE", "VENDOR", "UNDEFINED"})
Queues == Wholes(DOMAIN PropertyStruct)

Contents ==
  Of(OfOneSize, {0}, {0}, {<<>>}, {TRUE})
    \cup Of(WithDataOnly, DataLengths, {0}, {<<>>}, {TRUE})
    \cup Of(WithArrayOnly, {0}, Counts, {<<>>}, {TRUE})
    \cup Of({"PACKET_OUT"}, DataLengths, {0}, Lists(Actions, MaxActions), BOOLEAN)
    \cup Of({"FLOW_MOD"}, {0}, {0}, Lists(Actions, MaxActions), {TRUE})
    \cup Of({"FLOW_REPLY"}, {0}, {0}, Flows, {TRUE})
    \cup Of({"QUEUE_GET_CONFIG_REPLY"}, {0}, {0}, Queues, {TRUE})

\* The structures of a message that are converted by a function of their own.
Structure ==
  [FEATURES_REPLY |-> <<ofp_phy_port, ntoh_phy_port>>,
   PORT_STATUS |-> <<ofp_phy_port, ntoh_phy_port>>,
   FLOW_REMOVED |-> <<ofp_match, ntoh_match>>,
   FLOW_MOD |-> <<ofp_match, ntoh_match>>,
   FLOW_REQUEST |-> <<ofp_match, ntoh_match>>,
   AGGREGATE_REQUEST |-> <<ofp_match, ntoh_match>>,
   AGGREGATE_REPLY |-> <<ofp_aggregate_stats_reply, ntoh_aggregate_stats>>,
   TABLE_REPLY |-> <<ofp_table_stats, ntoh_table_stats>>,
   PORT_REPLY |-> <<ofp_port_stats, ntoh_port_stats>>,
   QUEUE_REPLY |-> <<ofp_queue_stats, ntoh_queue_stats>>]

HasStructure == /\ content.kind \in DOMAIN Structure
                /\ content.kind \in WithArrayOnly => content.count > 0
ConvertStructure(to) ==
  IF HasStructure
  THEN Convert(to, Structure[content.kind][1], Structure[content.kind][2])
  ELSE UNCHANGED piece

-----------------------------------------------------------------------------
(***************************************************************************)
(* Making a message.                                                       *)
(***************************************************************************)
NoPlan == [length |-> 0, end |-> 0, from |-> 0]

CreateInit ==
  /\ content \in Contents
  /\ stage = "call"
  /\ plan = NoPlan /\ todo = <<>> /\ at = 0 /\ end = 0
  /\ WalkInit

Wrote(upto) == end' = Max({end, upto})

IsFlow == content.kind = "FLOW_REPLY"
HeaderOf == SizeOf(IF IsFlow THEN ofp_flow_stats ELSE ofp_packet_queue)

\* The loop over actions is entered when their lengths do not sum to 0, on 16
\* bits; the one over flows or queues whenever there are any.
Listed ==
  IF content.kind \in {"PACKET_OUT", "FLOW_MOD"} /\ ListLength(content.items) = 0
  THEN <<>> ELSE content.items

\* A creator up to the loop over its list, if there is one.
Create ==
  /\ stage = "call"
  /\ UNCHANGED <<content, walk_vars>>
  /\ IF FrameMissing(content)
     THEN stage' = "refused" /\ UNCHANGED <<plan, todo, at, end, piece>>
     ELSE LET p == PlanOf(content)
          IN /\ plan' = p
             /\ end' = Max({8, p.end})
             /\ at' = p.from
             /\ todo' = Listed
             /\ ConvertStructure("network")
             /\ stage' = "put"

\* One action of a packet or flow modification; die() ends the process.
PutAction ==
  /\ stage = "put"
  /\ todo # <<>>
  /\ content.kind \in {"PACKET_OUT", "FLOW_MOD"}
  /\ UNCHANGED <<content, plan, walk_vars>>
  /\ LET a == Head(todo)
     IN IF Known(a)
        THEN /\ hton_action(a)
             /\ Wrote(at + ActionWritten(a))
             /\ at' = at + a.len
             /\ todo' = Tail(todo)
             /\ UNCHANGED stage
        ELSE stage' = "died" /\ UNCHANGED <<todo, at, end, piece>>

\* A flow or a queue before its actions or properties.
PutItem ==
  /\ stage = "put"
  /\ item = NoItem
  /\ todo # <<>>
  /\ content.kind \in {"FLOW_REPLY", "QUEUE_GET_CONFIG_REPLY"}
  /\ IF IsFlow THEN hton_flow_stats(Head(todo)) ELSE hton_packet_queue(Head(todo))
  /\ Wrote(at + HeaderOf)
  /\ UNCHANGED <<content, stage, plan, todo, at>>

\* An action of the flow, a property of the queue.
PutPart ==
  /\ stage = "put"
  /\ MoreParts
  /\ UNCHANGED <<content, plan, todo, at>>
  /\ IF IsAstray(HeaderOf)
     THEN stage' = "astray" /\ UNCHANGED <<end, piece, walk_vars>>
     ELSE LET p == item.parts[part]
          IN IF IsFlow /\ ~Known(p)
             THEN stage' = "died" /\ UNCHANGED <<end, piece, walk_vars>>
             ELSE /\ IF IsFlow THEN hton_action(p) ELSE hton_queue_property(p)
                  /\ Wrote(at + Position(HeaderOf)
                             + IF IsFlow THEN ActionWritten(p)
                               ELSE SizeOf(PropertyStruct[p.type]))
                  /\ NextPart(p.len)
                  /\ UNCHANGED stage

PutItemEnd ==
  /\ stage = "put"
  /\ item # NoItem
  /\ ~MoreParts
  /\ at' = at + item.len
  /\ todo' = Tail(todo)
  /\ EndWalk
  /\ UNCHANGED <<content, stage, plan, end, piece>>

Made ==
  /\ stage = "put"
  /\ todo = <<>>
  /\ stage' = "made"
  /\ UNCHANGED <<content, plan, todo, at, end, piece, walk_vars>>

CreateNext == Create \/ PutAction \/ PutItem \/ PutPart \/ PutItemEnd \/ Made

-----------------------------------------------------------------------------
(***************************************************************************)
(* Reading a message whose validator has accepted it: the same conversions *)
(* back, of the structures its validator and its reader look at.           *)
(***************************************************************************)
GetStructure ==
  /\ stage = "accepted"
  /\ stage' = "get"
  /\ todo' = Listed
  /\ ConvertStructure("host")
  /\ UNCHANGED <<content, plan, at, end, walk_vars>>

GetAction ==
  /\ stage = "get"
  /\ todo # <<>>
  /\ content.kind \in {"PACKET_OUT", "FLOW_MOD"}
  /\ ntoh_action(Head(todo))
  /\ todo' = Tail(todo)
  /\ UNCHANGED <<content, stage, plan, at, end, walk_vars>>

GetItem ==
  /\ stage = "get"
  /\ item = NoItem
  /\ todo # <<>>
  /\ content.kind \in {"FLOW_REPLY", "QUEUE_GET_CONFIG_REPLY"}
  /\ IF IsFlow THEN ntoh_flow_stats(Head(todo)) ELSE ntoh_packet_queue(Head(todo))
  /\ UNCHANGED <<content, stage, plan, todo, at, end>>

GetPart ==
  /\ stage = "get"
  /\ MoreParts
  /\ UNCHANGED <<content, plan, todo, at, end>>
  /\ IF IsAstray(HeaderOf)
     THEN stage' = "astray" /\ UNCHANGED <<piece, walk_vars>>
     ELSE LET p == item.parts[part]
          IN /\ IF IsFlow THEN ntoh_action(p) ELSE ntoh_queue_property(p)
             /\ NextPart(p.len)
             /\ UNCHANGED stage

GetItemEnd ==
  /\ stage = "get"
  /\ item # NoItem
  /\ ~MoreParts
  /\ todo' = Tail(todo)
  /\ EndWalk
  /\ UNCHANGED <<content, stage, plan, at, end, piece>>

Got ==
  /\ stage = "get"
  /\ todo = <<>>
  /\ stage' = "got"
  /\ UNCHANGED <<content, plan, todo, at, end, piece, walk_vars>>

GetNext == GetStructure \/ GetAction \/ GetItem \/ GetPart \/ GetItemEnd \/ Got

-----------------------------------------------------------------------------
(***************************************************************************)
(* Properties.                                                             *)
(***************************************************************************)
\* An item whose length is the one of its structure and of its parts.
WellFormedAction(a) ==
  Known(a) /\ (a.len = SizeOf(ActionStruct[a.type]) \/ a.type = "VENDOR")
WellFormedProperty(p) == p.len = SizeOf(PropertyStruct[p.type])
SumOfLengths(items) == FoldSeq(LAMBDA i, n : n + i.len, 0, items)
WellFormedItem(kind, i) ==
  CASE kind = "FLOW_REPLY" ->
         /\ i.len = SizeOf(ofp_flow_stats) + SumOfLengths(i.parts)
         /\ \A a \in ToSet(i.parts) : WellFormedAction(a)
    [] kind = "QUEUE_GET_CONFIG_REPLY" ->
         /\ i.len = SizeOf(ofp_packet_queue) + SumOfLengths(i.parts)
         /\ \A p \in ToSet(i.parts) : WellFormedProperty(p)
    [] OTHER -> WellFormedAction(i)
WellFormed(c) == \A i \in ToSet(c.items) : WellFormedItem(c.kind, i)

\* The length the message would need.
EmptyOf(c) == [c EXCEPT !.data = 0, !.count = 0, !.items = <<>>]
NeededLength(c) ==
  PlanOf(EmptyOf(c)).length + c.data + SumOfLengths(c.items)
    + IF c.kind \in WithArrayOnly THEN c.count * SizeOf(Structure[c.kind][1]) ELSE 0
Fits(c) == NeededLength(c) <= Max16

\* A creator does not write behind the message it makes, unless what it was
\* given does not fit into a message (it is not refused: the length wraps) or
\* an item claims a length that is not its own.
WritesStayInside ==
  end > plan.length => ~WellFormed(content) \/ ~Fits(content)
=============================================================================
