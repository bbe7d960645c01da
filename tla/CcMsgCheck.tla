----------------------------- MODULE CcMsgCheck -----------------------------
(***************************************************************************)
(* The validation of one OpenFlow 1.0 message (lib/cc_of_msg_check.c):     *)
(* validate_openflow_message, the validators it and the handlers of        *)
(* lib/cc_of_msg_recv.c call, their walks over ports, statistics, actions, *)
(* flows and queues with 16-bit lengths and offsets, and the translation   *)
(* of what they find into an OpenFlow error.                               *)
(*                                                                         *)
(* A fixed field is represented by the error it causes when its value is   *)
(* not allowed.  What a walk reads at an offset it has not seen is any     *)
(* item: the code does not compare an offset with the end of the message.  *)
(* A walk that comes back to an item it has let through goes round for     *)
(* ever, "stuck".  When a flow or queue claims more bytes than are left,   *)
(* what is left wraps on 16 bits and the walk goes on behind the message,  *)
(* until it adds up by chance, or the process is killed where no memory    *)
(* is, "astray".                                                           *)
(***************************************************************************)
EXTENDS Integers, Sequences, FiniteSets, SequencesExt, OpenFlow

CONSTANTS Bodies,       \* bound: the sizes of a variable part
          ItemLengths,  \* bound: the lengths items of a body claim
          MaxItems      \* bound: items of a list, flows or queues before the
                        \* one that ends it

ASSUME CheckAssumption == /\ Bodies \cup ItemLengths \subseteq 0 .. Max16
                          /\ MaxItems \in Nat

VARIABLES msg,     \* the message
          by,      \* the validator it was handed to
          pc,
          left,    \* ports, flows or queues still to come, in items or bytes
          offset,  \* of an action or property in its list
          length,  \* of that list
          seen,    \* the offsets of the items of the list let through
          wrapped, \* history: an offset or what is left wrapped at 16 bits
          lens,    \* the lengths of the flows or queues seen
          result   \* what the validator returns

list == <<offset, length, seen>>
walk == <<left, list, wrapped, lens>>
vars == <<msg, by, pc, walk, result>>

-----------------------------------------------------------------------------
(***************************************************************************)
(* The validators: sizes, fixed fields, items of the variable part.        *)
(***************************************************************************)
Exactly(n) == [min |-> n, max |-> n]
AtLeast(n) == [min |-> n, max |-> Max16]

\* The bounds each validator passes to validate_header.
Size ==
  [HELLO |-> Exactly(8), ERROR |-> AtLeast(12), ECHO_REQUEST |-> AtLeast(8),
   ECHO_REPLY |-> AtLeast(8), VENDOR |-> AtLeast(12),
   FEATURES_REQUEST |-> Exactly(8), FEATURES_REPLY |-> AtLeast(32),
   GET_CONFIG_REQUEST |-> Exactly(8), GET_CONFIG_REPLY |-> Exactly(12),
   SET_CONFIG |-> Exactly(12), PACKET_IN |-> AtLeast(18),
   FLOW_REMOVED |-> Exactly(88), PORT_STATUS |-> Exactly(64),
   PACKET_OUT |-> AtLeast(16), FLOW_MOD |-> AtLeast(72),
   PORT_MOD |-> Exactly(32),
   DESC_REQUEST |-> Exactly(12), FLOW_REQUEST |-> Exactly(56),
   AGGREGATE_REQUEST |-> Exactly(56), TABLE_REQUEST |-> Exactly(12),
   PORT_REQUEST |-> Exactly(20), QUEUE_REQUEST |-> Exactly(20),
   VENDOR_REQUEST |-> AtLeast(16),
   DESC_REPLY |-> [min |-> 12, max |-> 1068], FLOW_REPLY |-> AtLeast(12),
   AGGREGATE_REPLY |-> [min |-> 12, max |-> 36], TABLE_REPLY |-> AtLeast(12),
   PORT_REPLY |-> AtLeast(12), QUEUE_REPLY |-> AtLeast(12),
   VENDOR_REPLY |-> AtLeast(12),
   BARRIER_REQUEST |-> Exactly(8), BARRIER_REPLY |-> Exactly(8),
   QUEUE_GET_CONFIG_REQUEST |-> Exactly(12),
   QUEUE_GET_CONFIG_REPLY |-> AtLeast(24)]

Validators == DOMAIN Size

StatsRequests == {"DESC_REQUEST", "FLOW_REQUEST", "AGGREGATE_REQUEST",
  "TABLE_REQUEST", "PORT_REQUEST", "QUEUE_REQUEST", "VENDOR_REQUEST"}
StatsReplies == {"DESC_REPLY", "FLOW_REPLY", "AGGREGATE_REPLY",
  "TABLE_REPLY", "PORT_REPLY", "QUEUE_REPLY", "VENDOR_REPLY"}

\* The OpenFlow type a message must have for the validator.  A message's kind
\* is the validator that the two levels of dispatch choose for it; a type or a
\* type of statistics without one is "UNDEFINED", "OTHER_REQUEST" or
\* "OTHER_REPLY".
TypeOf(kind) ==
  CASE kind \in StatsRequests \cup {"OTHER_REQUEST"} -> "STATS_REQUEST"
    [] kind \in StatsReplies \cup {"OTHER_REPLY"} -> "STATS_REPLY"
    [] OTHER -> kind

Types == {TypeOf(v) : v \in Validators}

\* The fixed fields, by their errors, in the order they are looked at.
Match == <<"INVALID_WILDCARDS", "INVALID_VLAN_VID", "INVALID_VLAN_PCP",
           "INVALID_NW_TOS">>
PhyPort == <<"INVALID_PORT_NO", "INVALID_PORT_CONFIG", "INVALID_PORT_STATE",
             "INVALID_PORT_FEATURES">>

ConfigFields ==
  [FEATURES_REPLY |-> <<"NO_TABLE_AVAILABLE">>,
   GET_CONFIG_REPLY |-> <<"INVALID_SWITCH_CONFIG">>,
   SET_CONFIG |-> <<"INVALID_SWITCH_CONFIG">>]
ReportFields ==
  [PACKET_IN |-> <<"INVALID_PORT_NO", "INVALID_PACKET_IN_REASON">>,
   FLOW_REMOVED |-> Match \o <<"INVALID_FLOW_PRIORITY",
                               "INVALID_FLOW_REMOVED_REASON">>,
   PORT_STATUS |-> <<"INVALID_PORT_STATUS_REASON">> \o PhyPort]
CommandFields ==
  [PACKET_OUT |-> <<"INVALID_PORT_NO">>,
   FLOW_MOD |-> Match \o <<"UNDEFINED_FLOW_MOD_COMMAND", "INVALID_FLOW_PRIORITY",
                           "INVALID_PORT_NO", "INVALID_FLOW_MOD_FLAGS">>,
   PORT_MOD |-> <<"INVALID_PORT_NO", "INVALID_PORT_CONFIG",
                  "INVALID_PORT_MASK", "INVALID_PORT_FEATURES">>]
QueueConfigFields ==
  [v \in {"QUEUE_GET_CONFIG_REQUEST", "QUEUE_GET_CONFIG_REPLY"} |->
     <<"INVALID_PORT_NO">>]
PortOfRequest(v) ==
  IF v \in {"FLOW_REQUEST", "AGGREGATE_REQUEST", "PORT_REQUEST", "QUEUE_REQUEST"}
  THEN <<"INVALID_PORT_NO">> ELSE <<>>
StatsRequestFields ==
  [v \in StatsRequests |->
     <<"INVALID_STATS_REQUEST_FLAGS">>
       \o (IF v \in {"FLOW_REQUEST", "AGGREGATE_REQUEST"} THEN Match ELSE <<>>)
       \o PortOfRequest(v)]
StatsReplyFields == [v \in StatsReplies |-> <<"INVALID_STATS_REPLY_FLAGS">>]

FieldErrors(v) ==
  CASE v \in DOMAIN ConfigFields -> ConfigFields[v]
    [] v \in DOMAIN ReportFields -> ReportFields[v]
    [] v \in DOMAIN CommandFields -> CommandFields[v]
    [] v \in DOMAIN QueueConfigFields -> QueueConfigFields[v]
    [] v \in StatsRequests -> StatsRequestFields[v]
    [] v \in StatsReplies -> StatsReplyFields[v]
    [] OTHER -> <<>>

\* The variable parts that are arrays: where the array begins, the size of an
\* element, and its fields by their errors.
Arrays ==
  [FEATURES_REPLY |-> [from |-> 32, size |-> 48, fields |-> PhyPort],
   TABLE_REPLY |-> [from |-> 12, size |-> 64, fields |-> <<"INVALID_WILDCARDS">>],
   PORT_REPLY |-> [from |-> 12, size |-> 104, fields |-> <<"INVALID_PORT_NO">>],
   QUEUE_REPLY |-> [from |-> 12, size |-> 32, fields |-> <<"INVALID_PORT_NO">>]]

\* The sizes of the actions and their arguments, by their errors.
ActionSize ==
  [OUTPUT |-> 8, VLAN_VID |-> 8, VLAN_PCP |-> 8, STRIP_VLAN |-> 8,
   DL_SRC |-> 16, DL_DST |-> 16, NW_SRC |-> 8, NW_DST |-> 8, NW_TOS |-> 8,
   TP_SRC |-> 8, TP_DST |-> 8, ENQUEUE |-> 16, VENDOR |-> 8]
ArgumentError ==
  [OUTPUT |-> "INVALID_PORT_NO", ENQUEUE |-> "INVALID_PORT_NO",
   VLAN_VID |-> "INVALID_VLAN_VID", VLAN_PCP |-> "INVALID_VLAN_PCP",
   NW_TOS |-> "INVALID_NW_TOS"]
ActionTypes == DOMAIN ActionSize

\* The errors of an action that is not of its size; a vendor action is never
\* too long.
TooShortAction ==
  [OUTPUT |-> "TOO_SHORT_ACTION_OUTPUT", VLAN_VID |-> "TOO_SHORT_ACTION_VLAN_VID",
   VLAN_PCP |-> "TOO_SHORT_ACTION_VLAN_PCP",
   STRIP_VLAN |-> "TOO_SHORT_ACTION_STRIP_VLAN",
   DL_SRC |-> "TOO_SHORT_ACTION_DL_SRC", DL_DST |-> "TOO_SHORT_ACTION_DL_DST",
   NW_SRC |-> "TOO_SHORT_ACTION_NW_SRC", NW_DST |-> "TOO_SHORT_ACTION_NW_DST",
   NW_TOS |-> "TOO_SHORT_ACTION_NW_TOS", TP_SRC |-> "TOO_SHORT_ACTION_TP_SRC",
   TP_DST |-> "TOO_SHORT_ACTION_TP_DST", ENQUEUE |-> "TOO_SHORT_ACTION_ENQUEUE",
   VENDOR |-> "TOO_SHORT_ACTION_VENDOR"]
TooLongAction ==
  [OUTPUT |-> "TOO_LONG_ACTION_OUTPUT", VLAN_VID |-> "TOO_LONG_ACTION_VLAN_VID",
   VLAN_PCP |-> "TOO_LONG_ACTION_VLAN_PCP",
   STRIP_VLAN |-> "TOO_LONG_ACTION_STRIP_VLAN",
   DL_SRC |-> "TOO_LONG_ACTION_DL_SRC", DL_DST |-> "TOO_LONG_ACTION_DL_DST",
   NW_SRC |-> "TOO_LONG_ACTION_NW_SRC", NW_DST |-> "TOO_LONG_ACTION_NW_DST",
   NW_TOS |-> "TOO_LONG_ACTION_NW_TOS", TP_SRC |-> "TOO_LONG_ACTION_TP_SRC",
   TP_DST |-> "TOO_LONG_ACTION_TP_DST", ENQUEUE |-> "TOO_LONG_ACTION_ENQUEUE"]

\* Mutation: a vendor action is let through as it is.
ActionErrorButVendors(t, len, wrong) ==
  IF t = "VENDOR" THEN "SUCCESS"
  ELSE IF len < 8 THEN "TOO_SHORT_ACTION"
  ELSE IF t \notin ActionTypes THEN "UNDEFINED_ACTION_TYPE"
  ELSE IF len < ActionSize[t] THEN TooShortAction[t]
  ELSE IF len > ActionSize[t] THEN TooLongAction[t]
  ELSE IF wrong /\ t \in DOMAIN ArgumentError THEN ArgumentError[t]
  ELSE "SUCCESS"

\* validate_action and the validators of the actions.
ActionError(t, len, wrong) ==
  IF len < 8 THEN "TOO_SHORT_ACTION"
  ELSE IF t \notin ActionTypes THEN "UNDEFINED_ACTION_TYPE"
  ELSE IF len < ActionSize[t] THEN TooShortAction[t]
  ELSE IF len > ActionSize[t] /\ t # "VENDOR" THEN TooLongAction[t]
  ELSE IF wrong /\ t \in DOMAIN ArgumentError THEN ArgumentError[t]
  ELSE "SUCCESS"

PropertySize == [NONE |-> 8, MIN_RATE |-> 16]

\* Mutation: a property may be longer than its type.
PropertyErrorButTooLong(t, len) ==
  IF t \notin DOMAIN PropertySize THEN "UNDEFINED_QUEUE_PROPERTY"
  ELSE IF len < PropertySize[t] THEN "TOO_SHORT_QUEUE_PROPERTY"
  ELSE "SUCCESS"

\* validate_queue_property.
PropertyError(t, len) ==
  IF len < 8 THEN "TOO_SHORT_QUEUE_PROPERTY"
  ELSE IF t \notin DOMAIN PropertySize THEN "UNDEFINED_QUEUE_PROPERTY"
  ELSE IF len < PropertySize[t] THEN "TOO_SHORT_QUEUE_PROPERTY"
  ELSE IF len > PropertySize[t] THEN "TOO_LONG_QUEUE_PROPERTY"
  ELSE "SUCCESS"

-----------------------------------------------------------------------------
(***************************************************************************)
(* The message and what can be said before its variable part is walked.    *)
(***************************************************************************)
Unknown == [UNDEFINED |-> "UNDEFINED_TYPE",
            OTHER_REQUEST |-> "UNSUPPORTED_STATS_TYPE",
            OTHER_REPLY |-> "UNSUPPORTED_STATS_TYPE"]
Kinds == Validators \cup DOMAIN Unknown

\* The handlers of FLOW_REMOVED and FEATURES_REPLY call another validator, and
\* a reply with statistics is given to the handler of PORT_STATUS.
HandedTo(kind) ==
  {kind} \cup CASE kind = "FLOW_REMOVED" -> {"FLOW_MOD"}
                [] kind = "FEATURES_REPLY" -> {"ERROR"}
                [] TypeOf(kind) = "STATS_REPLY" -> {"PORT_STATUS"}
                [] OTHER -> {}

HeaderLengths(v) ==
  {8} \cup IF v \in Validators
           THEN {n \in {Size[v].min - 1, Size[v].max + 1}
                       \cup {Size[v].min + b : b \in Bodies} : n \in 8 .. Max16}
           ELSE {}

\* Up to two fixed fields are wrong.
Wrongs(v) == {{}} \cup {{e, f} : e, f \in ToSet(FieldErrors(v))}

Messages ==
  UNION {{[kind |-> k, version |-> v, header |-> h, length |-> h + d,
           wrong |-> w, actions_len |-> a] :
            v \in BOOLEAN, h \in HeaderLengths(k), d \in {-1, 0, 1},
            w \in Wrongs(k),
            a \in IF k = "PACKET_OUT" THEN ItemLengths ELSE {0}} : k \in Kinds}

\* Mutation: the bounds are put to the length of the buffer, not to the one in
\* the header.
HeaderErrorInItself(m, v) ==
  IF m.length < 8 THEN "TOO_SHORT_MESSAGE"
  ELSE IF ~m.version THEN "UNSUPPORTED_VERSION"
  ELSE IF TypeOf(m.kind) # TypeOf(v) THEN "INVALID_TYPE"
  ELSE IF m.length > Size[v].max THEN "TOO_LONG_MESSAGE"
  ELSE IF m.length < Size[v].min THEN "TOO_SHORT_MESSAGE"
  ELSE "SUCCESS"

\* validate_header.
HeaderError(m, v) ==
  IF m.length < 8 THEN "TOO_SHORT_MESSAGE"
  ELSE IF ~m.version THEN "UNSUPPORTED_VERSION"
  ELSE IF TypeOf(m.kind) \notin Types THEN "UNDEFINED_TYPE"
  ELSE IF TypeOf(m.kind) # TypeOf(v) THEN "INVALID_TYPE"
  ELSE IF m.header > Size[v].max THEN "TOO_LONG_MESSAGE"
  ELSE IF m.header < Size[v].min THEN "TOO_SHORT_MESSAGE"
  ELSE IF m.header < m.length THEN "TOO_LONG_MESSAGE"
  ELSE IF m.header > m.length THEN "TOO_SHORT_MESSAGE"
  ELSE "SUCCESS"

\* The first error of the fixed part; the length of an array is looked at
\* after the fields before it.
FixedPartError(m, v) ==
  LET first == SelectInSeq(FieldErrors(v), LAMBDA e : e \in m.wrong)
  IN IF v \in DOMAIN Unknown THEN Unknown[v]
     ELSE IF HeaderError(m, v) # "SUCCESS" THEN HeaderError(m, v)
     ELSE IF first # 0 THEN FieldErrors(v)[first]
     ELSE IF v \in DOMAIN Arrays
             /\ (m.header - Arrays[v].from) % Arrays[v].size # 0
       THEN "INVALID_LENGTH"
     ELSE "SUCCESS"

-----------------------------------------------------------------------------
(***************************************************************************)
(* The error sent back for what a validator returns.                       *)
(***************************************************************************)
CommonErrors == {"UNSUPPORTED_VERSION", "TOO_SHORT_MESSAGE", "TOO_LONG_MESSAGE",
                 "UNDEFINED_TYPE", "INVALID_TYPE"}
ActionErrors ==
  {"INVALID_ACTION_TYPE", "UNDEFINED_ACTION_TYPE", "INVALID_PORT_NO",
   "INVALID_VLAN_VID", "INVALID_VLAN_PCP"}
    \cup Range(TooShortAction) \cup Range(TooLongAction)

\* error_maps: for a type of message, the errors it has an answer for beyond
\* the common ones, by the OpenFlow error type of the answer.
ErrorMap(type) ==
  CASE type = "PACKET_OUT" -> [BAD_ACTION |-> ActionErrors]
    [] type = "FLOW_MOD" ->
         [BAD_ACTION |-> ActionErrors,
          FLOW_MOD_FAILED |->
            {"INVALID_WILDCARDS", "UNDEFINED_FLOW_MOD_COMMAND",
             "INVALID_FLOW_PRIORITY", "INVALID_FLOW_MOD_FLAGS"}]
    [] type = "PORT_MOD" ->
         [PORT_MOD_FAILED |-> {"INVALID_PORT_NO"},
          BAD_REQUEST |-> {"INVALID_PORT_CONFIG", "INVALID_PORT_MASK",
                           "INVALID_PORT_FEATURES"}]
    [] type = "STATS_REQUEST" ->
         [BAD_REQUEST |->
            {"UNSUPPORTED_STATS_TYPE", "INVALID_STATS_TYPE",
             "INVALID_STATS_REQUEST_FLAGS", "INVALID_PORT_NO"} \cup ToSet(Match)]
    [] type = "QUEUE_GET_CONFIG_REQUEST" ->
         [QUEUE_OP_FAILED |-> {"INVALID_PORT_NO"}]
    [] type = "SET_CONFIG" -> [BAD_REQUEST |-> {"INVALID_SWITCH_CONFIG"}]
    [] type = "PACKET_IN" -> [BAD_REQUEST |-> {"INVALID_PACKET_IN_REASON"}]
    [] type = "FLOW_REMOVED" ->
         [BAD_REQUEST |-> {"INVALID_FLOW_PRIORITY", "INVALID_FLOW_REMOVED_REASON"}]
    [] type = "PORT_STATUS" -> [BAD_REQUEST |-> {"INVALID_PORT_STATUS_REASON"}]
    [] OTHER -> <<>>

\* Mutation: the entries for the match of a request for statistics are
\* forgotten.
TransErrorButMatches(type, error) ==
  IF type = "STATS_REQUEST" /\ error \in ToSet(Match) THEN {}
  ELSE IF type \notin Types \/ error \in CommonErrors THEN {"BAD_REQUEST"}
  ELSE {t \in DOMAIN ErrorMap(type) : error \in ErrorMap(type)[t]}

\* cc_trans_error_type_and_code: the OpenFlow error types, of which the map has
\* one at most, or none.
cc_trans_error(type, error) ==
  IF type = "HELLO" /\ error = "UNSUPPORTED_VERSION" THEN {"HELLO_FAILED"}
  ELSE IF type \notin Types \/ error \in CommonErrors THEN {"BAD_REQUEST"}
  ELSE {t \in DOMAIN ErrorMap(type) : error \in ErrorMap(type)[t]}

-----------------------------------------------------------------------------
(***************************************************************************)
(* The walk.                                                               *)
(***************************************************************************)
Init ==
  /\ msg \in Messages
  /\ by \in HandedTo(msg.kind)
  /\ pc = "fixed"
  /\ left = 0 /\ offset = 0 /\ length = 0 /\ seen = {}
  /\ wrapped = FALSE /\ lens = <<>>
  /\ result = "NONE"

Goto(next) == pc' = next /\ result' = "NONE"
Return(r) == pc' = "done" /\ result' = r

\* A list of n bytes of actions or properties is about to be walked.
BeginList(n) == offset' = 0 /\ length' = n /\ seen' = {}

\* The next item of the list is len bytes further on, on 16 bits.
Advance(len) ==
  /\ seen' = seen \cup {offset}
  /\ offset' = Uint16(offset + len)
  /\ wrapped' = (wrapped \/ offset + len > Max16)
  /\ UNCHANGED length

\* A list, and the flows or queues, are bounded; what ends them is allowed.
ListWithinBound(len) == Cardinality(seen) < MaxItems \/ offset + len >= length
LensWithinBound(len) ==
  Len(lens) < MaxItems \/ len = left \/ (~wrapped /\ len > left)

\* The list of actions: where the validator finds its length.
HasActions == by \in {"PACKET_OUT", "FLOW_MOD"}
ActionsLength == IF by = "PACKET_OUT" THEN msg.actions_len ELSE msg.header - 72

FixedPart ==
  /\ pc = "fixed"
  /\ UNCHANGED <<msg, by, wrapped, lens>>
  /\ \/ /\ FixedPartError(msg, by) # "SUCCESS"
        /\ Return(FixedPartError(msg, by))
        /\ UNCHANGED <<left, list>>
     \/ /\ FixedPartError(msg, by) = "SUCCESS"
        /\ \/ /\ by \in DOMAIN Arrays
              /\ left' = (msg.header - Arrays[by].from) \div Arrays[by].size
              /\ Goto("array")
              /\ UNCHANGED list
           \/ /\ HasActions
              /\ BeginList(ActionsLength)
              /\ Goto("actions")
              /\ UNCHANGED left
           \/ /\ by = "FLOW_REPLY"
              /\ left' = msg.header - 12
              /\ Goto("flow")
              /\ UNCHANGED list
           \/ /\ by = "QUEUE_GET_CONFIG_REPLY"
              /\ left' = msg.header - 16
              /\ Goto("count")
              /\ UNCHANGED list
           \/ /\ by \notin DOMAIN Arrays
                      \cup {"FLOW_REPLY", "QUEUE_GET_CONFIG_REPLY"}
              /\ ~HasActions
              /\ Return("SUCCESS")
              /\ UNCHANGED <<left, list>>

\* validate_phy_ports and the loops over tables, ports and queues.
Element ==
  /\ pc = "array"
  /\ UNCHANGED <<msg, by, list, wrapped, lens>>
  /\ \/ /\ left = 0
        /\ Return("SUCCESS")
        /\ UNCHANGED left
     \/ /\ left > 0
        /\ left' = left - 1
        /\ Goto("array")
     \/ /\ left > 0
        /\ \E e \in ToSet(Arrays[by].fields) : Return(e)
        /\ UNCHANGED left

\* The actions and properties a list may hold: their length, and what their
\* validator returns.
ActionItems ==
  {[len |-> n, error |-> ActionError(t, n, wrong)] :
     t \in ActionTypes \cup {"UNDEFINED"}, n \in ItemLengths, wrong \in BOOLEAN}
PropertyItems ==
  {[len |-> n, error |-> PropertyError(t, n)] :
     t \in DOMAIN PropertySize \cup {"UNDEFINED"}, n \in ItemLengths}

\* One turn of a list's loop: an item already let through is let through
\* again, for ever.
Item(items) ==
  /\ offset < length
  /\ UNCHANGED <<msg, by, left, lens>>
  /\ \/ /\ offset \in seen
        /\ Goto("stuck")
        /\ UNCHANGED <<list, wrapped>>
     \/ /\ offset \notin seen
        /\ \E i \in items :
             \/ /\ i.error # "SUCCESS"
                /\ Return(i.error)
                /\ UNCHANGED <<list, wrapped>>
             \/ /\ i.error = "SUCCESS"
                /\ ListWithinBound(i.len)
                /\ Advance(i.len)
                /\ Goto(pc)

\* validate_actions, one action.
Action == pc = "actions" /\ Item(ActionItems)

ActionsEnd ==
  /\ pc = "actions"
  /\ offset >= length
  /\ HasActions
  /\ Return("SUCCESS")
  /\ UNCHANGED <<msg, by, walk>>

\* validate_flow_stats_reply, a flow before its actions.  The length of the
\* list wraps when the flow is shorter than what comes before its actions.
Flow ==
  /\ pc = "flow"
  /\ UNCHANGED <<msg, by, left, wrapped>>
  /\ \/ /\ left = 0
        /\ Return("SUCCESS")
        /\ UNCHANGED <<list, lens>>
     \/ /\ left > 0
        /\ \E e \in ToSet(Match) \cup {"INVALID_FLOW_PRIORITY"} : Return(e)
        /\ UNCHANGED <<list, lens>>
     \/ /\ left > 0
        /\ \E len \in ItemLengths : /\ LensWithinBound(len)
                                  /\ lens' = Append(lens, len)
                                  /\ BeginList(Uint16(len - 88))
        /\ Goto("actions")

\* What remains of the flows or queues after one of len bytes, on 16 bits.
Take(len, next) ==
  /\ left' = Uint16(left - len)
  /\ wrapped' = (wrapped \/ len > left)
  /\ \/ Goto(IF len = 0 THEN "stuck" ELSE next)
     \/ len > left /\ Goto("astray")

\* A flow whose actions have been let through.
FlowEnd ==
  /\ pc = "actions"
  /\ offset >= length
  /\ ~HasActions
  /\ Take(Last(lens), "flow")
  /\ UNCHANGED <<msg, by, list, lens>>

\* validate_queue_get_config_reply, the loop that counts the queues.
CountQueue ==
  /\ pc = "count"
  /\ left > 8
  /\ \E len \in ItemLengths : /\ LensWithinBound(len)
                            /\ lens' = Append(lens, len)
                            /\ Take(len, "count")
  /\ UNCHANGED <<msg, by, list>>

\* Mutation: what is left over when the queues have been counted is let pass.
CountEndWithRest ==
  /\ pc = "count"
  /\ left <= 8
  /\ Goto("queue")
  /\ left' = Len(lens)
  /\ UNCHANGED <<msg, by, list, wrapped, lens>>

CountEnd ==
  /\ pc = "count"
  /\ left <= 8
  /\ IF left # 0
     THEN Return("INVALID_LENGTH") /\ UNCHANGED left
     ELSE Goto("queue") /\ left' = Len(lens)
  /\ UNCHANGED <<msg, by, list, wrapped, lens>>

\* validate_packet_queues and validate_packet_queue.
Queue ==
  /\ pc = "queue"
  /\ UNCHANGED <<msg, by, left, wrapped, lens>>
  /\ LET len == lens[Len(lens) - left + 1]
     IN \/ /\ left = 0
           /\ Return("SUCCESS")
           /\ UNCHANGED list
        \/ /\ left > 0
           /\ len < 16
           /\ Return("TOO_SHORT_QUEUE_DESCRIPTION")
           /\ UNCHANGED list
        \/ /\ left > 0
           /\ len >= 16
           /\ BeginList(len - 8)
           /\ Goto("properties")

\* validate_queue_properties.
Property == pc = "properties" /\ Item(PropertyItems)

PropertiesEnd ==
  /\ pc = "properties"
  /\ offset >= length
  /\ left' = left - 1
  /\ Goto("queue")
  /\ UNCHANGED <<msg, by, list, wrapped, lens>>

Next == \/ FixedPart \/ Element \/ Action \/ ActionsEnd \/ Flow \/ FlowEnd
        \/ CountQueue \/ CountEnd \/ Queue \/ Property \/ PropertiesEnd

Spec == Init /\ [][Next]_vars

\* A validator that has been called runs.
FairSpec == Spec /\ WF_vars(Next)

-----------------------------------------------------------------------------
(***************************************************************************)
(* Properties.                                                             *)
(***************************************************************************)
Sum(s) == FoldSeq(LAMBDA x, y : x + y, 0, s)

\* What the handlers work on is a whole message of the type they handle: they
\* read the body with the length in the header, the buffer ends at its own.
\* The fixed part is there, the elements of an array are whole, and a message
\* whose size is fixed has nothing behind it; only of HELLO is that not said,
\* whose body has to be ignored (include/openflow.h, struct ofp_hello).
AcceptedIsWhole ==
  result = "SUCCESS" =>
    /\ by = msg.kind
    /\ msg.version
    /\ msg.header = msg.length
    /\ msg.header >= Size[by].min
    /\ by # "HELLO" => msg.header <= Size[by].max
    /\ by \in DOMAIN Arrays =>
         (msg.header - Arrays[by].from) % Arrays[by].size = 0

\* The bytes the flows or queues of an accepted reply have to make up.
BodyLength == msg.header - IF by = "FLOW_REPLY" THEN 12 ELSE 16

\* The flows or queues of an accepted reply make progress, and add up to its
\* body: exactly, or else on 16 bits only, and then the validator has read
\* behind the message.  No byte of the body is skipped or left over.
AcceptedAddsUp ==
  result = "SUCCESS" /\ by \in {"FLOW_REPLY", "QUEUE_GET_CONFIG_REPLY"} =>
    /\ \A len \in ToSet(lens) : len > 0
    /\ Uint16(Sum(lens)) = BodyLength
    /\ Sum(lens) = BodyLength \/ wrapped

\* A validator that never returns was given a flow or a queue of no length or
\* of more than is left, or a list in which an offset wraps: no other message
\* holds a worker thread.
StuckOnlyByItsLengths ==
  pc = "stuck" => wrapped \/ (lens # <<>> /\ Last(lens) = 0)

\* Errors found in what a controller may send that have no answer: an action
\* shorter than a header, and the type of service of a flow or of an action.
Unanswered == [PACKET_OUT |-> {"TOO_SHORT_ACTION", "INVALID_NW_TOS"},
               FLOW_MOD |-> {"TOO_SHORT_ACTION", "INVALID_NW_TOS"}]
FromSwitch == {"FEATURES_REPLY", "GET_CONFIG_REPLY", "PACKET_IN", "FLOW_REMOVED",
               "PORT_STATUS", "STATS_REPLY", "QUEUE_GET_CONFIG_REPLY"}

\* Whatever is wrong with a message that is not a switch's own report, there
\* is exactly one OpenFlow error to answer with, the known gaps excepted.
ErrorHasOneAnswer ==
  LET type == TypeOf(msg.kind)
  IN /\ pc = "done"
     /\ result # "SUCCESS"
     /\ by = msg.kind
     /\ type \notin FromSwitch
     /\ type \in DOMAIN Unanswered => result \notin Unanswered[type]
     => Cardinality(cc_trans_error(type, result)) = 1

\* Every validation ends, unless the message's own lengths prevent it.
CheckEnds ==
  pc = "fixed" ~> (pc = "done" \/ wrapped \/ (lens # <<>> /\ Last(lens) = 0))
=============================================================================
