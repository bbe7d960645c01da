----------------------------- MODULE CcMsgWire ------------------------------
(***************************************************************************)
(* A message from the one who makes it to the one who reads it: made by a  *)
(* creator (CcMsgCreate) or received, handed to its validator              *)
(* (CcMsgCheck), and converted back when it has been accepted              *)
(* (CcByteOrder).                                                          *)
(*                                                                         *)
(* The validator of a received message reads any items, as in CcMsgCheck.  *)
(* The one of a message whose content is known, one that was made or a     *)
(* received list of flows or queues, reads what is there.                  *)
(***************************************************************************)
EXTENDS CcMsgCheck, CcMsgCreate

wire_vars == <<vars, create_vars>>

NoContent == [kind |-> "ANY", data |-> 0, count |-> 0, items |-> <<>>,
              buffered |-> TRUE]
NoMessage == [kind |-> "ANY", version |-> TRUE, header |-> 0, length |-> 0,
              wrong |-> {}, actions_len |-> 0]

Walked == {"FLOW_REPLY", "QUEUE_GET_CONFIG_REPLY"}

\* The parts of each flow or queue fill it, the last one may reach further.
Filled(c) ==
  LET header == SizeOf(IF c.kind = "FLOW_REPLY" THEN ofp_flow_stats
                       ELSE ofp_packet_queue)
  IN c.kind \in Walked =>
       \A i \in ToSet(c.items) :
         /\ i.len <= header + SumOfLengths(i.parts)
         /\ IF i.parts = <<>> THEN i.len = header
            ELSE i.len > header + SumOfLengths(Front(i.parts))

ReceivedContents == {c \in Contents : c.kind \in Walked /\ Fits(c) /\ Filled(c)}

CheckIdle ==
  /\ msg = NoMessage /\ by = "NONE" /\ pc = "idle"
  /\ left = 0 /\ offset = 0 /\ length = 0 /\ seen = {}
  /\ wrapped = FALSE /\ lens = <<>> /\ result = "NONE"

CreateIdle(c, s) ==
  /\ content = c /\ stage = s
  /\ plan = NoPlan /\ todo = <<>> /\ at = 0 /\ end = 0
  /\ WalkInit

WireInit ==
  \/ Init /\ CreateIdle(NoContent, "any")
  \/ CreateInit /\ CheckIdle
  \/ CheckIdle /\ \E c \in ReceivedContents : CreateIdle(c, "received")

\* The message is handed to its validator, unless the creator has written over
\* what is behind it.
Hand ==
  /\ stage \in {"made", "received"}
  /\ end <= plan.length
  /\ LET n == IF stage = "made" THEN plan.length ELSE NeededLength(content)
     IN msg' = [kind |-> content.kind, version |-> TRUE, header |-> n,
                length |-> n, wrong |-> {},
                actions_len |-> ListLength(content.items)]
  /\ by' = content.kind
  /\ pc' = "fixed"
  /\ stage' = "check"
  /\ UNCHANGED <<walk, result, content, plan, todo, at, end, piece, walk_vars>>

\* The item at the offset is the one that is there.
ReadsItem(items, Error(_)) ==
  \A i \in DOMAIN items :
    SumOfLengths(SubSeq(items, 1, i - 1)) = offset =>
      IF Error(items[i]) = "SUCCESS"
      THEN /\ result' = "NONE"
           /\ pc' = pc => offset' = Uint16(offset + items[i].len)
      ELSE result' = Error(items[i])

\* The length of a flow or queue is the one that is there; behind the last one
\* it is anything.
ReadsLength ==
  Len(lens) + 1 \in DOMAIN content.items =>
    /\ result' = "NONE"
    /\ Last(lens') = content.items[Len(lens) + 1].len

\* The parts of the i-th flow or queue, when it is there.
ReadsParts(i, Error(_)) ==
  i \in DOMAIN content.items => ReadsItem(content.items[i].parts, Error)

ReadsContent ==
  /\ pc = "array" => result' \in {"NONE", "SUCCESS"}
  /\ pc = "actions" /\ offset < length =>
       IF HasActions
       THEN ReadsItem(content.items, LAMBDA a : ActionError(a.type, a.len, FALSE))
       ELSE ReadsParts(Len(lens), LAMBDA a : ActionError(a.type, a.len, FALSE))
  /\ pc = "flow" /\ left > 0 => ReadsLength
  /\ pc = "count" /\ left > 8 => ReadsLength
  /\ pc = "properties" /\ offset < length =>
       ReadsParts(Len(lens) - left + 1,
                  LAMBDA p : PropertyError(p.type, p.len))

Check ==
  /\ stage \in {"any", "check"}
  /\ Next
  /\ stage = "check" => ReadsContent
  /\ stage' = IF stage = "check" /\ result' = "SUCCESS" THEN "accepted" ELSE stage
  /\ UNCHANGED <<content, plan, todo, at, end, piece, walk_vars>>

WireNext == \/ CreateNext /\ UNCHANGED vars
            \/ Hand
            \/ Check
            \/ GetNext /\ UNCHANGED vars

\* A validator that has been called runs.
WireSpec == WireInit /\ [][WireNext]_wire_vars /\ WF_vars(Check)

-----------------------------------------------------------------------------
(***************************************************************************)
(* Properties.                                                             *)
(***************************************************************************)
\* What a creator makes is accepted by the validator of its own kind, unless
\* its content does not fit or an item claims a length that is not its own;
\* only a list of no queues is refused, and a queue of no properties: the
\* minimum is one queue, of one property.
Refused == pc \in {"stuck", "astray"} \/ (pc = "done" /\ result # "SUCCESS")
BareQueues ==
  /\ content.kind = "QUEUE_GET_CONFIG_REPLY"
  /\ content.items = <<>> \/ \E q \in ToSet(content.items) : q.parts = <<>>
CreatedIsAccepted ==
  plan # NoPlan /\ Refused =>
    BareQueues \/ ~Fits(content) \/ ~WellFormed(content)

\* Fewer bytes than a header are left in a flow or queue for its last action or
\* property.
CutShort(i) ==
  /\ content.kind \in Walked
  /\ i.parts # <<>>
  /\ i.len < HeaderOf + SumOfLengths(Front(i.parts)) + 8

\* What is accepted is converted as it was meant, or the last action or
\* property of a flow or queue claims more than is left: then the conversion
\* stops in front of it when not even a header is left, and leaves the flow or
\* queue behind it otherwise.
AcceptedIsReadRight ==
  result = "SUCCESS" =>
    /\ stage = "got" /\ Fits(content) /\ Filled(content) =>
         \A i \in ToSet(content.items) :
           WellFormedItem(content.kind, i) \/ CutShort(i)
    /\ stage = "astray" => Position(HeaderOf) > item.len
=============================================================================
