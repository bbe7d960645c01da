----------------------------- MODULE CcXidTable -----------------------------
(***************************************************************************)
(* The transaction identifiers of a connection (lib/cc_xid.c): a counter   *)
(* and the entries of the requests without a reply, kept twice, in a hash  *)
(* table under the address of their xid and in a singly linked list        *)
(* (lib/cc_single_link.c).  What the hash table does is taken from         *)
(* KeyedTable: keys are addresses, which are compared as such, so an entry *)
(* is its own key.  Nothing here takes a lock; each function is one step.  *)
(***************************************************************************)
EXTENDS Naturals, Sequences, SequencesExt, FiniteSets

CONSTANTS Entries,  \* the addresses malloc may return for an entry
          MaxXid,   \* bound: stands for UINT32_MAX
          NULL

VARIABLES latest,     \* *xid_latest
          xid,        \* the xid in each entry
          xid_hash, xid_entry_list,
          allocated

vars == <<latest, xid, xid_hash, xid_entry_list, allocated>>

Hash == INSTANCE KeyedTable WITH Keys <- Entries, Values <- Entries,
                                 map <- xid_hash, returned <- NULL

Init == /\ latest = 0
        /\ xid = [e \in Entries |-> 0]
        /\ xid_hash = Hash!Empty
        /\ xid_entry_list = <<>>
        /\ allocated = {}

\* cc_generate_xid.  cc_lookup_xid_entry returns NULL for an xid it finds, too,
\* so the loop that looks for a free one is never entered, and the counter
\* stays where it is once it has reached the largest value.
Generated == IF latest # MaxXid THEN latest + 1 ELSE latest

\* cc_insert_xid_entry.
InsertXidEntry(e) ==
  /\ xid_hash # NULL
  /\ e \notin allocated
  /\ allocated' = allocated \cup {e}
  /\ latest' = Generated
  /\ xid' = [xid EXCEPT ![e] = Generated]
  /\ xid_entry_list' = Append(xid_entry_list, e)
  /\ xid_hash' = Hash!With(xid_hash, e, e)

\* A handler goes on from the xid of a message it has accepted.
FollowPeer(x) == latest' = (x + 1) % (MaxXid + 1)
                 /\ UNCHANGED <<xid, xid_hash, xid_entry_list, allocated>>

\* compare_xid_entry: CC_E_NONE is 0 and CC_E_ERR is not.
CompareXidEntry(a, b) == IF xid[a] # xid[b] THEN "CC_E_ERR" ELSE "CC_E_NONE"

\* find_list_custom stops at the first element its function returns not 0 for.
FindListCustom(s, e) ==
  LET others == SelectSeq(s, LAMBDA a : CompareXidEntry(a, e) # "CC_E_NONE")
  IN IF others = <<>> THEN NULL ELSE Head(others)

\* cc_delete_xid_entry: free(NULL) does nothing.
DeleteXidEntry(e) ==
  /\ xid_hash # NULL
  /\ e \in DOMAIN xid_hash
  /\ LET found == FindListCustom(xid_entry_list, e)
     IN /\ xid_hash' = Hash!Without(xid_hash, e)
        /\ xid_entry_list' = Remove(xid_entry_list, found)
        /\ allocated' = allocated \ {found}
  /\ UNCHANGED <<latest, xid>>

\* cc_finalize_xid_table frees the entries it finds in the list; one that was
\* lost from it stays allocated.
FinalizeXidTable ==
  /\ xid_hash # NULL
  /\ allocated' = allocated \ ToSet(xid_entry_list)
  /\ xid_hash' = NULL
  /\ xid_entry_list' = <<>>
  /\ UNCHANGED <<latest, xid>>

Next == \/ \E e \in Entries : InsertXidEntry(e) \/ DeleteXidEntry(e)
        \/ FinalizeXidTable
        \/ \E x \in 0 .. MaxXid : FollowPeer(x)

Spec == Init /\ [][Next]_vars

\* The list and the hash table have the same entries: what is deleted from one
\* is deleted from the other.  It is what the comment on find_list_custom says
\* the function passed to it is for: CC_E_NONE "when the desired element is
\* found".
DeletedFromBoth ==
  xid_hash # NULL => ToSet(xid_entry_list) = DOMAIN xid_hash
=============================================================================
