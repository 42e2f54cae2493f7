----------------------------- MODULE AppendLoop -----------------------------
(***************************************************************************)
(* The loop of RaftCore.handle_append_entries, one entry of the payload at *)
(* a time, on a log kept as the code keeps it: a list of entries that      *)
(* carry their index.  It justifies the closed form Merged, and positions  *)
(* for indexes, which RaftRuntime uses.                                    *)
(***************************************************************************)
EXTENDS RaftCore

CONSTANTS MaxLength, MaxEntryTerm   \* bounds of the logs and payloads tried

ASSUME LoopBoundAssumption == MaxLength \in Nat /\ MaxEntryTerm \in Nat

VARIABLES
  before,    \* the log when the request arrives, by position
  payload,   \* the request: prevLogIndex and entries
  items,     \* self.log: entries with their index
  position   \* of the payload's entry that the loop looks at next

lvars == <<before, payload, items, position>>

\* Logs grow with terms that never decrease.
Logs ==
  {l \in UNION {[1 .. k -> [term : 1 .. MaxEntryTerm, command : Command]] : k \in 0 .. MaxLength} :
     \A j, k \in DOMAIN l : j <= k => l[j].term <= l[k].term}

Payloads(l) ==
  {p \in [prevLogIndex : 0 .. Len(l), entries : Logs] :
     p.prevLogIndex > 0 /\ p.entries # <<>> => l[p.prevLogIndex].term <= p.entries[1].term}

Indexed(l) ==
  [j \in 1 .. Len(l) |-> [index |-> j, term |-> l[j].term, command |-> l[j].command]]

LoopInit ==
  /\ before \in Logs
  /\ payload \in Payloads(before)
  /\ items = Indexed(before)
  /\ position = 1

EntriesAt(list, index) == {e \in {list[j] : j \in 1 .. Len(list)} : e.index = index}

\* The items of a smaller index, in their order.
BelowIndex(list, index) ==
  LET kept == {j \in 1 .. Len(list) : list[j].index < index}
  IN  [k \in 1 .. Cardinality(kept) |-> list[CHOOSE j \in kept : Cardinality({h \in kept : h <= j}) = k]]

\* An entry of another term at the same index is dropped with all after it.
Truncated(entry) ==
  IF \E e \in EntriesAt(items, entry.index) : e.term # entry.term
  THEN BelowIndex(items, entry.index)
  ELSE items

LoopStep ==
  /\ position <= Len(payload.entries)
  /\ LET entry == [index |-> payload.prevLogIndex + position,
                   term |-> payload.entries[position].term,
                   command |-> payload.entries[position].command]
         kept == Truncated(entry)
     IN  items' = IF EntriesAt(kept, entry.index) = {} THEN Append(kept, entry) ELSE kept
  /\ position' = position + 1
  /\ UNCHANGED <<before, payload>>

LoopSpec == LoopInit /\ [][LoopStep]_lvars

Looped == [payload EXCEPT !.entries = SubSeq(@, 1, position - 1)]

\* After every entry the list is the closed form for the entries looked at.
LoopIsMerged == items = Indexed(Merged(before, Looped))
=============================================================================
