------------------------------ MODULE TaskList ------------------------------
(***************************************************************************)
(* src/list.rs: the intrusive, circular, doubly-linked list of tasks, and  *)
(* the lookups of src/selector.rs that guard it.                           *)
(*                                                                         *)
(* A list is used by one thread at a time (its methods take &mut, or only  *)
(* read), so an operation is one step.  What is hard here is the pointers: *)
(* a list owns the values in nodes that wakers, Ids and the wakeup queue   *)
(* keep alive, so a node outlives its removal and is looked up afterwards, *)
(* possibly in another list; and a cursor removes nodes from the ring it   *)
(* walks.  Each list belongs to one selector, and the queue a node points  *)
(* to tells which.                                                         *)
(***************************************************************************)
EXTENDS Integers, Sequences

CONSTANTS
  Nodes,  \* the nodes that hold the tasks
  Lists,  \* the lists, one in each selector
  Null    \* the null pointer

ASSUME NodesAssumption == Null \notin Nodes \cup Lists

VARIABLES
  front, len,   \* List::front, List::len
  next, prev,   \* ListProtected::next, prev of every node
  value,        \* how many Removed own the value of each node, and how often it
                \* was released: dropped or moved out
  home,         \* the list whose queue the node points to
  cursor,       \* the Cursor that borrows each list: front, back, popped
  guard,        \* AccessGuard::node of the guard that borrows each list
  dropping,     \* where the drop of each list is
  returned      \* the node returned by the last operation

ring == <<front, len, next, prev>>
vars == <<ring, value, home, cursor, guard, dropping, returned>>

NoCursor == [open |-> FALSE, front |-> Null, back |-> Null, popped |-> 0]

Unowned == [removed |-> 0, released |-> 0]

\* "loop": in the loop of Guard::drop; "unwind": the same, in a thread that is
\* panicking; "doomed": a value's drop panicked in such a thread.  That aborts
\* the process, now or when the unwinding gets back to the frame it came from:
\* the behaviour stops, and the drop never returns.
Drops == {"no", "loop", "unwind", "doomed", "done"}

Init ==
  /\ front = [l \in Lists |-> Null] /\ len = [l \in Lists |-> 0]
  /\ next = [n \in Nodes |-> Null] /\ prev = [n \in Nodes |-> Null]
  /\ value = [n \in Nodes |-> Unowned]
  /\ home = [n \in Nodes |-> Null]
  /\ cursor = [l \in Lists |-> NoCursor]
  /\ guard = [l \in Lists |-> Null]
  /\ dropping = [l \in Lists |-> "no"]
  /\ returned = Null

\* Nothing borrows the list.
Free(l) == dropping[l] = "no" /\ ~cursor[l].open /\ guard[l] = Null

----------------------------------------------------------------------------
(* Insertion, lookup and removal *)

PushBack(l, n) ==
  /\ Free(l)
  /\ home[n] = Null
  /\ LET first == IF front[l] = Null THEN n ELSE front[l]
         back  == IF front[l] = Null THEN n ELSE prev[front[l]] IN
     /\ front' = [front EXCEPT ![l] = first]
     /\ prev' = [prev EXCEPT ![first] = n, ![n] = back]
     /\ next' = [next EXCEPT ![back] = n, ![n] = first]
  /\ len' = [len EXCEPT ![l] = @ + 1]
  /\ home' = [home EXCEPT ![n] = l]
  /\ returned' = n
  /\ UNCHANGED <<value, cursor, guard, dropping>>

\* Mutant: takes any node for one of this selector.
CreatedAny(l, n) == home[n] # Null

\* Selector::created: the node is bound to this selector's queue.
Created(l, n) == home[n] = l

\* Mutant: trusts the node to be linked.
LinkedEver(l, n) == Created(l, n)

\* Whether get, get_mut, remove and access find the value in the node.
Linked(l, n) == Created(l, n) /\ next[n] # Null

\* Mutant: the front pointer moves only when the list becomes empty.
UnlinkKeepFront(l, n) ==
  /\ next' = [next EXCEPT ![prev[n]] = next[n], ![n] = Null]
  /\ prev' = [prev EXCEPT ![next[n]] = prev[n], ![n] = Null]
  /\ len' = [len EXCEPT ![l] = @ - 1]
  /\ front' = [front EXCEPT ![l] = IF len[l] = 1 THEN Null ELSE @]

\* remove_unchecked, without the Removed it returns.
Unlink(l, n) ==
  /\ next' = [next EXCEPT ![prev[n]] = next[n], ![n] = Null]
  /\ prev' = [prev EXCEPT ![next[n]] = prev[n], ![n] = Null]
  /\ len' = [len EXCEPT ![l] = @ - 1]
  /\ front' = [front EXCEPT ![l] = IF len[l] = 1 THEN Null
                                   ELSE IF @ = n THEN next[n] ELSE @]

\* The value of an unlinked node goes to a Removed, which a program keeps
\* ("removed") or which is dropped at once ("released").
Disown(n, owner) == value' = [value EXCEPT ![n][owner] = @ + 1]

Get(l, n) ==
  /\ Free(l)
  /\ returned' = IF Linked(l, n) THEN n ELSE Null
  /\ UNCHANGED <<ring, value, home, cursor, guard, dropping>>

Remove(l, n) ==
  /\ Free(l)
  /\ IF Linked(l, n)
     THEN Unlink(l, n) /\ Disown(n, "removed") /\ returned' = n
     ELSE UNCHANGED <<ring, value>> /\ returned' = Null
  /\ UNCHANGED <<home, cursor, guard, dropping>>

\* Drop of a Removed, whether or not the drop of its value panics, or
\* Removed::into_inner.
Consume(n) ==
  /\ value[n].removed > 0
  /\ value' = [value EXCEPT ![n].removed = @ - 1, ![n].released = @ + 1]
  /\ UNCHANGED <<ring, home, cursor, guard, dropping, returned>>

----------------------------------------------------------------------------
(* AccessGuard, around the poll of a task *)

\* poll_next: the node comes out of this selector's queue.
Access(l, n) ==
  /\ Free(l)
  /\ home[n] = l
  /\ returned' = IF Linked(l, n) THEN n ELSE Null
  /\ guard' = [guard EXCEPT ![l] = returned']
  /\ UNCHANGED <<ring, value, home, cursor, dropping>>

GuardForget(l) ==
  /\ guard[l] # Null
  /\ returned' = guard[l]
  /\ guard' = [guard EXCEPT ![l] = Null]
  /\ UNCHANGED <<ring, value, home, cursor, dropping>>

\* Mutant: the value is taken out of a node that stays in the ring.
GuardRemoveInPlace(l, owner) ==
  /\ guard[l] # Null
  /\ Disown(guard[l], owner)
  /\ returned' = guard[l]
  /\ guard' = [guard EXCEPT ![l] = Null]
  /\ UNCHANGED <<ring, home, cursor, dropping>>

\* remove_now, or the drop of the guard by a panic, which drops the value too.
\* (A second panic, in the drop of that value, aborts: the behaviour stops.)
GuardRemove(l, owner) ==
  /\ guard[l] # Null
  /\ Unlink(l, guard[l])
  /\ Disown(guard[l], owner)
  /\ returned' = guard[l]
  /\ guard' = [guard EXCEPT ![l] = Null]
  /\ UNCHANGED <<home, cursor, dropping>>

----------------------------------------------------------------------------
(* Cursors: iter, iter_mut, extract_if, retain and into_iter *)

OpenCursor(l) ==
  /\ Free(l)
  /\ cursor' = [cursor EXCEPT ![l] =
       [open |-> TRUE, front |-> front[l], popped |-> 0,
        back |-> IF front[l] = Null THEN Null ELSE prev[front[l]]]]
  /\ UNCHANGED <<ring, value, home, guard, dropping, returned>>

CloseCursor(l) ==
  /\ cursor[l].open
  /\ cursor' = [cursor EXCEPT ![l] = NoCursor]
  /\ UNCHANGED <<ring, value, home, guard, dropping, returned>>

\* Mutant: takes the visited nodes for nodes to visit.
ExhaustedIfEmpty(l) == len[l] = 0

\* Cursor::is_empty
Exhausted(l) == len[l] = cursor[l].popped

PopNothing(l) ==
  /\ cursor[l].open
  /\ Exhausted(l)
  /\ returned' = Null
  /\ UNCHANGED <<ring, value, home, cursor, guard, dropping>>

PopFront(l) ==
  /\ cursor[l].open /\ ~Exhausted(l)
  /\ returned' = cursor[l].front
  /\ cursor' = [cursor EXCEPT ![l].popped = @ + 1, ![l].front = next[@]]
  /\ UNCHANGED <<ring, value, home, guard, dropping>>

PopBack(l) ==
  /\ cursor[l].open /\ ~Exhausted(l)
  /\ returned' = cursor[l].back
  /\ cursor' = [cursor EXCEPT ![l].popped = @ + 1, ![l].back = prev[@]]
  /\ UNCHANGED <<ring, value, home, guard, dropping>>

\* ExtractIf::next removes the front it peeked at if the predicate holds.
RemoveFront(l) ==
  /\ cursor[l].open /\ ~Exhausted(l)
  /\ returned' = cursor[l].front
  /\ cursor' = [cursor EXCEPT ![l].front = next[@]]
  /\ Unlink(l, cursor[l].front)
  /\ Disown(cursor[l].front, "removed")
  /\ UNCHANGED <<home, guard, dropping>>

RemoveBack(l) ==
  /\ cursor[l].open /\ ~Exhausted(l)
  /\ returned' = cursor[l].back
  /\ cursor' = [cursor EXCEPT ![l].back = prev[@]]
  /\ Unlink(l, cursor[l].back)
  /\ Disown(cursor[l].back, "removed")
  /\ UNCHANGED <<home, guard, dropping>>

(* What the visitors of src/selector/iter.rs make of it *)

\* Iter and IterMut; a turn of the loop of ExtractIf either goes on to the next
\* task or returns the one it peeked at, as its predicate has it.
IterNext(l) == PopNothing(l) \/ PopFront(l)
IterNextBack(l) == PopNothing(l) \/ PopBack(l)
ExtractNext(l) == PopNothing(l) \/ PopFront(l) \/ RemoveFront(l)
ExtractNextBack(l) == PopNothing(l) \/ PopBack(l) \/ RemoveBack(l)

\* IntoIter removes with a cursor of its own each time.
IntoIterNext(l) ==
  /\ Free(l) /\ front[l] # Null
  /\ returned' = front[l]
  /\ Unlink(l, front[l]) /\ Disown(front[l], "removed")
  /\ UNCHANGED <<home, cursor, guard, dropping>>

IntoIterNextBack(l) ==
  /\ Free(l) /\ front[l] # Null
  /\ returned' = prev[front[l]]
  /\ Unlink(l, prev[front[l]]) /\ Disown(prev[front[l]], "removed")
  /\ UNCHANGED <<home, cursor, guard, dropping>>

----------------------------------------------------------------------------
(* Drop *)

\* List::drop, in a thread that may be panicking already.
BeginDrop(l, as) ==
  /\ Free(l)
  /\ dropping' = [dropping EXCEPT ![l] = as]
  /\ UNCHANGED <<ring, value, home, cursor, guard, returned>>

\* A turn of the loop: remove_unchecked of the front, and the drop of its value.
DropFront(l) ==
  /\ dropping[l] \in {"loop", "unwind", "doomed"}
  /\ front[l] # Null
  /\ Unlink(l, front[l])
  /\ Disown(front[l], "released")
  /\ returned' = front[l]
  /\ UNCHANGED <<home, cursor, guard>>

DropValue(l) == DropFront(l) /\ UNCHANGED dropping

\* Mutant: a loop without the guard, left by the panic.
DropPanicsUnguarded(l) ==
  /\ DropFront(l)
  /\ dropping' = [dropping EXCEPT ![l] = IF @ = "loop" THEN "done" ELSE "doomed"]

\* The drop of the value panics: the drop of the inner Guard starts the loop
\* again while the thread unwinds.
DropPanics(l) ==
  /\ DropFront(l)
  /\ dropping' = [dropping EXCEPT ![l] = IF @ = "loop" THEN "unwind" ELSE "doomed"]

\* The list is empty: List::drop returns, or the unwinding goes on to its caller.
EndDrop(l) ==
  /\ dropping[l] \in {"loop", "unwind"}
  /\ front[l] = Null
  /\ dropping' = [dropping EXCEPT ![l] = "done"]
  /\ UNCHANGED <<ring, value, home, cursor, guard, returned>>

----------------------------------------------------------------------------

Next ==
  \/ \E n \in Nodes : Consume(n)
  \/ \E l \in Lists :
       \/ \E n \in Nodes :
            PushBack(l, n) \/ Get(l, n) \/ Remove(l, n) \/ Access(l, n)
       \/ GuardForget(l)
       \/ \E owner \in {"removed", "released"} : GuardRemove(l, owner)
       \/ OpenCursor(l) \/ CloseCursor(l)
       \/ IterNext(l) \/ IterNextBack(l) \/ ExtractNext(l) \/ ExtractNextBack(l)
       \/ IntoIterNext(l) \/ IntoIterNextBack(l)
       \/ \E as \in {"loop", "unwind"} : BeginDrop(l, as)
       \/ DropValue(l) \/ DropPanics(l) \/ EndDrop(l)

Spec == Init /\ [][Next]_vars

----------------------------------------------------------------------------
(* Properties *)

ListTypeOK ==
  /\ front \in [Lists -> Nodes \cup {Null}] /\ len \in [Lists -> Nat]
  /\ next \in [Nodes -> Nodes \cup {Null}] /\ prev \in [Nodes -> Nodes \cup {Null}]
  /\ value \in [Nodes -> [removed : Nat, released : Nat]]
  /\ home \in [Nodes -> Lists \cup {Null}]
  /\ cursor \in [Lists -> [open : BOOLEAN, front : Nodes \cup {Null},
                           back : Nodes \cup {Null}, popped : Nat]]
  /\ guard \in [Lists -> Nodes \cup {Null}]
  /\ dropping \in [Lists -> Drops] /\ returned \in Nodes \cup {Null}

\* The nodes met from a node on along the next pointers, count of them.
Walk(first, count) ==
  LET met[i \in 1..count] ==
        IF i = 1 THEN first
        ELSE IF met[i - 1] = Null THEN Null ELSE next[met[i - 1]]
  IN met

TasksOf(l) == Walk(front[l], len[l])

\* The next and prev pointers of a list's nodes form one ring through front,
\* with len nodes, all of this list; a removed node points nowhere, which is
\* what get, remove and access go by.  No other list shares a node.
Rings ==
  /\ \A l \in Lists :
       LET s == TasksOf(l) IN
       /\ front[l] = Null <=> len[l] = 0
       /\ \A i, j \in 1..len[l] : s[i] = s[j] => i = j
       /\ \A i \in 1..len[l] :
            LET m == s[IF i = len[l] THEN 1 ELSE i + 1] IN
            s[i] # Null /\ home[s[i]] = l /\ next[s[i]] = m /\ prev[m] = s[i]
  /\ \A n \in Nodes :
       \/ next[n] = Null /\ prev[n] = Null
       \/ \E l \in Lists : \E i \in 1..len[l] : TasksOf(l)[i] = n

Linkage(n) == IF next[n] = Null THEN 0 ELSE 1

\* How many own the value outside of the list, or owned it until its end.
Outside(n) == value[n].removed + value[n].released

\* "The list remains their only owner": from its push on, a value is in exactly
\* one place.  It is in one list while its node is linked, then in at most one
\* Removed, and it is dropped or moved out once, whatever stale Id, cursor,
\* guard or panic gets hold of the node, which wakers keep alive.
OwnedOnce ==
  \A n \in Nodes :
    Linkage(n) + Outside(n) = IF home[n] = Null THEN 0 ELSE 1

\* Values "do not outlive the list (unless the Node is removed)": when the drop
\* of a list is over, each value it held was released or belongs to a Removed,
\* also if the drop of one of them panicked half-way.
NothingOutlives ==
  \A l \in Lists : dropping[l] = "done" =>
    \A n \in Nodes : home[n] = l => Outside(n) = 1

\* What the cursor of l has yet to visit.
VisitOf(l) ==
  IF cursor[l].open THEN Walk(cursor[l].front, len[l] - cursor[l].popped) ELSE <<>>

AllTasks == [l \in Lists |-> TasksOf(l)]
AllVisits == [l \in Lists |-> VisitOf(l)]
AllOpen == [l \in Lists |-> cursor[l].open]
AllPushed == {n \in Nodes : home[n] # Null}

Abstract ==
  INSTANCE TaskSequence WITH
    pushed <- AllPushed, tasks <- AllTasks, guarded <- guard,
    iterating <- AllOpen, window <- AllVisits

\* The pointers implement sequences: insertion order, each task visited by a
\* cursor at most once from either end, also while it removes some of them.
ImplementsTaskSequence == Abstract!Spec
=============================================================================
