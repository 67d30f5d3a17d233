---------------------------- MODULE TaskSequence ----------------------------
(***************************************************************************)
(* What src/list.rs promises: each list is a sequence of tasks in the      *)
(* order of their insertion, from which a task can be removed by its node, *)
(* and a cursor is the part of that sequence not visited yet, taken from   *)
(* either end.                                                             *)
(*                                                                         *)
(* This is the abstract specification; TaskList, the pointers of the code, *)
(* is shown to implement it.                                               *)
(***************************************************************************)
EXTENDS Naturals, Sequences

CONSTANTS
  Nodes,  \* the nodes that hold the tasks
  Lists,  \* the lists, one in each selector
  Null    \* no node, not in Nodes

VARIABLES
  pushed,    \* the nodes that have been in a list
  tasks,     \* the tasks of each list, oldest first
  iterating, \* whether a cursor borrows the list
  window,    \* what that cursor has yet to visit
  guarded,   \* the task in the list's AccessGuard
  returned   \* the node returned by the last operation

vars == <<pushed, tasks, iterating, window, guarded, returned>>

Contains(s, n) == \E i \in 1..Len(s) : s[i] = n
PlaceOf(s, n) == CHOOSE i \in 1..Len(s) : s[i] = n
Without(s, n) ==
  IF Contains(s, n)
  THEN [i \in 1..Len(s) - 1 |-> IF i < PlaceOf(s, n) THEN s[i] ELSE s[i + 1]]
  ELSE s
Youngest(s) == s[Len(s)]
Front(s) == SubSeq(s, 1, Len(s) - 1)

Init ==
  /\ pushed = {}
  /\ tasks = [l \in Lists |-> <<>>]
  /\ iterating = [l \in Lists |-> FALSE]
  /\ window = [l \in Lists |-> <<>>]
  /\ guarded = [l \in Lists |-> Null]
  /\ returned = Null

\* Nothing borrows the list.
Free(l) == ~iterating[l] /\ guarded[l] = Null

Push(l, n) ==
  /\ Free(l)
  /\ n \notin pushed
  /\ pushed' = pushed \cup {n}
  /\ tasks' = [tasks EXCEPT ![l] = Append(@, n)]
  /\ returned' = n
  /\ UNCHANGED <<iterating, window, guarded>>

\* Looking up a node finds it exactly if it is in this list.
Find(l, n) == IF Contains(tasks[l], n) THEN n ELSE Null

Get(l, n) ==
  /\ Free(l)
  /\ returned' = Find(l, n)
  /\ UNCHANGED <<pushed, tasks, iterating, window, guarded>>

Remove(l, n) ==
  /\ Free(l)
  /\ returned' = Find(l, n)
  /\ tasks' = [tasks EXCEPT ![l] = Without(@, n)]
  /\ UNCHANGED <<pushed, iterating, window, guarded>>

Access(l, n) ==
  /\ Free(l)
  /\ returned' = Find(l, n)
  /\ guarded' = [guarded EXCEPT ![l] = Find(l, n)]
  /\ UNCHANGED <<pushed, tasks, iterating, window>>

EndAccess(l, keep) ==
  /\ guarded[l] # Null
  /\ tasks' = [tasks EXCEPT ![l] = IF keep THEN @ ELSE Without(@, guarded[l])]
  /\ returned' = guarded[l]
  /\ guarded' = [guarded EXCEPT ![l] = Null]
  /\ UNCHANGED <<pushed, iterating, window>>

Iterate(l) ==
  /\ Free(l)
  /\ iterating' = [iterating EXCEPT ![l] = TRUE]
  /\ window' = [window EXCEPT ![l] = tasks[l]]
  /\ UNCHANGED <<pushed, tasks, guarded, returned>>

\* The next task at one end of the window, kept in the list or removed.
Visit(l, fromFront, keep) ==
  /\ iterating[l]
  /\ IF window[l] = <<>>
     THEN returned' = Null /\ UNCHANGED <<window, tasks>>
     ELSE LET n == IF fromFront THEN Head(window[l]) ELSE Youngest(window[l]) IN
          /\ returned' = n
          /\ window' = [window EXCEPT ![l] =
                          IF fromFront THEN Tail(@) ELSE Front(@)]
          /\ tasks' = [tasks EXCEPT ![l] = IF keep THEN @ ELSE Without(@, n)]
  /\ UNCHANGED <<pushed, iterating, guarded>>

StopIterating(l) ==
  /\ iterating[l]
  /\ iterating' = [iterating EXCEPT ![l] = FALSE]
  /\ window' = [window EXCEPT ![l] = <<>>]
  /\ UNCHANGED <<pushed, tasks, guarded, returned>>

\* The drop of a list removes its tasks, oldest first.
DropOldest(l) ==
  /\ Free(l)
  /\ tasks[l] # <<>>
  /\ returned' = Head(tasks[l])
  /\ tasks' = [tasks EXCEPT ![l] = Tail(@)]
  /\ UNCHANGED <<pushed, iterating, window, guarded>>

Next ==
  \E l \in Lists :
    \/ \E n \in Nodes : Push(l, n) \/ Get(l, n) \/ Remove(l, n) \/ Access(l, n)
    \/ \E keep \in BOOLEAN :
         EndAccess(l, keep) \/ \E fromFront \in BOOLEAN : Visit(l, fromFront, keep)
    \/ Iterate(l) \/ StopIterating(l) \/ DropOldest(l)

Spec == Init /\ [][Next]_vars
=============================================================================
