-------------------------------- MODULE JspTime --------------------------------
(***************************************************************************)
(* The time events of the TOPPERS/JSP kernel (kernel/time_event.c): a      *)
(* binary heap of event times, the system time that orders them, and the   *)
(* functions that insert and delete an event.  They run with the CPU       *)
(* locked, several in one service, so they are operators on the record of  *)
(* the kernel's state that the actions of JspKernel chain.                 *)
(*                                                                         *)
(* An event time is an unsigned word that wraps: it is compared by its     *)
(* distance from current_time.  A time event block is named by its owner,  *)
(* the task that waits or the cyclic handler.                              *)
(***************************************************************************)
EXTENDS Integers, Sequences

CONSTANTS
  TNUM_TSK,     \* number of tasks
  TNUM_CYC,     \* number of cyclic handlers
  EVTTIM_BITS,  \* width of an event time; 32 in time_event.h
  TIC_NUME      \* milliseconds between two ticks (TIC_DENO being 1)

ASSUME TickFitsWord ==
  /\ TNUM_TSK \in 1 .. 255 /\ TNUM_CYC \in Nat
  /\ EVTTIM_BITS \in Nat \ {0}
  /\ TIC_NUME \in 1 .. 2 ^ (EVTTIM_BITS - 1)

Task       == 1 .. TNUM_TSK
Cyclic     == TNUM_TSK + 1 .. TNUM_TSK + TNUM_CYC
EventOwner == Task \cup Cyclic     \* whose time event block it is

EVTTIM      == 0 .. 2 ^ EVTTIM_BITS - 1
TMAX_RELTIM == 2 ^ (EVTTIM_BITS - 1) - 1
Wrap(n)     == n % 2 ^ EVTTIM_BITS

NoEvents == [heap |-> << >>, index |-> [o \in EventOwner |-> 0],
             current_time |-> 0, next_time |-> TIC_NUME]

\* How far a time lies ahead of current_time: what EVTTIM_LT and EVTTIM_LE compare.
Ahead(k, time)    == Wrap(time - k.current_time)
EVTTIM_LT(k, a, b) == Ahead(k, a) < Ahead(k, b)
EVTTIM_LE(k, a, b) == Ahead(k, a) <= Ahead(k, b)

last_index(k) == Len(k.heap)
PARENT(i)     == i \div 2
LCHILD(i)     == 2 * i
base_time(k)  == k.next_time

--------------------------------------------------------------------------------
(* Moving the hole.  Each function gives the places the hole passes through; *)
(* Fill then moves the node of each place to the one before it, puts a node  *)
(* into the last one and notes in every block it moved where it now is.      *)

\* tmevt_up goes on until the parent is due no later than the new node.
tmevt_up(k, index, time) ==
  LET up[i \in 1 .. last_index(k) + 1] ==
        IF i = 1 \/ EVTTIM_LE(k, k.heap[PARENT(i)].time, time)
        THEN <<i>> ELSE <<i>> \o up[PARENT(i)]
  IN  up[index]

LeftChild(k, i) == LCHILD(i)

EarlierChild(k, i) ==
  LET child == LCHILD(i) IN
  IF child + 1 <= last_index(k) /\ EVTTIM_LT(k, k.heap[child + 1].time, k.heap[child].time)
  THEN child + 1 ELSE child

\* tmevt_down until both children are due no earlier than the new node.
tmevt_down(k, index, time) ==
  LET down[i \in 1 .. last_index(k) + 1] ==
        IF LCHILD(i) > last_index(k) \/ EVTTIM_LE(k, time, k.heap[EarlierChild(k, i)].time)
        THEN <<i>> ELSE <<i>> \o down[EarlierChild(k, i)]
  IN  down[index]

Fill(k, path, node) ==
  LET step(i)  == CHOOSE n \in 1 .. Len(path) : path[n] = i
      moved    == {i \in DOMAIN k.heap : \E n \in 1 .. Len(path) : path[n] = i}
      into(i)  == IF step(i) = Len(path) THEN node ELSE k.heap[path[step(i) + 1]]
  IN  [k EXCEPT !.heap  = [i \in DOMAIN k.heap |-> IF i \in moved THEN into(i) ELSE k.heap[i]],
                !.index = [o \in EventOwner |->
                             IF \E i \in moved : into(i).owner = o
                             THEN CHOOSE i \in moved : into(i).owner = o
                             ELSE k.index[o]]]

--------------------------------------------------------------------------------
(* The heap's operations.  An index of 0 stands for a block not in the heap: *)
(* the code leaves the last value, and reads it no more.                     *)

tmevtb_insert(k, owner, callback, time) ==
  LET node == [time |-> time, owner |-> owner, callback |-> callback]
      grown == [k EXCEPT !.heap = Append(@, node)]
  IN  Fill(grown, tmevt_up(grown, last_index(grown), time), node)

tmevtb_enqueue(k, owner, callback, time) ==
  tmevtb_insert(k, owner, callback, Wrap(base_time(k) + time))

tmevtb_delete(k, owner) ==
  LET index == k.index[owner]
      last  == k.heap[last_index(k)]
      rest  == [k EXCEPT !.heap = SubSeq(@, 1, Len(@) - 1), !.index[owner] = 0]
  IN  IF rest.heap = << >> THEN rest
      ELSE IF index > 1 /\ EVTTIM_LT(k, last.time, k.heap[PARENT(index)].time)
      THEN Fill(rest, tmevt_up(rest, index, last.time), last)
      ELSE Fill(rest, tmevt_down(rest, index, last.time), last)

tmevtb_delete_top(k) == tmevtb_delete(k, k.heap[1].owner)

\* The loop of isig_tim: is there an event this tick has to deliver?
EventDue(k) == k.heap # << >> /\ EVTTIM_LE(k, k.heap[1].time, k.next_time)

\* After the loop.
NextTick(k) == [k EXCEPT !.current_time = k.next_time, !.next_time = Wrap(k.next_time + TIC_NUME)]

================================================================================
