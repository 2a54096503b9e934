------------------------------ MODULE JspObjects -------------------------------
(***************************************************************************)
(* The communication objects of the TOPPERS/JSP kernel: semaphores, event  *)
(* flags, data queues, mailboxes and fixed-size memory pools               *)
(* (kernel/semaphore.c, eventflag.c, dataqueue.c, mailbox.c, mempfix.c).   *)
(* Like those of JspServices, the operators give the state at the end of a *)
(* service.  k.obj.store is what the object holds: the count of the        *)
(* semaphore, the set of bits of the flag, the data, the messages, or the  *)
(* blocks in the order in which they are handed out.                       *)
(*                                                                         *)
(* Data and messages are numbered in the order they are sent; k.sent       *)
(* counts them and k.delivered is the history of those that arrived.       *)
(* k.held is the history of the blocks each task has got.                  *)
(***************************************************************************)
EXTENDS JspServices

FirstWaiting(k)   == Head(k.obj.wait_queue)
FirstReceiving(k) == Head(k.obj.rwait_queue)
NoWaiters(k)      == k.obj.wait_queue = << >>

\* The first task of the wait queue gets what it waited for.
WakeFirst(k) ==
  wait_complete([k EXCEPT !.obj.wait_queue = Tail(@)], FirstWaiting(k))

--------------------------------------------------------------------------------
(* semaphore.c *)

sig_sem(k) == IF NoWaiters(k) THEN [k EXCEPT !.obj.store = @ + 1] ELSE WakeFirst(k)

twai_sem(k, tmout) ==
  IF k.obj.store >= 1 THEN [k EXCEPT !.obj.store = @ - 1]
  ELSE wobj_make_wait_tmout(k, NoData, tmout)

--------------------------------------------------------------------------------
(* eventflag.c.  The data of a task that waits: its pattern and its mode.   *)

eventflag_cond(k, waiptn, wfmode) ==
  IF wfmode = "TWF_ORW" THEN k.obj.store \cap waiptn # {} ELSE waiptn \subseteq k.obj.store

TakePattern(k) == IF k.cfg.clr THEN [k EXCEPT !.obj.store = {}] ELSE k

\* Only the first waiting task is looked at: there is at most one.
set_flg(k, setptn) ==
  LET set == [k EXCEPT !.obj.store = @ \cup setptn]
      want == set.tcb[FirstWaiting(k)].data
  IN  IF ~NoWaiters(k) /\ eventflag_cond(set, want[1], want[2])
      THEN WakeFirst(TakePattern(set)) ELSE set

clr_flg(k, clrptn) == [k EXCEPT !.obj.store = @ \cap clrptn]

twai_flg(k, waiptn, wfmode, tmout) ==
  IF eventflag_cond(k, waiptn, wfmode) THEN TakePattern(k)
  ELSE wobj_make_wait_tmout(k, <<waiptn, wfmode>>, tmout)

--------------------------------------------------------------------------------
(* dataqueue.c.  The data of a task that waits to send: its item. *)

Deliver(k, item)      == [k EXCEPT !.delivered = Append(@, item)]
enqueue_data(k, item) == [k EXCEPT !.obj.store = Append(@, item)]
HasRoom(k)            == Len(k.obj.store) < k.cfg.limit

\* The ring is full: its oldest datum is overwritten.
force_enqueue_data(k, item) ==
  [k EXCEPT !.obj.store = Append(IF HasRoom(k) THEN @ ELSE Tail(@), item)]

send_data_rwait(k, item) ==
  wait_complete([Deliver(k, item) EXCEPT !.obj.rwait_queue = Tail(@),
                                         !.tcb[FirstReceiving(k)].data = <<item>>],
                FirstReceiving(k))

tsnd_dtq(k0, tmout) ==
  LET k == [k0 EXCEPT !.sent = @ + 1]
      item == k.sent
  IN  IF k.obj.rwait_queue # << >> THEN send_data_rwait(k, item)
      ELSE IF HasRoom(k) THEN enqueue_data(k, item)
      ELSE wobj_make_wait_tmout(k, <<item>>, tmout)

fsnd_dtq(k0) ==
  LET k == [k0 EXCEPT !.sent = @ + 1]
  IN  IF k.obj.rwait_queue # << >> THEN send_data_rwait(k, k.sent)
      ELSE force_enqueue_data(k, k.sent)

\* A fault: the room left by the datum received is not filled by a waiting sender.
TakesOnly(k) == [Deliver(k, Head(k.obj.store)) EXCEPT !.obj.store = Tail(@)]

\* From the data queue, whose free place goes to the first task that waits to send.
ReceiveStored(k) ==
  LET taken == [Deliver(k, Head(k.obj.store)) EXCEPT !.obj.store = Tail(@)]
  IN  IF NoWaiters(k) THEN taken
      ELSE WakeFirst(enqueue_data(taken, k.tcb[FirstWaiting(k)].data[1]))

\* Straight from a task that waits to send: a data queue without room.
ReceiveFromSender(k) == WakeFirst(Deliver(k, k.tcb[FirstWaiting(k)].data[1]))

WaitToReceive(k, tmout) ==
  LET waiting == make_wait_tmout(k, {"WAIT_WOBJ"}, NoData, tmout)
  IN  [waiting EXCEPT !.obj.rwait_queue = Append(@, k.runtsk)]

\* A fault: waiting senders are served before the data queue is looked into.
SendersFirst(k, tmout) ==
  IF ~NoWaiters(k) THEN ReceiveFromSender(k)
  ELSE IF k.obj.store # << >> THEN ReceiveStored(k)
  ELSE WaitToReceive(k, tmout)

trcv_dtq(k, tmout) ==
  IF k.obj.store # << >> THEN ReceiveStored(k)
  ELSE IF ~NoWaiters(k) THEN ReceiveFromSender(k)
  ELSE WaitToReceive(k, tmout)

--------------------------------------------------------------------------------
(* mailbox.c.  The receiving tasks wait in wait_queue. *)

enqueue_msg_pri(k, msg) ==
  LET queue == k.obj.store
  IN  InsertBehind(queue, {i \in DOMAIN queue : k.cfg.msgpri[queue[i]] <= k.cfg.msgpri[msg]}, msg)

snd_mbx(k0) ==
  LET k == [k0 EXCEPT !.sent = @ + 1]
      msg == k.sent
  IN  IF ~NoWaiters(k) THEN WakeFirst(Deliver(k, msg))
      ELSE [k EXCEPT !.obj.store = IF k.cfg.mpri THEN enqueue_msg_pri(k, msg) ELSE Append(@, msg)]

trcv_mbx(k, tmout) ==
  IF k.obj.store # << >>
  THEN [Deliver(k, Head(k.obj.store)) EXCEPT !.obj.store = Tail(@)]
  ELSE wobj_make_wait_tmout(k, NoData, tmout)

--------------------------------------------------------------------------------
(* mempfix.c.  The freed blocks come before those never used. *)

GiveBlock(k, t, blk) == [k EXCEPT !.held[t] = @ \cup {blk}]

tget_mpf(k, tmout) ==
  IF k.obj.store # << >>
  THEN GiveBlock([k EXCEPT !.obj.store = Tail(@)], k.runtsk, Head(k.obj.store))
  ELSE wobj_make_wait_tmout(k, NoData, tmout)

\* A fault: the block given to a waiting task also goes back to the free list.
FreesAndGives(k, t, blk) ==
  LET freed == [k EXCEPT !.held[t] = @ \ {blk}, !.obj.store = <<blk>> \o @]
  IN  IF NoWaiters(k) THEN freed ELSE WakeFirst(GiveBlock(freed, FirstWaiting(k), blk))

\* t has the block, whichever task calls.
rel_mpf(k, t, blk) ==
  LET left == [k EXCEPT !.held[t] = @ \ {blk}]
  IN  IF NoWaiters(k) THEN [left EXCEPT !.obj.store = <<blk>> \o @]
      ELSE WakeFirst(GiveBlock(left, FirstWaiting(k), blk))

================================================================================
