---------------------------- MODULE Ohci ------------------------------------
(***************************************************************************)
(* libpayload's OHCI driver (src/libpayload/drivers/usb/ohci.c): one       *)
(* interrupt queue (ohci_create_intr_queue, ohci_poll_intr_queue,          *)
(* ohci_destroy_intr_queue) and one control or bulk transfer              *)
(* (ohci_control, ohci_bulk, wait_for_ed, ohci_free_ed), which share the   *)
(* controller's done queue through ohci_process_done_queue, running on the *)
(* CPU against the host controller, which walks the endpoint descriptors  *)
(* (EDs) on its own.                                                       *)
(*                                                                         *)
(* The queue owns ReqCount transfer descriptors (TDs) with a data buffer   *)
(* each, plus a dummy TD at the ED's tail; a transfer is a chain of TDs    *)
(* and a dummy on its own ED.  The controller executes the TD at an ED's   *)
(* head while head # tail, and retires it onto its done list (newest       *)
(* first); an error halts the ED.  At the end of a frame it writes the     *)
(* list back to HccaDoneHead and sets WritebackDoneHead, and does not      *)
(* write again until the CPU clears it.  A poll moves written-back TDs to  *)
(* the queue's list in completion order, hands out the data of the first   *)
(* one, and re-arms that buffer by filling the dummy with it and making    *)
(* the popped TD the new dummy.                                            *)
(*                                                                         *)
(* The controller is the environment, modelled from the OHCI               *)
(* specification; the CPU side is the code.  Other interrupt queues' polls *)
(* also run ohci_process_done_queue: ProcessDoneElsewhere.  The CPU is one *)
(* thread: mdelay() lets the controller run and nothing else.              *)
(***************************************************************************)
EXTENDS Integers, Sequences, SequencesExt, FiniteSets

CONSTANTS
  ReqCount,     \* reqcount: TDs (and buffers) of the queue
  MaxPackets,   \* packets the interrupt endpoint sends in a behaviour
  Page,         \* OHCI page size (4096), scaled
  MaxPacketSize,\* ep->maxpacketsize of the bulk endpoint
  Offsets,      \* where the transfer's data buffer starts
  Lengths,      \* dalen values of the transfers
  WaitBudget    \* wait_for_ed's timeout (pages * 1000 + 2000 ms), scaled

NoTD == 0
TDs == 1..(ReqCount + 1)
Buffers == 1..ReqCount

-----------------------------------------------------------------------------
(* Splitting a transfer's data into TDs.  A TD's buffer is the range      *)
(* [lo, hi] (current_buffer_pointer .. buffer_end); it may cross one page  *)
(* boundary.  A zero-length TD has current_buffer_pointer 0.              *)

Zlp == [lo |-> -1, hi |-> -1]

\* pages: the pages [data, data + dalen) touches.
Pages(data, dalen) ==
  IF dalen = 0 THEN 0 ELSE (data + dalen - 1) \div Page - data \div Page + 1

\* One TD: the rest of the current page, and up to a page after it.
NextPiece(data, remaining) ==
  LET consumed == Page - (data % Page)
      rest     == remaining - consumed
      second   == IF rest > Page THEN Page ELSE rest
  IN IF consumed >= remaining
     THEN [td |-> [lo |-> data, hi |-> data + remaining - 1],
           data |-> data, remaining |-> 0, pages |-> 1]
     ELSE [td |-> [lo |-> data, hi |-> data + consumed + second - 1],
           data |-> data + consumed + second, remaining |-> rest - second,
           pages |-> 2]

\* Mutant: the second `pages--' of a TD that crosses a page is missing.
RECURSIVE ControlData_OnePagePerTd(_, _, _)
ControlData_OnePagePerTd(data, remaining, pages) ==
  IF pages <= 0 THEN <<>>
  ELSE LET p == NextPiece(data, remaining)
       IN <<p.td>> \o ControlData_OnePagePerTd(p.data, p.remaining, pages - 1)

\* ohci_control's data TDs: while (pages > 0).
RECURSIVE ControlData(_, _, _)
ControlData(data, remaining, pages) ==
  IF pages <= 0 THEN <<>>
  ELSE LET p == NextPiece(data, remaining)
       IN <<p.td>> \o ControlData(p.data, p.remaining, pages - p.pages)

\* ohci_bulk's td_count: two pages per TD, and a zero-length packet if
\* finalize asks for one and dalen is a multiple of the packet size.
BulkCount(data, dalen, finalize) ==
  (Pages(data, dalen) + 1) \div 2
    + (IF finalize /\ dalen % MaxPacketSize = 0 THEN 1 ELSE 0)

\* ohci_bulk's TDs: for (i = 0; i < td_count; ++i); with nothing left the
\* TD is the zero-length one.
RECURSIVE BulkData(_, _, _)
BulkData(data, remaining, count) ==
  IF count = 0 THEN <<>>
  ELSE LET p == NextPiece(data, remaining)
       IN <<IF remaining = 0 THEN Zlp ELSE p.td>> \o BulkData(p.data, p.remaining, count - 1)

Requests == [kind : {"control"}, data : Offsets, dalen : Lengths, finalize : {FALSE}]
              \cup [kind : {"bulk"}, data : Offsets, dalen : Lengths, finalize : BOOLEAN]

\* The data TDs of a request; a control transfer adds a setup and a status TD.
DataTds(r) ==
  IF r.kind = "control" THEN ControlData(r.data, r.dalen, Pages(r.data, r.dalen))
  ELSE BulkData(r.data, r.dalen, BulkCount(r.data, r.dalen, r.finalize))
TdCount(r) == Len(DataTds(r)) + (IF r.kind = "control" THEN 2 ELSE 0)

\* The transfer's TDs and its dummy, allocated after the queue's.
ATDs == (ReqCount + 2)..(ReqCount + 2 + Max({TdCount(r) : r \in Requests}))
AllTDs == TDs \cup ATDs

VARIABLES
  qstate,         \* "none", "live", "destroying", "destroyed"
  cpu,            \* "idle" or "poll_take": between the two halves of a poll
  td,             \* TD -> [armed, buf, next]
  tdLive,         \* TDs allocated and not freed
  edHead, edTail, \* intrq->ed.head_pointer / tail_pointer
  scheduled,      \* the ED is in HccaInterruptTable
  hcHolds,        \* the controller may still visit the ED in this frame
  hcCur,          \* the TD whose transaction the controller is running
  hcDone,         \* retired TDs not yet written back, newest first
  doneHead,       \* HccaDoneHead as last written back, newest first
  wdh,            \* HcInterruptStatus.WritebackDoneHead
  intrqList,      \* intrq->head .. intrq->tail
  remaining_tds,  \* intrq->remaining_tds
  destroy,        \* intrq->destroy
  intrqFreed,     \* free(intrq) has been called
  dataLive,       \* intrq->data is allocated
  bufData,        \* buffer -> number of the packet it holds (0: none)
  produced,       \* packets the device has sent
  received,       \* packet numbers poll_intr_queue returned, in order
  uaf,            \* some access touched freed memory or an unarmed TD
  xfer,           \* the transfer: "none", "wait", "waited", "disabled", "done"
  aHead, aTail,   \* its ED's head_pointer (without flags) and tail_pointer
  aHalted,        \* the Halted bit of head_pointer
  aEnabled,       \* ControlListEnable / BulkListEnable
  hcAHolds,       \* the controller may still be on the transfer's ED
  timeout,        \* wait_for_ed's timeout
  aTds,           \* the transfer's TDs, dummy excluded
  aOk,            \* transfer TDs the controller completed without error
  aResult,        \* what wait_for_ed returned
  reported,       \* "ok" (result >= 0) or "error": what the transfer returned
  req,            \* the transfer's request
  aChain          \* the buffer ranges of its data TDs

qvars == <<qstate, cpu, edHead, edTail, scheduled, hcHolds, intrqList,
           remaining_tds, destroy, intrqFreed, dataLive, bufData, produced,
           received>>
avars == <<xfer, aHead, aTail, aHalted, aEnabled, hcAHolds, timeout, aTds,
           aOk, aResult, reported, req, aChain>>
vars == <<qvars, avars, td, tdLive, hcCur, hcDone, doneHead, wdh, uaf>>

EmptyTD == [armed |-> FALSE, buf |-> 0, next |-> NoTD]

\* Mutant: the loop also frees and counts the dummy at the tail.
RECURSIVE EdChain_ThroughTail(_, _, _)
EdChain_ThroughTail(tds, h, t) ==
  IF h = NoTD THEN <<>>
  ELSE IF h = t THEN <<h>> ELSE <<h>> \o EdChain_ThroughTail(tds, tds[h].next, t)

\* The TDs on an ED from head up to, not including, tail.
RECURSIVE EdChain(_, _, _)
EdChain(tds, h, t) ==
  IF h = t \/ h = NoTD THEN <<>> ELSE <<h>> \o EdChain(tds, tds[h].next, t)

\* The CPU is between calls: not inside a poll, a transfer or a destroy.
CpuFree ==
  /\ cpu = "idle"
  /\ xfer \in {"none", "done"}
  /\ qstate # "destroying"

-----------------------------------------------------------------------------
(* ohci_process_done_queue.                                                *)

\* Mutant: the done TDs are appended newest first.
CompletionOrder_NoReverse(done) == done

\* The temp_tdq pass: the done list is newest first; pushing each TD onto
\* temp_tdq and appending from it restores completion order.
CompletionOrder(done) == Reverse(done)

\* TD_QUEUETYPE_INTR TDs of a done list, and the TD_QUEUETYPE_ASYNC ones.
IntrPart(done) == SelectSeq(done, LAMBDA t : t \in TDs)
AsyncPart(done) == ToSet(done) \cap ATDs

\* The returned byte count of short transfers: an async TD retired with an
\* error still has a current_buffer_pointer (one unit per such TD).
ShortCount(done) == Cardinality(AsyncPart(done) \ aOk)

(* One call: if the done head was written back, take it and clear        *)
(* WritebackDoneHead; free the async TDs; free the TDs of a queue being   *)
(* destroyed (and the queue with the last of them); append the other      *)
(* interrupt TDs to the queue's list in completion order.                  *)
ProcessDone ==
  IF ~wdh
  THEN UNCHANGED <<wdh, doneHead, intrqList, tdLive, remaining_tds, intrqFreed, uaf>>
  ELSE LET intr  == IntrPart(doneHead)
           async == AsyncPart(doneHead)
       IN /\ wdh' = FALSE
          /\ doneHead' = <<>>
          /\ IF destroy /\ intr # <<>>
             THEN /\ tdLive' = tdLive \ (ToSet(intr) \cup async)
                  /\ remaining_tds' = remaining_tds - Len(intr)
                  /\ intrqFreed' = (intrqFreed \/ remaining_tds - Len(intr) = 0)
                  /\ uaf' = (uaf \/ intrqFreed \/ ~(async \subseteq tdLive))
                  /\ UNCHANGED intrqList
             ELSE /\ intrqList' = intrqList \o CompletionOrder(intr)
                  /\ tdLive' = tdLive \ async
                  /\ uaf' = (uaf \/ ~(async \subseteq tdLive))
                  /\ UNCHANGED <<remaining_tds, intrqFreed>>

-----------------------------------------------------------------------------
(* The interrupt queue.                                                    *)

\* ohci_create_intr_queue: ReqCount armed TDs linked to a dummy; the ED is
\* placed in the periodic table if a slot is free, else destroyed at once.
CreateIntrQueue ==
  /\ qstate = "none" /\ CpuFree
  /\ td' = [t \in AllTDs |-> IF t \in TDs \ {ReqCount + 1}
                             THEN [armed |-> TRUE, buf |-> t, next |-> t + 1]
                             ELSE IF t = ReqCount + 1 THEN EmptyTD ELSE td[t]]
  /\ tdLive' = tdLive \cup TDs
  /\ edHead' = 1
  /\ edTail' = ReqCount + 1
  /\ remaining_tds' = ReqCount
  /\ dataLive' = TRUE
  /\ \/ /\ qstate' = "live"
        /\ scheduled' = TRUE
        /\ hcHolds' = TRUE
     \/ /\ qstate' = "destroying"
        /\ UNCHANGED <<scheduled, hcHolds>>
  /\ UNCHANGED <<cpu, intrqList, destroy, intrqFreed, bufData, produced,
                 received>>
  /\ UNCHANGED <<avars, hcCur, hcDone, doneHead, wdh, uaf>>

\* ohci_poll_intr_queue, first half: process the done queue.
PollDone ==
  /\ qstate = "live" /\ CpuFree
  /\ ProcessDone
  /\ cpu' = "poll_take"
  /\ UNCHANGED <<qstate, edHead, edTail, scheduled, hcHolds, destroy, dataLive,
                 bufData, produced, received>>
  /\ UNCHANGED <<avars, td, hcCur, hcDone>>

\* Requeue: the old dummy gets the popped TD's buffer and links to the
\* popped TD, which is reset to an empty dummy.
Requeue(cur, dummy) ==
  [td EXCEPT ![dummy] = [armed |-> TRUE, buf |-> td[cur].buf, next |-> cur],
             ![cur] = EmptyTD]

\* Mutant: the popped TD's buffer is handed out but not requeued.
PollTake_NoRequeue ==
  /\ cpu = "poll_take"
  /\ cpu' = "idle"
  /\ IF intrqList = <<>>
     THEN UNCHANGED <<intrqList, received>>
     ELSE /\ intrqList' = Tail(intrqList)
          /\ received' = Append(received, bufData[td[Head(intrqList)].buf])
  /\ UNCHANGED <<td, edTail, qstate, edHead, scheduled, hcHolds, remaining_tds,
                 destroy, intrqFreed, dataLive, bufData, produced>>
  /\ UNCHANGED <<avars, tdLive, hcCur, hcDone, doneHead, wdh, uaf>>

\* ohci_poll_intr_queue, second half: pop the first done TD, return its
\* data, requeue it and move the ED's tail pointer.
PollTake ==
  /\ cpu = "poll_take"
  /\ cpu' = "idle"
  /\ IF intrqList = <<>>
     THEN UNCHANGED <<td, edTail, intrqList, received>>
     ELSE LET cur == Head(intrqList)
              b   == td[cur].buf
          IN /\ intrqList' = Tail(intrqList)
             /\ received' = Append(received, bufData[b])
             /\ td' = Requeue(cur, edTail)
             /\ edTail' = cur
  /\ UNCHANGED <<qstate, edHead, scheduled, hcHolds, remaining_tds, destroy,
                 intrqFreed, dataLive, bufData, produced>>
  /\ UNCHANGED <<avars, tdLive, hcCur, hcDone, doneHead, wdh, uaf>>

\* ohci_destroy_intr_queue, up to mdelay(1): take the ED out of the table.
DestroyUnlink ==
  /\ qstate = "live" /\ CpuFree
  /\ qstate' = "destroying"
  /\ scheduled' = FALSE
  /\ UNCHANGED <<cpu, edHead, edTail, hcHolds, intrqList, remaining_tds,
                 destroy, intrqFreed, dataLive, bufData, produced, received>>
  /\ UNCHANGED <<avars, td, tdLive, hcCur, hcDone, doneHead, wdh, uaf>>

(* The frees of ohci_destroy_intr_queue after mdelay(1): the TDs still   *)
(* on the ED and the dummy, the data, then ohci_process_done_queue (destroy *)
(* not yet set, so this queue's written-back TDs join its list and async  *)
(* ones are freed), the list's TDs; then destroy = 1.                      *)
FreeQueueBody(counted) ==
  /\ LET chain == EdChain(td, edHead, edTail)
         taken == IF wdh THEN CompletionOrder(IntrPart(doneHead)) ELSE <<>>
         async == IF wdh THEN AsyncPart(doneHead) ELSE {}
         list  == intrqList \o taken
     IN /\ tdLive' = tdLive \ (ToSet(chain) \cup {edTail} \cup ToSet(list) \cup async)
        /\ remaining_tds' = remaining_tds - Len(chain) - (IF counted THEN Len(list) ELSE 0)
        /\ edHead' = edTail
        /\ wdh' = FALSE
        /\ doneHead' = IF wdh THEN <<>> ELSE doneHead
        /\ intrqList' = <<>>
  /\ dataLive' = FALSE
  /\ destroy' = TRUE
  /\ qstate' = "destroyed"
  /\ UNCHANGED <<cpu, edTail, scheduled, hcHolds, intrqFreed, bufData,
                 produced, received>>
  /\ UNCHANGED <<avars, td, hcCur, hcDone, uaf>>

\* Mutant: the TDs taken from the queue's list are freed without
\* `--intrq->remaining_tds'.
FreeQueue_NoCount == FreeQueueBody(FALSE)

FreeQueue == FreeQueueBody(TRUE)

\* Mutant: no wait for the frame to finish.
DestroyFree_NoFrameWait ==
  /\ qstate = "destroying"
  /\ FreeQueue

\* ohci_destroy_intr_queue after mdelay(1), by which the frame in which the
\* controller may still have visited the unlinked ED is over.
DestroyFree ==
  /\ qstate = "destroying" /\ ~hcHolds
  /\ FreeQueue

\* Another interrupt queue's poll runs ohci_process_done_queue.
ProcessDoneElsewhere ==
  /\ qstate # "none" /\ CpuFree
  /\ ProcessDone
  /\ UNCHANGED <<qstate, cpu, edHead, edTail, scheduled, hcHolds, destroy,
                 dataLive, bufData, produced, received>>
  /\ UNCHANGED <<avars, td, hcCur, hcDone>>

-----------------------------------------------------------------------------
(* A control or bulk transfer.                                             *)

\* n TDs and a final dummy on a fresh ED; the list is enabled and marked
\* filled.
ArmTransfer(n) ==
  LET first == ReqCount + 2
      dummy == ReqCount + 2 + n
      ids   == first..dummy
  IN /\ xfer = "none" /\ CpuFree
     /\ td' = [t \in AllTDs |->
                 IF t \notin ids THEN td[t]
                 ELSE IF t = dummy THEN EmptyTD
                 ELSE [armed |-> TRUE, buf |-> 0, next |-> t + 1]]
     /\ tdLive' = tdLive \cup ids
     /\ aHead' = first
     /\ aTail' = dummy
     /\ aTds' = ids \ {dummy}
     /\ aEnabled' = TRUE
     /\ hcAHolds' = TRUE
     /\ timeout' = WaitBudget
     /\ xfer' = "wait"
     /\ UNCHANGED <<aHalted, aOk, aResult, reported>>
     /\ UNCHANGED <<qvars, hcCur, hcDone, doneHead, wdh, uaf>>

(* The start of ohci_control (a setup TD, the data TDs, a status TD) or  *)
(* of ohci_bulk (td_count TDs): the request's TDs on a fresh ED.           *)
StartTransfer(r) ==
  /\ ArmTransfer(TdCount(r))
  /\ req' = r
  /\ aChain' = DataTds(r)

\* The ED still has TDs to run and is not halted.
Pending == aHead # aTail /\ ~aHalted

\* wait_for_ed: one turn of the loop; mdelay(1) lets the controller run.
WaitTick ==
  /\ xfer = "wait"
  /\ Pending /\ timeout > 0
  /\ timeout' = timeout - 1
  /\ UNCHANGED <<xfer, aHead, aTail, aHalted, aEnabled, hcAHolds, aTds, aOk,
                 aResult, reported, req, aChain>>
  /\ UNCHANGED <<qvars, td, tdLive, hcCur, hcDone, doneHead, wdh, uaf>>

(* wait_for_ed after the loop, left because the ED is done or halted or  *)
(* the timeout ran out (only logged): process the done queue, then return *)
(* -1 if the ED is halted and the short-packet count otherwise.           *)
WaitEnd ==
  /\ xfer = "wait"
  /\ ~Pending \/ timeout = 0
  /\ ProcessDone
  /\ aResult' = IF aHalted THEN -1 ELSE IF wdh THEN ShortCount(doneHead) ELSE 0
  /\ timeout' = IF Pending THEN -1 ELSE timeout
  /\ xfer' = "waited"
  /\ UNCHANGED <<qstate, cpu, edHead, edTail, scheduled, hcHolds, destroy,
                 dataLive, bufData, produced, received>>
  /\ UNCHANGED <<aHead, aTail, aHalted, aEnabled, hcAHolds, aTds, aOk, reported, req, aChain>>
  /\ UNCHANGED <<td, hcCur, hcDone>>

\* mdelay(4), then the list is disabled.
DisableList ==
  /\ xfer = "waited"
  /\ aEnabled' = FALSE
  /\ xfer' = "disabled"
  /\ UNCHANGED <<aHead, aTail, aHalted, hcAHolds, timeout, aTds, aOk, aResult,
                 reported, req, aChain>>
  /\ UNCHANGED <<qvars, td, tdLive, hcCur, hcDone, doneHead, wdh, uaf>>

\* Mutant: ohci_free_ed leaves the dummy.
FreeEd_NoDummy(h, t) == ToSet(EdChain(td, h, t))

\* ohci_free_ed: the TDs the controller has not retired, and the dummy.
FreeEd(h, t) == ToSet(EdChain(td, h, t)) \cup {t}

(* After mdelay(1): ohci_free_ed, then result = dalen - result if it is  *)
(* not negative (and the data copied back for IN); the caller sees "ok"  *)
(* or "error".                                                             *)
FinishTransfer ==
  /\ xfer = "disabled" /\ ~hcAHolds
  /\ tdLive' = tdLive \ FreeEd(aHead, aTail)
  /\ uaf' = (uaf \/ ~(FreeEd(aHead, aTail) \subseteq tdLive))
  /\ aHead' = aTail
  /\ reported' = IF aResult >= 0 THEN "ok" ELSE "error"
  /\ xfer' = "done"
  /\ UNCHANGED <<aTail, aHalted, aEnabled, hcAHolds, timeout, aTds, aOk, aResult, req, aChain>>
  /\ UNCHANGED <<qvars, td, hcCur, hcDone, doneHead, wdh>>

-----------------------------------------------------------------------------
(* The host controller (environment).                                      *)

\* Visiting the interrupt ED, the controller fetches the TD at its head and
\* starts the transaction.
HcFetch ==
  /\ hcHolds /\ hcCur = NoTD
  /\ edHead # edTail
  /\ produced < MaxPackets
  /\ hcCur' = edHead
  /\ UNCHANGED <<qvars, avars, td, tdLive, hcDone, doneHead, wdh, uaf>>

\* The transaction ends: the device's next packet lands in the TD's buffer,
\* the ED's head moves to the TD's next, and the TD is retired.
HcExecute ==
  /\ hcCur \in TDs
  /\ LET t == hcCur
         b == td[t].buf
     IN /\ uaf' = (uaf \/ t \notin tdLive \/ ~td[t].armed \/ b = 0 \/ ~dataLive)
        /\ bufData' = IF b = 0 THEN bufData ELSE [bufData EXCEPT ![b] = produced + 1]
        /\ edHead' = td[t].next
        /\ hcDone' = <<t>> \o hcDone
  /\ hcCur' = NoTD
  /\ produced' = produced + 1
  /\ UNCHANGED <<qstate, cpu, edTail, scheduled, hcHolds, intrqList,
                 remaining_tds, destroy, intrqFreed, dataLive, received>>
  /\ UNCHANGED <<avars, td, tdLive, doneHead, wdh>>

\* The same on the transfer's ED, while its list is enabled and the ED is
\* not halted.
HcFetchAsync ==
  /\ hcAHolds /\ hcCur = NoTD
  /\ Pending
  /\ hcCur' = aHead
  /\ UNCHANGED <<qvars, avars, td, tdLive, hcDone, doneHead, wdh, uaf>>

\* A transfer TD completes, or fails (STALL, timeout on the bus) and halts
\* the ED; either way it is retired and the head moves on.
HcExecuteAsync ==
  /\ hcCur \in ATDs
  /\ \E ok \in BOOLEAN :
       LET t == hcCur
       IN /\ uaf' = (uaf \/ t \notin tdLive \/ ~td[t].armed)
          /\ aHead' = td[t].next
          /\ aHalted' = ~ok
          /\ aOk' = IF ok THEN aOk \cup {t} ELSE aOk
          /\ hcDone' = <<t>> \o hcDone
  /\ hcCur' = NoTD
  /\ UNCHANGED <<xfer, aTail, aEnabled, hcAHolds, timeout, aTds, aResult,
                 reported, req, aChain>>
  /\ UNCHANGED <<qvars, td, tdLive, doneHead, wdh>>

\* End of frame: the done list is written back if the CPU has cleared
\* WritebackDoneHead.
HcWriteback ==
  /\ ~wdh
  /\ hcDone # <<>>
  /\ doneHead' = hcDone
  /\ hcDone' = <<>>
  /\ wdh' = TRUE
  /\ UNCHANGED <<qvars, avars, td, tdLive, hcCur, uaf>>

\* A new frame starts: the controller visits the interrupt ED only if it is
\* in the table, and the transfer's ED only if its list is enabled.
HcFrame ==
  /\ hcCur = NoTD
  /\ hcHolds # scheduled \/ hcAHolds # aEnabled
  /\ hcHolds' = scheduled
  /\ hcAHolds' = aEnabled
  /\ UNCHANGED <<qstate, cpu, edHead, edTail, scheduled, intrqList,
                 remaining_tds, destroy, intrqFreed, dataLive, bufData,
                 produced, received>>
  /\ UNCHANGED <<xfer, aHead, aTail, aHalted, aEnabled, timeout, aTds, aOk,
                 aResult, reported, req, aChain>>
  /\ UNCHANGED <<td, tdLive, hcCur, hcDone, doneHead, wdh, uaf>>

-----------------------------------------------------------------------------

Init ==
  /\ qstate = "none" /\ cpu = "idle"
  /\ td = [t \in AllTDs |-> EmptyTD]
  /\ tdLive = {}
  /\ edHead = NoTD /\ edTail = NoTD
  /\ scheduled = FALSE /\ hcHolds = FALSE /\ hcCur = NoTD
  /\ hcDone = <<>> /\ doneHead = <<>> /\ wdh = FALSE
  /\ intrqList = <<>>
  /\ remaining_tds = 0 /\ destroy = FALSE /\ intrqFreed = FALSE
  /\ dataLive = FALSE
  /\ bufData = [b \in Buffers |-> 0]
  /\ produced = 0 /\ received = <<>>
  /\ uaf = FALSE
  /\ xfer = "none"
  /\ aHead = NoTD /\ aTail = NoTD /\ aHalted = FALSE
  /\ aEnabled = FALSE /\ hcAHolds = FALSE
  /\ timeout = 0 /\ aTds = {} /\ aOk = {} /\ aResult = 0
  /\ reported = "none"
  /\ req = CHOOSE r \in Requests : TRUE
  /\ aChain = <<>>

Next ==
  \/ CreateIntrQueue \/ PollDone \/ PollTake
  \/ DestroyUnlink \/ DestroyFree \/ ProcessDoneElsewhere
  \/ \E r \in Requests : StartTransfer(r)
  \/ WaitTick \/ WaitEnd \/ DisableList \/ FinishTransfer
  \/ HcFetch \/ HcExecute \/ HcFetchAsync \/ HcExecuteAsync
  \/ HcWriteback \/ HcFrame

Spec == Init /\ [][Next]_vars

(* The CPU side is one thread that runs a transfer to its end, and the     *)
(* caller polls the queue in a loop ("while (data = poll_intr_queue(q))"): *)
(* each such step is taken once enabled.  The controller runs frames,      *)
(* executes fetched TDs and writes the done list back.  The device is      *)
(* assumed to answer an IN token it has data for (HcFetch).  Creating,    *)
(* destroying and starting transfers are the caller's choice: no fairness. *)
FairSpec ==
  /\ Spec
  /\ WF_vars(PollDone) /\ WF_vars(PollTake)
  /\ WF_vars(WaitTick) /\ WF_vars(WaitEnd) /\ WF_vars(DisableList)
  /\ WF_vars(FinishTransfer)
  /\ WF_vars(HcFetch) /\ WF_vars(HcExecute) /\ WF_vars(HcFetchAsync)
  /\ WF_vars(HcExecuteAsync) /\ WF_vars(HcWriteback) /\ WF_vars(HcFrame)

-----------------------------------------------------------------------------
(* Properties.                                                             *)

TypeOK ==
  /\ qstate \in {"none", "live", "destroying", "destroyed"}
  /\ cpu \in {"idle", "poll_take"}
  /\ tdLive \subseteq AllTDs
  /\ {edHead, edTail} \subseteq TDs \cup {NoTD}
  /\ remaining_tds \in 0..ReqCount
  /\ bufData \in [Buffers -> 0..MaxPackets]
  /\ received \in Seq(0..MaxPackets)
  /\ xfer \in {"none", "wait", "waited", "disabled", "done"}
  /\ timeout \in -1..WaitBudget
  /\ reported \in {"none", "ok", "error"}

(* ohci_poll_intr_queue hands out packets in the order the device sent     *)
(* them, none lost or repeated, also when wait_for_ed or another poll      *)
(* took the done list: it is newest first, and ohci_process_done_queue     *)
(* must reverse it before appending to the queue's list.                   *)
FifoDelivery == \A i \in 1..Len(received) : received[i] = i

(* The controller never executes a TD that was freed or reset, never       *)
(* writes into the freed data buffer, and nothing is freed twice:          *)
(* ohci_destroy_intr_queue and ohci_free_ed free TDs only after the frame  *)
(* in which the controller could still visit their ED is over, and         *)
(* retired TDs only ohci_process_done_queue frees.                          *)
NoUseAfterFree == ~uaf

(* intrq->remaining_tds counts the queue's allocated TDs other than the    *)
(* dummy, across requeues that swap which TD is the dummy, the frees of    *)
(* ohci_destroy_intr_queue, and the orphans ohci_process_done_queue frees. *)
RemainingCountsTds ==
  qstate \in {"live", "destroying", "destroyed"} =>
    remaining_tds = Cardinality((tdLive \cap TDs) \ {edTail})

(* Once a transfer has returned, each of its TDs is freed or still on the  *)
(* controller's done list, where the next ohci_process_done_queue frees    *)
(* it: ohci_free_ed takes the unretired TDs and the dummy.                 *)
TransferTdsReleased ==
  xfer = "done" => tdLive \cap ATDs \subseteq ToSet(hcDone) \cup ToSet(doneHead)

(* The TDs ohci_control and ohci_bulk build cover the buffer exactly:     *)
(* consecutive ranges from the first byte to the last, none empty and none *)
(* crossing more than one page boundary (a TD can map only two pages), and *)
(* a zero-length TD last exactly when ohci_bulk is asked to finalize a     *)
(* length that is a multiple of the packet size.                           *)
ChainCoversBuffer ==
  xfer # "none" =>
    LET p   == SelectSeq(aChain, LAMBDA c : c # Zlp)
        zlp == req.kind = "bulk" /\ req.finalize /\ req.dalen % MaxPacketSize = 0
    IN /\ \A i \in 1..Len(p) :
            p[i].lo <= p[i].hi /\ p[i].hi \div Page - p[i].lo \div Page <= 1
       /\ \A i \in 1..(Len(p) - 1) : p[i + 1].lo = p[i].hi + 1
       /\ req.dalen = 0 => p = <<>>
       /\ req.dalen > 0 => p # <<>> /\ p[1].lo = req.data
                          /\ p[Len(p)].hi = req.data + req.dalen - 1
       /\ aChain = (IF zlp THEN p \o <<Zlp>> ELSE p)

(* While the queue stays live, the device's packets keep reaching the     *)
(* caller: each poll requeues the TD it took as the new dummy and moves   *)
(* the ED's tail, and ohci_process_done_queue clears WritebackDoneHead so *)
(* the controller writes back again; a queue that stops being re-armed,  *)
(* or a done list that is never taken again, starves the endpoint.        *)
PacketsKeepFlowing ==
  qstate = "live" ~> (Len(received) = MaxPackets \/ qstate # "live")

(* A control or bulk transfer that returns a length (not -1) was carried   *)
(* out: every TD of it completed without error.                            *)
TransferReportsFailure ==
  reported = "ok" => aTds \subseteq aOk

=============================================================================
