-------------------------------- MODULE Dwc2 --------------------------------
(***************************************************************************)
(* The DWC2 USB host controller driver of libpayload (dwc2.c): controller  *)
(* set-up, the bulk, control and interrupt-queue entry points, and the     *)
(* transfer loop of dwc2_transfer with its split (hub) path, NAK retry and *)
(* channel time-out.  The driver runs on the one CPU thread; the channel   *)
(* and the USB device are the environment: each dwc2_do_xfer is one step   *)
(* whose outcome (how many packets moved, why the channel halted) is       *)
(* chosen by the hardware.  Data bytes are abstracted to their counts.     *)
(***************************************************************************)
EXTENDS Naturals, Integers, FiniteSets

CONSTANTS
  MaxPacket,       \* ep->maxpacketsize of every endpoint
  DmaSize,         \* DMA_SIZE, the largest chunk one channel run may carry
  Sizes,           \* sizes a caller passes to bulk and to the intr queue
  DaLens,          \* data-stage lengths a caller passes to control
  SetupLen,        \* drlen, the length of a SETUP packet
  NakBudget,       \* the timeout = 3000 of dwc2_transfer
  FrameMod,        \* hfnum.frnum wraps to 0 at this value
  ReqTiming,       \* reqtiming of the interrupt queue
  Depths,          \* GHWCFG3.dfifodepth values a core may report
  Speeds,          \* "high", "full_root" (on the root port), "full_hub"
  MaxCalls,        \* bound on bulk, control and poll calls
  HaltErrors,      \* the halt reasons besides NYET the channel may report
  DeviceMayBabble  \* whether the device may send more than was asked for

ASSUME /\ MaxPacket \in Nat \ {0} /\ DmaSize % (2 * MaxPacket) = 0
       /\ Sizes \subseteq Nat /\ DaLens \subseteq Nat /\ SetupLen \in Nat
       /\ NakBudget \in Nat \ {0} /\ FrameMod % 8 = 0 /\ ReqTiming \in Nat
       /\ Speeds \subseteq {"high", "full_root", "full_hub"}
       /\ HaltErrors \subseteq {"nak", "xacterr", "babble", "stall"}

(* hctsiz.pid encodings and the HCSTAT codes the driver returns negated.  *)
PID_DATA0 == 0
PID_DATA1 == 2
PID_SETUP == 3
HCSTAT_NAK == 2
HCSTAT_XFERERR == 3
HCSTAT_BABBLE == 4
HCSTAT_STALL == 5
HCSTAT_NYET == 6
HCSTAT_TIMEOUT == 8
HCSTAT_DISCONNECTED == 9

(* wait_for_complete's decode of a halted channel's hcint.                *)
HaltCode == [nak |-> HCSTAT_NAK, xacterr |-> HCSTAT_XFERERR,
             babble |-> HCSTAT_BABBLE, stall |-> HCSTAT_STALL]

Eps == {"ctl", "bin", "bout", "intr"}
EpDir == [ctl |-> "out", bin |-> "in", bout |-> "out", intr |-> "in"]
NoFifo == [depth |-> 0, rx |-> 0, nptxStart |-> 0, nptx |-> 0,
           ptxStart |-> 0, ptx |-> 0]
MaxSize == LET all == Sizes \cup DaLens \cup {SetupLen}
           IN CHOOSE s \in all : \A t \in all : t <= s

(* Mutant: no reserve for status entries and the periodic FIFO.          *)
FifoConfig_NoReserve(depth) ==
  LET fifo_blocks == depth \div (512 \div 4)
      tx_blocks == fifo_blocks \div 2
      rxfdep == (fifo_blocks - tx_blocks) * (512 \div 4) + 4
  IN [depth |-> depth, rx |-> rxfdep, nptxStart |-> rxfdep,
      nptx |-> tx_blocks * (512 \div 4),
      ptxStart |-> rxfdep + tx_blocks * (512 \div 4), ptx |-> 16]

(* dwc2_reinit: the FIFO split computed from the reported depth.           *)
FifoConfig(depth) ==
  LET fifo_blocks == (depth - 4 - 16) \div (512 \div 4)
      tx_blocks == fifo_blocks \div 2
      rxfdep == (fifo_blocks - tx_blocks) * (512 \div 4) + 4
  IN [depth |-> depth, rx |-> rxfdep, nptxStart |-> rxfdep,
      nptx |-> tx_blocks * (512 \div 4),
      ptxStart |-> rxfdep + tx_blocks * (512 \div 4), ptx |-> 16]

(* The data toggle after k packets starting from pid.                      *)
ToggleAfter(pid, k) ==
  IF k % 2 = 0 THEN pid
  ELSE IF pid = PID_DATA0 THEN PID_DATA1 ELSE PID_DATA0

(* What the core leaves in hctsiz.pid: untouched when no packet moved;    *)
(* after a SETUP went out the driver never trusts it (dwc2_control sets   *)
(* ep->toggle itself), so it is open.                                     *)
Readback(pid, k) ==
  IF pid = PID_SETUP /\ k > 0 THEN {PID_DATA0, PID_DATA1}
  ELSE {ToggleAfter(pid, k)}

(* dwc2_do_xfer: packet count and the IN buffer size programmed.          *)
PacketCnt(size) == (size + MaxPacket - 1) \div MaxPacket
InpktLength(size) == PacketCnt(size) * MaxPacket
XferSize(size, dir) == IF dir = "out" THEN size ELSE InpktLength(size)

(* The packets an IN transfer of b bytes takes: full packets and a short  *)
(* or zero-length one, unless the programmed size was filled.             *)
InPackets(size, b) ==
  IF b = InpktLength(size) /\ b > 0 THEN b \div MaxPacket
  ELSE b \div MaxPacket + 1

(* Mutant: the remaining xfersize is not subtracted.                      *)
InTransferred_NoRemainder(size, remaining) == InpktLength(size)

(* The transferred length of a completed IN run: inpkt_length - ret.      *)
InTransferred(size, remaining) == InpktLength(size) - remaining

(* wait_for_complete and dwc2_do_xfer, for a channel run of kind "plain", *)
(* "ssplit" or "csplit": the set of outcomes the core and the device can  *)
(* produce.  k counts the data packets the device took or gave, bytes the *)
(* bytes that reached the caller's buffer or the device, rbs the toggles  *)
(* hctsiz.pid may read back, save whether the driver reads it at all.     *)
Outcome(ret, k, bytes, short, rbs, save, disc, halting) ==
  [ret |-> ret, k |-> k, bytes |-> bytes, short |-> short, rbs |-> rbs,
   save |-> save, disc |-> disc, halting |-> halting]

DoXfer(size, pid, dir, kind, connected) ==
  LET npk == IF PacketCnt(size) = 0 THEN 1 ELSE PacketCnt(size)
      limit == IF DeviceMayBabble THEN XferSize(size, dir) ELSE size
      partial == IF kind = "plain" THEN 0..(npk - 1) ELSE {0}
      moved(k) == k * MaxPacket
      errs == {HaltCode[h] : h \in HaltErrors} \cup {HCSTAT_DISCONNECTED}
              \cup (IF kind = "csplit" THEN {HCSTAT_NYET} ELSE {})
      comp ==
        CASE kind = "ssplit" ->
               {Outcome(IF dir = "out" THEN size ELSE 0, 0, 0, FALSE,
                        {pid} \cup Readback(pid, 1), TRUE, FALSE, FALSE)}
          [] dir = "out" ->
               LET k == IF kind = "plain" THEN npk ELSE 1
               IN {Outcome(size, k, size, FALSE, Readback(pid, k), TRUE,
                           FALSE, FALSE)}
          [] OTHER ->
               { Outcome(InTransferred(size, XferSize(size, dir) - b),
                         InPackets(size, b), b, XferSize(size, dir) - b > 0,
                         Readback(pid, InPackets(size, b)), TRUE,
                         FALSE, FALSE) : b \in 0..limit }
      fail ==
        { Outcome(-e, k, moved(k), FALSE, Readback(pid, k), TRUE,
                  e = HCSTAT_DISCONNECTED, FALSE) : e \in errs, k \in partial }
        \cup
        { Outcome(-HCSTAT_TIMEOUT, k, moved(k), FALSE, Readback(pid, k), TRUE,
                  FALSE, chen) : k \in partial, chen \in BOOLEAN }
  IN CASE size > DmaSize ->
            {Outcome(-1, 0, 0, FALSE, {pid}, FALSE, FALSE, FALSE)}
       [] ~connected ->
            {Outcome(-HCSTAT_DISCONNECTED, 0, 0, FALSE, {pid}, FALSE,
                     FALSE, FALSE)}
       [] OTHER -> comp \cup fail

(* dwc2_transfer: the chunk of one non-split run and of one split run.   *)
NonSplitChunk(left) == IF DmaSize < left THEN DmaSize ELSE left
SplitChunk(left) == IF MaxPacket < left THEN MaxPacket ELSE left

NakRetry(ret, skip, budget) ==
  LET tried == ret = -HCSTAT_NAK /\ ~skip
  IN [retry |-> tried /\ budget - 1 # 0,
      budget |-> IF tried THEN budget - 1 ELSE budget]

(* dwc2_intr_get_timestamp and the due test of dwc2_poll_intr_queue, whose *)
(* uint32 difference is huge when the frame number has wrapped.           *)
Timestamp(speed, fr) == IF speed \in {"high", "full_hub"} THEN fr \div 8 ELSE fr
Due(ts, qts) == ~(ts >= qts /\ ts - qts < ReqTiming)

VARIABLES
  phase,      \* dwc2_init / dwc2_reinit progress, "dead" after die()
  fifo,       \* the FIFO layout dwc2_reinit programmed
  speed,      \* the device's place: decides split and timestamp units
  connected,  \* hprt.prtena && hprt.prtconnsts
  frnum,      \* hfnum.frnum
  toggle,     \* ep->toggle of every endpoint
  devTgl,     \* the data toggle each device endpoint expects next
  desync,     \* history: a data packet was sent with the wrong toggle
  overrun,    \* history: the device wrote past the caller's buffer
  intrq,      \* the intr_queue_t: state, timestamp, reqsize
  calls,      \* bulk, control and poll calls made
  pc,         \* "idle", "xfer" (loop top), "csplit", "halting"
  op,         \* the API call in progress and its control stage
  xf,         \* the locals of dwc2_transfer and dwc2_split_transfer
  sent,       \* bytes the device gave or took during the call
  result      \* what the last call returned

vars == <<phase, fifo, speed, connected, frnum, toggle, devTgl, desync,
          overrun, intrq, calls, pc, op, xf, sent, result>>
dev == <<devTgl, desync, overrun, connected, sent>>

NoOp == [call |-> "none", ep |-> "ctl", stage |-> "data", dir |-> "out",
         dalen |-> 0, dret |-> 0]
NoXfer == [ep |-> "ctl", dir |-> "out", left |-> 0, done |-> 0,
           pid |-> PID_DATA0, skip |-> FALSE, budget |-> NakBudget,
           chunk |-> 0, sdone |-> 0, rbs |-> {PID_DATA0}]

NeedSplit == speed = "full_hub"

(* The toggle the device checks: the status stage is always DATA1.        *)
Expected(e) == IF op.stage = "status" THEN PID_DATA1 ELSE devTgl[e]

(* The device side of k packets exchanged with pid.                       *)
DeviceTakes(e, pid, k) ==
  CASE k = 0 -> UNCHANGED <<devTgl, desync>>
    [] pid = PID_SETUP ->
         devTgl' = [devTgl EXCEPT ![e] = PID_DATA1] /\ UNCHANGED desync
    [] OTHER ->
         /\ devTgl' = [devTgl EXCEPT ![e] = ToggleAfter(Expected(e), k)]
         /\ desync' = (desync \/ pid # Expected(e))

(* A channel run's effect on the device, the buffer and the port.         *)
Apply(e, pid, o, size, bytes) ==
  /\ DeviceTakes(e, pid, o.k)
  /\ overrun' = (overrun \/ (xf.dir = "in" /\ o.bytes > size))
  /\ connected' = (connected /\ ~o.disc)
  /\ sent' = sent + bytes

(* Mutant: the toggle is not read back after the run.                    *)
SaveToggle_Dropped(e, save, r) == toggle

(* dwc2_do_xfer lines 306-308: ep->toggle = hctsiz.pid.                   *)
SaveToggle(e, save, r) == IF save THEN [toggle EXCEPT ![e] = r] ELSE toggle

(* dwc2_transfer entry: ep->toggle = pid, then the loop.                   *)
Start(e, size, pid, dir, skip, tg) ==
  /\ xf' = [NoXfer EXCEPT !.ep = e, !.dir = dir, !.left = size, !.pid = pid,
                          !.skip = skip]
  /\ toggle' = [tg EXCEPT ![e] = pid]
  /\ pc' = "xfer"

(* dwc2_transfer has returned ret (its locals are gone): dwc2_bulk,       *)
(* dwc2_intr and the poll return it; dwc2_control moves to its next stage *)
(* or returns -1.                                                          *)
Return(ret, tg) ==
  CASE op.call # "control" ->
         pc' = "idle" /\ result' = ret /\ toggle' = tg /\ xf' = NoXfer
         /\ UNCHANGED op
    [] ret < 0 \/ op.stage = "status" ->
         pc' = "idle" /\ result' = (IF ret < 0 THEN -1 ELSE op.dret)
         /\ toggle' = tg /\ xf' = NoXfer /\ UNCHANGED op
    [] op.stage = "setup" /\ op.dalen > 0 ->
         /\ op' = [op EXCEPT !.stage = "data"]
         /\ Start("ctl", op.dalen, PID_DATA1, op.dir, FALSE,
                  [tg EXCEPT !["ctl"] = PID_DATA1])
         /\ UNCHANGED result
    [] OTHER ->
         /\ op' = [op EXCEPT !.stage = "status",
                             !.dret = IF op.stage = "data" THEN ret ELSE 0]
         /\ Start("ctl", 0, PID_DATA1, IF op.dir = "in" THEN "out" ELSE "in",
                  FALSE, [tg EXCEPT !["ctl"] = PID_DATA1])
         /\ UNCHANGED result

(* The bottom of the dwc2_transfer loop after a run that moved ret bytes. *)
Continue(ret, short, tg) ==
  LET x == [xf EXCEPT !.left = xf.left - ret, !.done = xf.done + ret]
  IN IF x.left > 0 /\ ~short
     THEN pc' = "xfer" /\ xf' = x /\ toggle' = tg /\ UNCHANGED <<op, result>>
     ELSE Return(x.done, tg)

(* A split run failed with ret: retry on NAK while the budget lasts.      *)
NakOrReturn(ret, tg) ==
  LET n == NakRetry(ret, xf.skip, xf.budget)
      x == [xf EXCEPT !.budget = n.budget]
  IN IF n.retry
     THEN pc' = "xfer" /\ xf' = x /\ toggle' = tg /\ UNCHANGED <<op, result>>
     ELSE Return(ret, tg)

(* wait_for_complete timed out with chen still set: chdis is written and  *)
(* the driver spins until the core halts the channel.                     *)
Halt(o) ==
  pc' = "halting" /\ xf' = [xf EXCEPT !.rbs = o.rbs]
  /\ UNCHANGED <<toggle, op, result>>

Idle == phase = "ready" /\ pc = "idle"
env == <<phase, fifo, speed, frnum, intrq>>

Init ==
  /\ phase = "start" /\ fifo = NoFifo /\ speed \in Speeds
  /\ connected = TRUE /\ frnum \in 0..(FrameMod - 1)
  /\ toggle = [e \in Eps |-> PID_DATA0] /\ devTgl = [e \in Eps |-> PID_DATA0]
  /\ desync = FALSE /\ overrun = FALSE
  /\ intrq = [state |-> "none", ts |-> 0, reqsize |-> 0]
  /\ calls = 0 /\ pc = "idle" /\ op = NoOp /\ xf = NoXfer
  /\ sent = 0 /\ result = 0

(* dwc2_init: the bounce buffer allocation may fail (NULL returned).      *)
DwcInit ==
  /\ phase = "start"
  /\ \E ok \in BOOLEAN : phase' = IF ok THEN "reinit" ELSE "none"
  /\ UNCHANGED <<fifo, speed, frnum, intrq, dev, toggle, calls, pc, op, xf,
                 result>>

(* dwc2_reinit: three register waits that die on time-out, then the FIFOs. *)
Reinit ==
  /\ phase = "reinit"
  /\ \/ \E wait \in {"ahbidle", "csftrst", "curmod"} :
          phase' = "dead" /\ UNCHANGED fifo
     \/ \E d \in Depths : phase' = "ready" /\ fifo' = FifoConfig(d)
  /\ UNCHANGED <<speed, frnum, intrq, dev, toggle, calls, pc, op, xf, result>>

Bulk ==
  /\ Idle /\ calls < MaxCalls
  /\ \E e \in {"bin", "bout"}, s \in Sizes :
       /\ op' = [NoOp EXCEPT !.call = "bulk", !.ep = e, !.dir = EpDir[e],
                             !.dalen = s]
       /\ Start(e, s, toggle[e], EpDir[e], FALSE, toggle)
  /\ calls' = calls + 1 /\ sent' = 0
  /\ UNCHANGED <<env, devTgl, desync, overrun, connected, result>>

Control ==
  /\ Idle /\ calls < MaxCalls
  /\ \E d \in {"in", "out"}, l \in DaLens :
       op' = [NoOp EXCEPT !.call = "control", !.stage = "setup", !.dir = d,
                          !.dalen = l]
  /\ Start("ctl", SetupLen, PID_SETUP, "out", FALSE, toggle)
  /\ calls' = calls + 1 /\ sent' = 0
  /\ UNCHANGED <<env, devTgl, desync, overrun, connected, result>>

\* dwc2_intr: a transfer in the endpoint's direction from its saved toggle,
\* with NAKs not retried.
DwcIntr(e, size) == Start(e, size, toggle[e], EpDir[e], TRUE, toggle)

(* dwc2_poll_intr_queue: run dwc2_intr (NAKs not retried) once the       *)
(* queue is due, else return NULL.                                         *)
PollIntrQueue ==
  /\ Idle /\ calls < MaxCalls /\ intrq.state = "live"
  /\ calls' = calls + 1 /\ sent' = 0
  /\ LET ts == Timestamp(speed, frnum)
     IN IF Due(ts, intrq.ts)
        THEN /\ intrq' = [intrq EXCEPT !.ts = ts]
             /\ op' = [NoOp EXCEPT !.call = "poll", !.ep = "intr",
                                   !.dir = "in", !.dalen = intrq.reqsize]
             /\ DwcIntr("intr", intrq.reqsize)
             /\ UNCHANGED result
        ELSE result' = 0 /\ UNCHANGED <<intrq, op, xf, toggle, pc>>
  /\ UNCHANGED <<phase, fifo, speed, frnum, devTgl, desync, overrun, connected>>

(* dwc2_create_intr_queue (xzalloc: timestamp 0) and its destroy.         *)
CreateIntrQueue ==
  /\ Idle /\ intrq.state # "live"
  /\ \E s \in Sizes : intrq' = [state |-> "live", ts |-> 0, reqsize |-> s]
  /\ UNCHANGED <<phase, fifo, speed, frnum, dev, toggle, calls, pc, op, xf,
                 result>>

DestroyIntrQueue ==
  /\ Idle /\ intrq.state = "live"
  /\ intrq' = [intrq EXCEPT !.state = "freed"]
  /\ UNCHANGED <<phase, fifo, speed, frnum, dev, toggle, calls, pc, op, xf,
                 result>>

Shutdown ==
  /\ Idle /\ phase' = "down"
  /\ UNCHANGED <<fifo, speed, frnum, intrq, dev, toggle, calls, pc, op, xf,
                 result>>

(* One non-split run of the dwc2_transfer loop: MIN(DMA_SIZE, size) bytes *)
(* with the pid dwc2_transfer was called with.                             *)
PlainXfer ==
  /\ pc = "xfer" /\ ~NeedSplit
  /\ LET c == NonSplitChunk(xf.left)
     IN \E o \in DoXfer(c, xf.pid, xf.dir, "plain", connected) :
          /\ Apply(xf.ep, xf.pid, o, c, o.bytes)
          /\ IF o.halting THEN Halt(o)
             ELSE \E r \in o.rbs :
                    LET tg == SaveToggle(xf.ep, o.save, r)
                    IN IF o.ret < 0 THEN Return(o.ret, tg)
                       ELSE Continue(o.ret, o.short, tg)
  /\ UNCHANGED <<env, calls>>

(* dwc2_split_transfer: the frame-boundary wait sees the port gone.       *)
SplitDisconnected ==
  /\ pc = "xfer" /\ NeedSplit /\ ~connected
  /\ NakOrReturn(-HCSTAT_DISCONNECTED, toggle)
  /\ UNCHANGED <<env, dev, calls>>

(* dwc2_split_transfer at a frame boundary: the start-split with          *)
(* ep->toggle, then ep->toggle = pid.                                      *)
SplitStart ==
  /\ pc = "xfer" /\ NeedSplit /\ connected /\ frnum % 8 = 0
  /\ LET c == SplitChunk(xf.left)
         pid == toggle[xf.ep]
     IN \E o \in DoXfer(IF xf.dir = "in" THEN 0 ELSE c, pid, xf.dir,
                        "ssplit", connected) :
          /\ Apply(xf.ep, pid, o, c, 0)
          /\ IF o.halting THEN Halt(o)
             ELSE \E r \in o.rbs :
                    LET tg == SaveToggle(xf.ep, o.save, r)
                    IN IF o.ret < 0 THEN NakOrReturn(o.ret, tg)
                       ELSE /\ pc' = "csplit"
                            /\ xf' = [xf EXCEPT !.chunk = c,
                                         !.sdone = IF xf.dir = "out"
                                                   THEN o.ret ELSE 0]
                            /\ toggle' = [tg EXCEPT ![xf.ep] = pid]
                            /\ UNCHANGED <<op, result>>
  /\ UNCHANGED <<env, calls>>

(* One complete-split with ep->toggle: NYET repeats it (final = FALSE),   *)
(* anything else ends dwc2_split_transfer.                                 *)
CSplit(final) ==
  /\ pc = "csplit"
  /\ LET pid == toggle[xf.ep]
     IN \E o \in DoXfer(IF xf.dir = "out" THEN 0 ELSE xf.chunk, pid, xf.dir,
                        "csplit", connected) :
          /\ (o.ret = -HCSTAT_NYET) = ~final
          /\ Apply(xf.ep, pid, o, xf.chunk,
                   IF xf.dir = "in" THEN o.bytes
                   ELSE IF o.ret >= 0 THEN xf.sdone ELSE 0)
          /\ IF o.halting THEN Halt(o)
             ELSE \E r \in o.rbs :
                    LET tg == SaveToggle(xf.ep, o.save, r)
                    IN CASE o.ret = -HCSTAT_NYET ->
                              toggle' = tg /\ UNCHANGED <<pc, op, xf, result>>
                         [] o.ret < 0 -> NakOrReturn(o.ret, tg)
                         [] OTHER ->
                              Continue(xf.sdone + (IF xf.dir = "in"
                                                   THEN o.ret ELSE 0),
                                       o.short, tg)
  /\ UNCHANGED <<env, calls>>

(* The core halts the disabled channel; hctsiz.pid is read back.          *)
ChannelHalted ==
  /\ pc = "halting"
  /\ \E r \in xf.rbs :
       LET tg == SaveToggle(xf.ep, TRUE, r)
       IN IF NeedSplit THEN NakOrReturn(-HCSTAT_TIMEOUT, tg)
          ELSE Return(-HCSTAT_TIMEOUT, tg)
  /\ UNCHANGED <<env, dev, calls>>

(* The environment: the frame counter runs, the device may be unplugged.  *)
(* hfnum is read only at the loop top and between calls, so the frames    *)
(* that pass during a channel run are counted when the run is over.       *)
Tick ==
  /\ pc \in {"idle", "xfer"}
  /\ frnum' = (frnum + 1) % FrameMod
  /\ UNCHANGED <<phase, fifo, speed, intrq, dev, toggle, calls, pc, op, xf,
                 result>>

Disconnect ==
  /\ connected /\ connected' = FALSE
  /\ UNCHANGED <<env, devTgl, desync, overrun, sent, toggle, calls, pc, op,
                 xf, result>>

Next ==
  \/ DwcInit \/ Reinit \/ Shutdown
  \/ Bulk \/ Control \/ PollIntrQueue \/ CreateIntrQueue \/ DestroyIntrQueue
  \/ PlainXfer \/ SplitDisconnected \/ SplitStart \/ CSplit(TRUE)
  \/ CSplit(FALSE) \/ ChannelHalted
  \/ Tick \/ Disconnect

(* The driver's own steps are taken (one CPU thread, never preempted); the *)
(* frame counter runs; a disabled channel halts; a hub's TT answers NYET  *)
(* only until the full-speed transaction is over.  The frame-boundary     *)
(* wait reads hfnum far faster than a microframe, so it sees every        *)
(* boundary: strong fairness.  The device may NAK or fail forever.        *)
Spec ==
  /\ Init /\ [][Next]_vars
  /\ WF_vars(PlainXfer) /\ WF_vars(SplitDisconnected) /\ SF_vars(SplitStart)
  /\ WF_vars(CSplit(TRUE)) /\ WF_vars(ChannelHalted) /\ WF_vars(Tick)

(***************************************************************************)
(* Properties                                                              *)
(***************************************************************************)
TypeOK ==
  /\ phase \in {"start", "reinit", "ready", "dead", "none", "down"}
  /\ speed \in Speeds /\ connected \in BOOLEAN /\ frnum \in 0..(FrameMod - 1)
  /\ toggle \in [Eps -> {PID_DATA0, PID_DATA1, PID_SETUP}]
  /\ devTgl \in [Eps -> {PID_DATA0, PID_DATA1}]
  /\ pc \in {"idle", "xfer", "csplit", "halting"} /\ calls \in 0..MaxCalls
  /\ xf.left \in 0..MaxSize /\ xf.done \in 0..MaxSize
  /\ xf.budget \in 0..NakBudget /\ sent \in 0..MaxSize
  /\ result \in {-1, -HCSTAT_NAK, -HCSTAT_XFERERR, -HCSTAT_BABBLE,
                -HCSTAT_STALL, -HCSTAT_TIMEOUT, -HCSTAT_DISCONNECTED}
                \cup 0..MaxSize

(* Every data packet the driver sends or accepts carries the toggle the   *)
(* device expects: ep->toggle is read back from hctsiz.pid after every    *)
(* channel run, reset by dwc2_control, and re-set after a start-split,    *)
(* across chunks, NAK retries, errors, time-outs and calls.               *)
ToggleInSync == ~desync

(* A bulk call or an interrupt poll that returns a length returns the     *)
(* number of bytes the device actually gave or took during the call        *)
(* (inpkt_length - xfersize per run, summed over chunks and splits).      *)
ResultIsDelivered ==
  (pc = "idle" /\ op.call \in {"bulk", "poll"} /\ result >= 0)
    => result = sent

FifoFits == fifo # NoFifo => fifo.ptxStart + fifo.ptx <= fifo.depth

(* No IN run writes more bytes than the caller's buffer holds: the device *)
(* is never allowed more than the size dwc2_transfer was given.           *)
NoBufferOverrun == ~overrun

=============================================================================
