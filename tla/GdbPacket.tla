------------------------------- MODULE GdbPacket -------------------------------
(***************************************************************************)
(* The GDB packet layer of src/debug/gdb/transport.c: gdb_get_command and  *)
(* gdb_send_reply over gdb_raw_getchar/putchar, against a GDB host on a   *)
(* serial line that may lose or corrupt characters.                        *)
(*                                                                         *)
(* A packet is `$' payload `#' and two hex digits of the payload's sum    *)
(* mod 256; the receiver answers `+' or `-'.  gdb_get_command parses      *)
(* packets byte by byte and restarts on a 100 ms silence; gdb_send_reply  *)
(* sends the reply and sends it again on any character but `+' or on a    *)
(* silence, ten times at most.                                             *)
(*                                                                         *)
(* The host is not in this tree: it follows the GDB manual's packet        *)
(* acknowledgment rules and GDB's remote.c.  It sends a command, sends it *)
(* again on `-' or when it hears nothing for its (2 s) timeout, skips and *)
(* acks a packet that arrives while it waits for an ack, then reads the   *)
(* reply and acks it.  The stub's command handler (gdb.c) is not in this  *)
(* tree either: it answers Commands[k] with Replies[k] and anything else  *)
(* with the empty packet.  Characters are ASCII codes.                     *)
(*                                                                         *)
(* A behaviour is one codec call of GdbCodec or one packet session: the    *)
(* two share nothing but the module's call record.                         *)
(***************************************************************************)
EXTENDS GdbCodec

CONSTANTS
  Commands,   \* the host's command payloads, in the order it sends them
  Replies,    \* Replies[k]: the stub's reply payload to Commands[k]
  CmdSize,    \* command.size
  MaxFaults,  \* characters the line loses or corrupts in a behaviour
  Noise       \* what a corrupted character may arrive as

ASSUME /\ Len(Commands) = Len(Replies)
       /\ \A i, j \in DOMAIN Commands : i # j => Commands[i] # Commands[j]
       /\ \A i, j \in DOMAIN Replies : i # j => Replies[i] # Replies[j]

DOLLAR == 36
HASH   == 35
ACK    == 43
NAK    == 45

\* timeout_us is 100 ms; retries = 1 s / timeout_us.
TimeoutUs == 100 * 1000
RetriesInit == (1 * 1000 * 1000) \div TimeoutUs

VARIABLES
  toTarget,  \* characters on their way to the stub's UART
  toHost,    \* characters on their way to the host
  faults,    \* characters lost or corrupted so far
  tpc,       \* the stub: "get" (gdb_get_command), "send", "ack" (gdb_send_reply)
  trx,       \* gdb_get_command's locals and the command: [state, buf, running, ck]
  retries,   \* gdb_send_reply's retries
  served,    \* history: the commands gdb_get_command returned
  hpc,       \* the host: "send", "ack", "skip", "skip1", "skip2", "reply", "done"
  hk,        \* the host's current command
  hrx,       \* the host's reply parser
  accepted   \* history: the replies the host accepted

pvars == <<toTarget, toHost, faults, tpc, trx, retries, served, hpc, hk, hrx, accepted>>

-----------------------------------------------------------------------------
(* Packets.                                                                *)

PacketSum(p) == FoldLeft(LAMBDA s, c : (s + c) % 256, 0, p)

\* What gdb_send_reply puts on the line for one attempt.
Frame(p) == <<DOLLAR>> \o p \o <<HASH>> \o HexOf(PacketSum(p))

\* The stub's command handler: not in this tree.
Handler(p) ==
  IF \E k \in DOMAIN Commands : Commands[k] = p
  THEN Replies[CHOOSE k \in DOMAIN Commands : Commands[k] = p]
  ELSE <<>>

\* gdb_get_command's locals at entry; command->used is left as it was.
NewParse(r) == [r EXCEPT !.state = "WAITING", !.running = 0, !.ck = 0]

\* Mutant: `$' does not reset command->used.
Parse_NoReset(r, c) ==
  CASE r.state = "WAITING" ->
         IF c = DOLLAR THEN [r EXCEPT !.state = "COMMAND", !.running = 0] ELSE r
    [] r.state = "COMMAND" /\ c = HASH -> [r EXCEPT !.state = "CHECKSUM0"]
    [] r.state = "COMMAND" -> [r EXCEPT !.buf = Append(@, c), !.running = (@ + c) % 256]
    [] r.state = "CHECKSUM0" -> [r EXCEPT !.ck = (FromHex(c) * 16) % 256, !.state = "CHECKSUM1"]

\* One character through the switch of gdb_get_command, but the last
\* checksum digit.  checksum and running_checksum are uint8_t.
Parse(r, c) ==
  CASE r.state = "WAITING" ->
         IF c = DOLLAR THEN [r EXCEPT !.state = "COMMAND", !.running = 0, !.buf = <<>>]
         ELSE r
    [] r.state = "COMMAND" /\ c = HASH -> [r EXCEPT !.state = "CHECKSUM0"]
    [] r.state = "COMMAND" -> [r EXCEPT !.buf = Append(@, c), !.running = (@ + c) % 256]
    [] r.state = "CHECKSUM0" -> [r EXCEPT !.ck = (FromHex(c) * 16) % 256, !.state = "CHECKSUM1"]

\* The last digit completes the checksum: does it match?
Verified(r, c) == r.running = (r.ck + FromHex(c)) % 256

\* The stub's line is silent for 100 ms and the host has nothing to send.
Quiet == toTarget = <<>> /\ toHost = <<>> /\ tpc = "get" /\ trx.state = "WAITING"

\* gdb_raw_putchar, character by character: the UART delivers them to the
\* host in order.
RawPutchar(cs) == toHost' = toHost \o cs

-----------------------------------------------------------------------------
(* gdb_get_command.                                                        *)

\* A character other than the last checksum digit.  A command that reaches
\* command->size stops the stub in die_if: no step follows.
TargetRecv ==
  /\ tpc = "get"
  /\ toTarget # <<>>
  /\ trx.state # "CHECKSUM1"
  /\ trx.state = "COMMAND" /\ Head(toTarget) # HASH => Len(trx.buf) < CmdSize
  /\ trx' = Parse(trx, Head(toTarget))
  /\ toTarget' = Tail(toTarget)
  /\ UNCHANGED <<vars, toHost, faults, tpc, retries, served, hpc, hk, hrx, accepted>>

\* The checksum matches: ack and return the command to the handler.
CommandAccepted ==
  /\ tpc = "get"
  /\ toTarget # <<>>
  /\ trx.state = "CHECKSUM1"
  /\ Verified(trx, Head(toTarget))
  /\ toTarget' = Tail(toTarget)
  /\ RawPutchar(<<ACK>>)
  /\ served' = Append(served, trx.buf)
  /\ tpc' = "send"
  /\ UNCHANGED <<vars, faults, trx, retries, hpc, hk, hrx, accepted>>

\* It does not: nak and wait for the next `$'.
CommandRejected ==
  /\ tpc = "get"
  /\ toTarget # <<>>
  /\ trx.state = "CHECKSUM1"
  /\ ~Verified(trx, Head(toTarget))
  /\ toTarget' = Tail(toTarget)
  /\ RawPutchar(<<NAK>>)
  /\ trx' = [trx EXCEPT !.state = "WAITING"]
  /\ UNCHANGED <<vars, faults, tpc, retries, served, hpc, hk, hrx, accepted>>

\* gdb_raw_getchar returns -1 after 100 ms of silence: back to WAITING.
GetTimeout ==
  /\ tpc = "get"
  /\ toTarget = <<>>
  /\ trx.state # "WAITING"
  /\ trx' = [trx EXCEPT !.state = "WAITING"]
  /\ UNCHANGED <<vars, toTarget, toHost, faults, tpc, retries, served, hpc, hk, hrx, accepted>>

-----------------------------------------------------------------------------
(* gdb_send_reply.                                                         *)

\* The first attempt, with the handler's reply to the command.
SendReply ==
  /\ tpc = "send"
  /\ RawPutchar(Frame(Handler(trx.buf)))
  /\ retries' = RetriesInit
  /\ tpc' = "ack"
  /\ UNCHANGED <<vars, toTarget, faults, trx, served, hpc, hk, hrx, accepted>>

\* Mutant: the loop resends only on `-'.
NotAcked_NakOnly ==
  /\ toTarget # <<>>
  /\ Head(toTarget) = NAK
  /\ toTarget' = Tail(toTarget)

\* gdb_raw_getchar() != '+': a character that is not `+' is consumed, or
\* 100 ms pass with none.  The host reads what reaches it within that
\* time, unless it has no more commands to send.
NotAcked ==
  \/ /\ toTarget # <<>>
     /\ Head(toTarget) # ACK
     /\ toTarget' = Tail(toTarget)
  \/ /\ toTarget = <<>>
     /\ toHost = <<>> \/ hpc = "done"
     /\ UNCHANGED toTarget

ReplyAcked ==
  /\ tpc = "ack"
  /\ toTarget # <<>>
  /\ Head(toTarget) = ACK
  /\ toTarget' = Tail(toTarget)
  /\ tpc' = "get"
  /\ trx' = NewParse(trx)
  /\ UNCHANGED <<vars, toHost, faults, retries, served, hpc, hk, hrx, accepted>>

\* Mutant: the loop goes on while retries-- >= 0.
ReplyResent_PastZero ==
  /\ tpc = "ack"
  /\ NotAcked
  /\ retries >= 0
  /\ retries' = retries - 1
  /\ RawPutchar(Frame(Handler(trx.buf)))
  /\ UNCHANGED <<vars, faults, tpc, trx, served, hpc, hk, hrx, accepted>>

\* retries-- is still nonzero: send the reply again.
ReplyResent ==
  /\ tpc = "ack"
  /\ NotAcked
  /\ retries > 0
  /\ retries' = retries - 1
  /\ RawPutchar(Frame(Handler(trx.buf)))
  /\ UNCHANGED <<vars, faults, tpc, trx, served, hpc, hk, hrx, accepted>>

\* The retries are spent: return without knowing the reply arrived.
ReplyAbandoned ==
  /\ tpc = "ack"
  /\ NotAcked
  /\ retries = 0
  /\ tpc' = "get"
  /\ trx' = NewParse(trx)
  /\ UNCHANGED <<vars, toHost, faults, retries, served, hpc, hk, hrx, accepted>>

-----------------------------------------------------------------------------
(* The host.                                                               *)

HostSend ==
  /\ hpc = "send"
  /\ call.op = "none"
  /\ toTarget' = toTarget \o Frame(Commands[hk])
  /\ hpc' = "ack"
  /\ UNCHANGED <<vars, toHost, faults, tpc, trx, retries, served, hk, hrx, accepted>>

\* Waiting for the ack: `+' moves on to the reply, `-' sends the command
\* again, `$' opens a stale reply to skip, anything else is ignored.
HostAckChar ==
  /\ hpc = "ack"
  /\ toHost # <<>>
  /\ toHost' = Tail(toHost)
  /\ \/ Head(toHost) = ACK /\ hpc' = "reply" /\ hrx' = NewParse(hrx)
                           /\ UNCHANGED toTarget
     \/ Head(toHost) = NAK /\ toTarget' = toTarget \o Frame(Commands[hk])
                           /\ UNCHANGED <<hpc, hrx>>
     \/ Head(toHost) = DOLLAR /\ hpc' = "skip" /\ UNCHANGED <<toTarget, hrx>>
     \/ Head(toHost) \notin {ACK, NAK, DOLLAR} /\ UNCHANGED <<toTarget, hpc, hrx>>
  /\ UNCHANGED <<vars, faults, tpc, trx, retries, served, hk, accepted>>

\* Skipping a stale packet up to `#' and its two digits, then acking it.
HostSkip ==
  /\ hpc \in {"skip", "skip1", "skip2"}
  /\ toHost # <<>>
  /\ toHost' = Tail(toHost)
  /\ \/ hpc = "skip" /\ hpc' = (IF Head(toHost) = HASH THEN "skip1" ELSE "skip")
                     /\ UNCHANGED toTarget
     \/ hpc = "skip1" /\ hpc' = "skip2" /\ UNCHANGED toTarget
     \/ hpc = "skip2" /\ hpc' = "ack" /\ toTarget' = Append(toTarget, ACK)
  /\ UNCHANGED <<vars, faults, tpc, trx, retries, served, hk, hrx, accepted>>

\* Reading the reply with the same framing; a good one is acked and taken.
HostReply ==
  /\ hpc = "reply"
  /\ toHost # <<>>
  /\ toHost' = Tail(toHost)
  /\ \/ /\ hrx.state # "CHECKSUM1"
        /\ hrx' = Parse(hrx, Head(toHost))
        /\ UNCHANGED <<toTarget, hpc, hk, accepted>>
     \/ /\ hrx.state = "CHECKSUM1"
        /\ Verified(hrx, Head(toHost))
        /\ toTarget' = Append(toTarget, ACK)
        /\ accepted' = Append(accepted, hrx.buf)
        /\ hk' = hk + 1
        /\ hpc' = (IF hk = Len(Commands) THEN "done" ELSE "send")
        /\ UNCHANGED hrx
     \/ /\ hrx.state = "CHECKSUM1"
        /\ ~Verified(hrx, Head(toHost))
        /\ toTarget' = Append(toTarget, NAK)
        /\ hrx' = [hrx EXCEPT !.state = "WAITING"]
        /\ UNCHANGED <<hpc, hk, accepted>>
  /\ UNCHANGED <<vars, faults, tpc, trx, retries, served>>

\* Nothing came for the host's timeout while it waits for an ack: send the
\* command again.  The stub's 100 ms timeouts have run out by then.
HostTimeout ==
  /\ hpc \in {"ack", "skip", "skip1", "skip2"}
  /\ Quiet
  /\ toTarget' = Frame(Commands[hk])
  /\ hpc' = "ack"
  /\ UNCHANGED <<vars, toHost, faults, tpc, trx, retries, served, hk, hrx, accepted>>

-----------------------------------------------------------------------------
(* The line: a character is lost or arrives as another.                    *)

LoseChar ==
  /\ faults < MaxFaults
  /\ faults' = faults + 1
  /\ \/ \E i \in 1..Len(toTarget) : toTarget' = RemoveAt(toTarget, i) /\ UNCHANGED toHost
     \/ \E i \in 1..Len(toHost) : toHost' = RemoveAt(toHost, i) /\ UNCHANGED toTarget
  /\ UNCHANGED <<vars, tpc, trx, retries, served, hpc, hk, hrx, accepted>>

CorruptChar ==
  /\ faults < MaxFaults
  /\ faults' = faults + 1
  /\ \E n \in Noise :
       \/ \E i \in 1..Len(toTarget) : /\ toTarget[i] # n
                                      /\ toTarget' = ReplaceAt(toTarget, i, n)
                                      /\ UNCHANGED toHost
       \/ \E i \in 1..Len(toHost) : /\ toHost[i] # n
                                    /\ toHost' = ReplaceAt(toHost, i, n)
                                    /\ UNCHANGED toTarget
  /\ UNCHANGED <<vars, tpc, trx, retries, served, hpc, hk, hrx, accepted>>

-----------------------------------------------------------------------------

NoParseState == [state |-> "WAITING", buf |-> <<>>, running |-> 0, ck |-> 0]

PacketInit ==
  /\ toTarget = <<>>
  /\ toHost = <<>>
  /\ faults = 0
  /\ tpc = "get"
  /\ trx = NoParseState
  /\ retries = 0
  /\ served = <<>>
  /\ hpc = "send"
  /\ hk = 1
  /\ hrx = NoParseState
  /\ accepted = <<>>

\* A behaviour is a codec call, made before the host sent anything, or a
\* packet session, started by the host only when no codec call was made.
StubInit == Init /\ PacketInit

CodecCall == hpc = "send" /\ hk = 1 /\ Next /\ UNCHANGED pvars

StubNext ==
  \/ CodecCall
  \/ TargetRecv \/ CommandAccepted \/ CommandRejected \/ GetTimeout
  \/ SendReply \/ ReplyAcked \/ ReplyResent \/ ReplyAbandoned
  \/ HostSend \/ HostAckChar \/ HostSkip \/ HostReply \/ HostTimeout
  \/ LoseChar \/ CorruptChar

\* The stub runs one loop and polls the UART, and GDB reads and times out
\* on its own: every step of either is taken once enabled.  The line's
\* faults need no fairness.
StubSpec ==
  /\ StubInit /\ [][StubNext]_<<vars, pvars>>
  /\ WF_<<vars, pvars>>(TargetRecv \/ CommandAccepted \/ CommandRejected \/ GetTimeout)
  /\ WF_<<vars, pvars>>(SendReply \/ ReplyAcked \/ ReplyResent \/ ReplyAbandoned)
  /\ WF_<<vars, pvars>>(HostSend \/ HostAckChar \/ HostSkip \/ HostReply)
  /\ WF_<<vars, pvars>>(HostTimeout)

-----------------------------------------------------------------------------
(* Properties.                                                             *)

\* Type invariant of the packet layer and its host.
PacketTypeOK ==
  /\ tpc \in {"get", "send", "ack"}
  /\ hpc \in {"send", "ack", "skip", "skip1", "skip2", "reply", "done"}
  /\ trx.state \in {"WAITING", "COMMAND", "CHECKSUM0", "CHECKSUM1"}
  /\ Len(trx.buf) <= CmdSize
  /\ {trx.running, trx.ck, hrx.running, hrx.ck} \subseteq 0..255
  /\ retries \in 0..RetriesInit
  /\ faults \in 0..MaxFaults
  /\ hk \in 1..(Len(Commands) + 1)

\* The number of a command or reply payload, 0 for one the host never sent.
Numbered(s, p) == IF \E k \in DOMAIN s : s[k] = p THEN CHOOSE k \in DOMAIN s : s[k] = p ELSE 0

Link == INSTANCE GdbLink WITH
  N <- Len(Commands),
  execs <- [i \in 1..Len(served) |-> Numbered(Commands, served[i])],
  answers <- [i \in 1..Len(accepted) |-> Numbered(Replies, accepted[i])]

(* The packet layer implements GdbLink: over a line that loses or corrupts *)
(* a character, with both sides' timeouts and retransmissions, and with   *)
(* gdb_send_reply eating characters of the host's next packet while it    *)
(* waits for its ack, the stub executes only commands the host sent, in   *)
(* order and possibly twice, and the host accepts as the reply to its     *)
(* command only the reply to that command after the stub executed it.    *)
RefinesLink == Link!Spec

(* Every session ends with the host holding the reply to its last         *)
(* command: no lost ack, eaten `$' or timeout leaves the two ends waiting *)
(* on each other for good.                                                 *)
Completes == hpc = "ack" ~> hpc = "done"

=============================================================================
