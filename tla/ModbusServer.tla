---------------------------- MODULE ModbusServer ----------------------------
(***************************************************************************)
(* honeypots/modbus_server.py and common/modbus.py: one handler thread for *)
(* each connection reassembles frames from the pieces TCP delivers and     *)
(* answers them from a register bank that all connections share.           *)
(*                                                                         *)
(* A stream is a sequence of cells.  A 16-bit field is one cell, so that   *)
(* the MBAP header (transaction, protocol, length, unit) takes four cells  *)
(* instead of seven bytes, an address, a quantity and a register one each; *)
(* lengths count cells.                                                    *)
(***************************************************************************)
EXTENDS Naturals, Sequences, SequencesExt

CONSTANTS
    Conn,           \* connections
    BankSize,       \* RegisterBank.size
    CritStart,      \* the critical range
    CritEnd,
    MaxQuantity,    \* 125
    MaxMbapLength,  \* MAX_MBAP_LENGTH
    MaxBuffer,      \* MAX_BUFFER
    Chunk           \* the sizes of the pieces recv returns on a connection

MBAP_HEADER_LEN == 4
MIN_MBAP_LENGTH == 2
MODBUS_PROTOCOL_ID == 0
FC_READ_HOLDING_REGISTERS == 3
FC_WRITE_SINGLE_REGISTER == 6
EXC_ILLEGAL_FUNCTION == 1
EXC_ILLEGAL_DATA_ADDRESS == 2
EXC_ILLEGAL_DATA_VALUE == 3

ASSUME SizesAssumption ==
    /\ BankSize \in Nat \ {0} /\ CritStart \in Nat /\ CritEnd \in Nat
    /\ MaxQuantity \in Nat
    /\ MaxMbapLength \in Nat /\ MaxMbapLength >= MIN_MBAP_LENGTH
    /\ MaxBuffer \in Nat /\ Chunk \in [Conn -> SUBSET (Nat \ {0})]
    /\ MaxBuffer >= MBAP_HEADER_LEN - 1 + MaxMbapLength

VARIABLES
    bank,      \* RegisterBank._registers
    stopping,  \* ModbusDeceptionServer.stopping
    pc,        \* where each connection's handler is
    sent,      \* everything the client has written on a connection
    wire,      \* the part of it that recv has not returned yet
    eof,       \* the client has closed its side
    buffer,    \* the handler's buffer
    handled,   \* the frames the handler has dispatched
    response,  \* the answer it is about to send
    replies,   \* the answers it has sent
    alerts,    \* sabotage_detected events: connection and number of the frame
    bankHist   \* every content the bank has had (history)

handlerVars == <<bank, bankHist, buffer, handled, response, replies, alerts>>
streamVars == <<sent, wire, eof>>
serverVars == <<stopping, pc, handlerVars, streamVars>>

----------------------------------------------------------------------------
(* common/modbus.py *)

\* parse_mbap of data that holds a header
Header(s) == [tid |-> s[1], protocol |-> s[2], length |-> s[3], unit |-> s[4]]

TotalFrameLen(h) == MBAP_HEADER_LEN - 1 + h.length

\* Mutant: the upper bound is the one of a PDU, without the unit identifier.
PduSizedHeader(h) == /\ h.protocol = MODBUS_PROTOCOL_ID
                     /\ MIN_MBAP_LENGTH <= h.length /\ h.length < MaxMbapLength

ValidHeader(h) ==
    /\ h.protocol = MODBUS_PROTOCOL_ID
    /\ MIN_MBAP_LENGTH <= h.length /\ h.length <= MaxMbapLength

BuildResponse(tid, unit, pdu) == <<tid, MODBUS_PROTOCOL_ID, Len(pdu) + 1, unit>> \o pdu

BuildException(h, fc, code) ==
    BuildResponse(h.tid, h.unit, <<IF fc < 128 THEN fc + 128 ELSE fc, code>>)

\* The reference for reassembly: the frames of a whole stream from each position on,
\* up to the first one that is malformed or incomplete.
FrameAt(s, i) ==
    /\ i + 3 <= Len(s) /\ s[i + 1] = 0
    /\ s[i + 2] \in 2..MaxMbapLength /\ i + 2 + s[i + 2] <= Len(s)

FrameEnd(s, i) == i + 2 + s[i + 2]

FramesFrom(s) ==
    LET from[i \in 1..(Len(s) + 1)] ==
            IF FrameAt(s, i)
            THEN <<SubSeq(s, i, FrameEnd(s, i))>> \o from[FrameEnd(s, i) + 1]
            ELSE <<>>
    IN  from

Frames(s) == FramesFrom(s)[1]

----------------------------------------------------------------------------
(* dispatch *)

Pdu(frame) == SubSeq(frame, MBAP_HEADER_LEN + 1, Len(frame))
IsCritical(address) == CritStart <= address /\ address <= CritEnd

\* RegisterBank.read, under the bank's lock
BankRead(b, address, quantity) == [i \in 1..quantity |-> b[address + i - 1]]

ReadRegisters(h, pdu) ==
    CASE Len(pdu) # 3 \/ pdu[3] = 0 \/ pdu[3] > MaxQuantity ->
            BuildException(h, FC_READ_HOLDING_REGISTERS, EXC_ILLEGAL_DATA_VALUE)
      [] Len(pdu) = 3 /\ pdu[3] \in 1..MaxQuantity /\ pdu[2] + pdu[3] > BankSize ->
            BuildException(h, FC_READ_HOLDING_REGISTERS, EXC_ILLEGAL_DATA_ADDRESS)
      [] OTHER ->
            BuildResponse(h.tid, h.unit, <<FC_READ_HOLDING_REGISTERS, pdu[3]>>
                                         \o BankRead(bank, pdu[2], pdu[3]))

\* A write that is carried out.
Writes(pdu) == pdu[1] = FC_WRITE_SINGLE_REGISTER /\ Len(pdu) = 3 /\ pdu[2] < BankSize

WriteRegister(h, pdu) ==
    CASE Len(pdu) # 3 -> BuildException(h, FC_WRITE_SINGLE_REGISTER, EXC_ILLEGAL_DATA_VALUE)
      [] Len(pdu) = 3 /\ pdu[2] >= BankSize ->
            BuildException(h, FC_WRITE_SINGLE_REGISTER, EXC_ILLEGAL_DATA_ADDRESS)
      [] OTHER -> BuildResponse(h.tid, h.unit, pdu)

\* Mutant: the critical range is compared with the value.
AfterDispatchByValue(pdu) == IF Writes(pdu) /\ IsCritical(pdu[3]) THEN "alert" ELSE "send"

\* A write to a critical register is followed by a sabotage_detected event.
AfterDispatch(pdu) == IF Writes(pdu) /\ IsCritical(pdu[2]) THEN "alert" ELSE "send"

Dispatch(h, pdu) ==
    CASE pdu[1] = FC_READ_HOLDING_REGISTERS -> ReadRegisters(h, pdu)
      [] pdu[1] = FC_WRITE_SINGLE_REGISTER -> WriteRegister(h, pdu)
      [] OTHER -> BuildException(h, pdu[1], EXC_ILLEGAL_FUNCTION)

----------------------------------------------------------------------------
ServerInit ==
    /\ bank = [i \in 0..(BankSize - 1) |-> 0]
    /\ bankHist = <<bank>>
    /\ stopping = FALSE
    /\ pc = [c \in Conn |-> "none"]
    /\ sent = [c \in Conn |-> <<>>]
    /\ wire = [c \in Conn |-> <<>>]
    /\ eof = [c \in Conn |-> FALSE]
    /\ buffer = [c \in Conn |-> <<>>]
    /\ handled = [c \in Conn |-> <<>>]
    /\ response = [c \in Conn |-> <<>>]
    /\ replies = [c \in Conn |-> <<>>]
    /\ alerts = {}

\* The first n cells of s, or all of it.
Take(s, n) == SubSeq(s, 1, IF n <= Len(s) THEN n ELSE Len(s))

Goto(c, l) == pc' = [pc EXCEPT ![c] = l]

\* The handler returns: its buffer and what is unread on the socket are gone.
Close(c) ==
    /\ Goto(c, "closed")
    /\ buffer' = [buffer EXCEPT ![c] = <<>>]
    /\ response' = [response EXCEPT ![c] = <<>>]
    /\ wire' = [wire EXCEPT ![c] = <<>>]
    /\ eof' = [eof EXCEPT ![c] = TRUE]
    /\ UNCHANGED <<stopping, bank, bankHist, handled, replies, alerts, sent>>

\* The loop's condition: another recv, or the end.
Loop(c) ==
    \/ stopping /\ Close(c)
    \/ ~stopping /\ Goto(c, "recv") /\ UNCHANGED <<stopping, handlerVars, streamVars>>

\* A client connects; socketserver starts the handler's thread.
Connect(c) ==
    /\ pc[c] = "none" /\ ~stopping
    /\ Goto(c, "recv")
    /\ UNCHANGED <<stopping, handlerVars, streamVars>>

Send(c, frame) ==
    /\ pc[c] # "none" /\ ~eof[c]
    /\ sent' = [sent EXCEPT ![c] = @ \o frame]
    /\ wire' = [wire EXCEPT ![c] = @ \o frame]
    /\ UNCHANGED <<stopping, pc, eof, handlerVars>>

Hangup(c) ==
    /\ pc[c] # "none" /\ ~eof[c]
    /\ eof' = [eof EXCEPT ![c] = TRUE]
    /\ UNCHANGED <<stopping, pc, sent, wire, handlerVars>>

\* recv returns n cells, or what there is if that is less.
Recv(c, n) ==
    /\ pc[c] = "recv" /\ wire[c] # <<>>
    /\ Len(buffer[c] \o Take(wire[c], n)) <= MaxBuffer
    /\ wire' = [wire EXCEPT ![c] = SubSeq(@, n + 1, Len(@))]
    /\ buffer' = [buffer EXCEPT ![c] = @ \o Take(wire[c], n)]
    /\ Goto(c, "drain")
    /\ UNCHANGED <<stopping, bank, bankHist, handled, response, replies, alerts, sent, eof>>

\* A buffer beyond the limit ends the connection.
RecvOverflows(c, n) ==
    /\ pc[c] = "recv" /\ wire[c] # <<>>
    /\ Len(buffer[c] \o Take(wire[c], n)) > MaxBuffer
    /\ Close(c)

\* recv returns nothing or times out, or raises because the client has gone.
RecvEnds(c) ==
    /\ pc[c] = "recv" /\ (wire[c] = <<>> \/ eof[c])
    /\ Close(c)

HasHeader(c) == Len(buffer[c]) >= MBAP_HEADER_LEN
Complete(c) == HasHeader(c) /\ Len(buffer[c]) >= TotalFrameLen(Header(buffer[c]))

\* The inner loop: no header yet, or a frame that is not complete.
DrainWait(c) ==
    /\ pc[c] = "drain"
    /\ HasHeader(c) => ValidHeader(Header(buffer[c]))
    /\ ~Complete(c)
    /\ Loop(c)

\* A malformed header ends the connection and drops the buffer.
DrainMalformed(c) ==
    /\ pc[c] = "drain" /\ HasHeader(c) /\ ~ValidHeader(Header(buffer[c]))
    /\ Close(c)

\* A complete frame is cut from the buffer and dispatched.  A write takes the
\* bank's lock for itself; its alert is emitted after that.
DrainFrame(c) ==
    LET h == Header(buffer[c])
        frame == SubSeq(buffer[c], 1, TotalFrameLen(h))
        pdu == Pdu(frame)
    IN  /\ pc[c] = "drain" /\ Complete(c) /\ ValidHeader(h)
        /\ buffer' = [buffer EXCEPT ![c] = SubSeq(@, TotalFrameLen(h) + 1, Len(@))]
        /\ handled' = [handled EXCEPT ![c] = Append(@, frame)]
        /\ response' = [response EXCEPT ![c] = Dispatch(h, pdu)]
        /\ bank' = IF Writes(pdu) THEN [bank EXCEPT ![pdu[2]] = pdu[3]] ELSE bank
        /\ bankHist' = IF bank' = bank THEN bankHist ELSE Append(bankHist, bank')
        /\ Goto(c, AfterDispatch(pdu))
        /\ UNCHANGED <<stopping, replies, alerts, streamVars>>

Alert(c) ==
    /\ pc[c] = "alert"
    /\ alerts' = alerts \cup {<<c, Len(handled[c])>>}
    /\ Goto(c, "send")
    /\ UNCHANGED <<stopping, bank, bankHist, buffer, handled, response, replies, streamVars>>

Answered(c) ==
    /\ pc[c] = "send"
    /\ replies' = [replies EXCEPT ![c] = Append(@, response[c])]
    /\ response' = [response EXCEPT ![c] = <<>>]
    /\ UNCHANGED <<stopping, bank, bankHist, buffer, handled, alerts, streamVars>>

\* Mutant: after an answer the handler goes back to recv and not to its buffer.
SendAndRecv(c) == Answered(c) /\ Goto(c, "recv")

\* _send_all succeeds: the next frame of the buffer.
SendReply(c) == Answered(c) /\ Goto(c, "drain")

\* _send_all raises because the client has gone: the handler's thread ends.
SendFails(c) == pc[c] = "send" /\ eof[c] /\ Close(c)

\* shutdown only sets the flag; the handlers see it when they come to the loop's
\* condition.
Shutdown ==
    /\ ~stopping
    /\ stopping' = TRUE
    /\ UNCHANGED <<pc, handlerVars, streamVars>>

\* The handlers are daemon threads: they end with the process once main returns.
DaemonEnds(c) == stopping /\ pc[c] \notin {"none", "closed"} /\ Close(c)

Handler(c) ==
    \/ \E n \in Chunk[c] : Recv(c, n) \/ RecvOverflows(c, n)
    \/ DrainWait(c) \/ DrainMalformed(c) \/ DrainFrame(c)
    \/ Alert(c) \/ SendReply(c) \/ SendFails(c) \/ DaemonEnds(c)

----------------------------------------------------------------------------
(* Properties *)

ServerTypeOK ==
    /\ bank \in [0..(BankSize - 1) -> Nat]
    /\ bankHist \in Seq([0..(BankSize - 1) -> Nat])
    /\ stopping \in BOOLEAN /\ eof \in [Conn -> BOOLEAN]
    /\ pc \in [Conn -> {"none", "recv", "drain", "alert", "send", "closed"}]
    /\ sent \in [Conn -> Seq(Nat)] /\ wire \in [Conn -> Seq(Nat)]
    /\ buffer \in [Conn -> Seq(Nat)] /\ response \in [Conn -> Seq(Nat)]
    /\ handled \in [Conn -> Seq(Seq(Nat))] /\ replies \in [Conn -> Seq(Seq(Nat))]
    /\ alerts \in SUBSET (Conn \X Nat)
    /\ \A c \in Conn : Len(buffer[c]) <= MaxBuffer

\* However TCP cuts the stream, the handler dispatches the frames the client
\* wrote, in order; it waits with nothing on the wire only after dispatching all
\* of them, and rejects a header only when no well-formed frame, not even one of
\* the largest size, is left (_Handler.handle, parse_mbap).
FramesAsSent ==
    \A c \in Conn :
        /\ IsPrefix(handled[c], Frames(sent[c]))
        /\ \/ pc[c] = "recv" /\ wire[c] = <<>>
           \/ pc[c] = "drain" /\ HasHeader(c) /\ ~ValidHeader(Header(buffer[c]))
           => handled[c] = Frames(sent[c])

\* What is left in the buffer between two recv is less than one frame, so that
\* the limit is only reached by what a single recv brings (MAX_BUFFER).
ResidueBelowOneFrame ==
    \A c \in Conn : pc[c] = "recv" => Len(buffer[c]) < MBAP_HEADER_LEN - 1 + MaxMbapLength

\* A client never sees the acknowledgement of a write to a critical register
\* before its sabotage_detected event (_write_single_register).
AlertBeforeReply ==
    \A c \in Conn : \A i \in 1..Len(replies[c]) :
        Writes(Pdu(handled[c][i])) /\ IsCritical(handled[c][i][MBAP_HEADER_LEN + 2])
        => <<c, i>> \in alerts
=============================================================================
