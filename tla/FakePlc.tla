------------------------------ MODULE FakePlc ------------------------------
(***************************************************************************)
(* iot_nodes/fake_plc.py as a client of the Modbus honeypot, with another  *)
(* client on the same register bank.  Each poll opens a connection of its  *)
(* own, writes one read request and takes the first answer; the result is  *)
(* published in a state file that the controller serves as /ics-values.    *)
(***************************************************************************)
EXTENDS ModbusServer

CONSTANTS
    Poll,        \* the connections of the polls, one for each
    Client,      \* the connections of other clients
    ClientStream, \* what one of them may write, frame after frame
    Address,     \* --address and --quantity of the PLC
    Quantity,
    MaxCrashes   \* bound on the number of times the PLC is killed

ASSUME PlcAssumption ==
    /\ Conn = Poll \cup Client /\ Poll \cap Client = {} /\ Poll # {}
    /\ ClientStream \subseteq Seq(Nat)
    /\ Address \in Nat /\ Quantity \in 1..MaxQuantity

VARIABLES
    plc,      \* where main's loop is
    at,       \* the connection of the poll
    tid,      \* transaction_id
    since,    \* the bank's version when the poll began, or 0 (history)
    doc,      \* the state that is being published
    tmp,      \* the temporary file of the call that publishes it, or "absent"
    file,     \* plc_state_path: a document, or "absent"
    crashes

plcVars == <<plc, at, tid, since, doc, tmp, file, crashes>>
vars == <<serverVars, plcVars>>

----------------------------------------------------------------------------
\* What poll_once found, no document, and one that is half written.
Reading(regs) == [ok |-> TRUE, registers |-> regs]
Failure == [ok |-> FALSE, registers |-> <<>>]
Absent == [ok |-> FALSE, registers |-> <<0>>]
Part == [ok |-> FALSE, registers |-> <<1>>]

Init ==
    /\ ServerInit
    /\ plc = "idle" /\ at = CHOOSE p \in Poll : TRUE
    /\ tid = 0 /\ since = 0
    /\ doc = Absent /\ tmp = Absent /\ file = Absent
    /\ crashes = 0

Unused == {p \in Poll : pc[p] = "none" /\ ~eof[p]}

\* transaction_id = (transaction_id + 1) % 0xFFFF or 1
TID_MODULUS == 65535
NextTid(t) == IF (t + 1) % TID_MODULUS = 0 THEN 1 ELSE (t + 1) % TID_MODULUS

\* One turn of the loop begins: create_connection either succeeds or raises.
PollConnects ==
    /\ plc = "idle" /\ Unused # {}
    /\ tid' = NextTid(tid)
    /\ since' = Len(bankHist)
    /\ at' = CHOOSE p \in Unused : TRUE
    /\ plc' = "connected"
    /\ Connect(at')
    /\ UNCHANGED <<doc, tmp, file, crashes>>

PollRefused ==
    /\ plc = "idle" /\ Unused # {}
    /\ tid' = NextTid(tid)
    /\ at' = CHOOSE p \in Unused : TRUE
    /\ doc' = Failure
    /\ plc' = "publish"
    /\ eof' = [eof EXCEPT ![at'] = TRUE]
    /\ UNCHANGED <<stopping, pc, handlerVars, sent, wire, since, tmp, file, crashes>>

\* build_read_holding_registers_request, sendall
PollSends ==
    /\ plc = "connected"
    /\ Send(at, BuildResponse(tid, 1, <<FC_READ_HOLDING_REGISTERS, Address, Quantity>>))
    /\ plc' = "sent"
    /\ UNCHANGED <<at, tid, since, doc, tmp, file, crashes>>

\* poll_once reads an answer.  It checks the protocol, the function code and the
\* size, not the transaction identifier.
Decode(reply) ==
    LET pdu == Pdu(reply)
    IN  IF /\ Header(reply).protocol = MODBUS_PROTOCOL_ID /\ Header(reply).length >= 2
           /\ pdu[1] = FC_READ_HOLDING_REGISTERS /\ Len(pdu) >= 2 /\ Len(pdu) >= 2 + pdu[2]
        THEN Reading(SubSeq(pdu, 3, 2 + pdu[2]))
        ELSE Failure

\* The answer arrives; the with-block closes the socket.
PollReceives ==
    /\ plc = "sent" /\ replies[at] # <<>>
    /\ doc' = Decode(Head(replies[at]))
    /\ plc' = "publish" /\ since' = 0
    /\ eof' = [eof EXCEPT ![at] = TRUE]
    /\ UNCHANGED <<stopping, pc, handlerVars, sent, wire, at, tid, tmp, file, crashes>>

\* Mutant: after a timeout the request is sent again on the same connection.
PollRetries ==
    /\ plc \in {"connected", "sent"}
    /\ tid' = NextTid(tid)
    /\ since' = Len(bankHist)
    /\ plc' = "connected"
    /\ UNCHANGED <<serverVars, at, doc, tmp, file, crashes>>

\* A timeout, a reset or the end of the stream before the answer.
PollFails ==
    /\ plc \in {"connected", "sent"}
    /\ doc' = Failure
    /\ plc' = "publish" /\ since' = 0
    /\ eof' = [eof EXCEPT ![at] = TRUE]
    /\ UNCHANGED <<stopping, pc, handlerVars, sent, wire, at, tid, tmp, file, crashes>>

\* write_state_atomically.  Every call gives its temporary file a new name, so a file
\* that a dead call left behind is never opened again and leaves the state with it.
CreateTemp ==
    /\ plc = "publish" /\ plc' = "write"
    /\ tmp' = Part
    /\ UNCHANGED <<serverVars, at, tid, since, doc, file, crashes>>

\* json.dump, flush and fsync end; until then the temporary file holds a part.
FillTemp ==
    /\ plc = "write" /\ plc' = "replace"
    /\ tmp' = doc
    /\ UNCHANGED <<serverVars, at, tid, since, doc, file, crashes>>

\* os.replace: the state file is from now on what the temporary file holds.
Rename ==
    /\ file' = tmp /\ tmp' = Absent
    /\ plc' = "idle" /\ doc' = Absent
    /\ UNCHANGED <<serverVars, at, tid, since, crashes>>

\* Mutant: os.replace inside the with-block, where the buffer may not be flushed.
ReplaceUnflushed == plc \in {"write", "replace"} /\ Rename

Replace == plc = "replace" /\ Rename

\* An OSError: the temporary file is removed, or, when that fails too, abandoned;
\* main reports the error and goes on.
WriteFails ==
    /\ plc \in {"publish", "write", "replace"} /\ plc' = "idle"
    /\ doc' = Absent
    /\ tmp' = Absent
    /\ UNCHANGED <<serverVars, at, tid, since, file, crashes>>

\* The process is killed and, later, started again.
Killed ==
    /\ plc # "dead" /\ crashes < MaxCrashes
    /\ crashes' = crashes + 1
    /\ plc' = "dead" /\ doc' = Absent /\ tmp' = Absent /\ since' = 0
    /\ eof' = [eof EXCEPT ![at] = eof[at] \/ pc[at] # "none"]
    /\ UNCHANGED <<stopping, pc, handlerVars, sent, wire, at, tid, file>>

Restarted ==
    /\ plc = "dead"
    /\ plc' = "idle" /\ tid' = 0
    /\ UNCHANGED <<serverVars, at, since, doc, tmp, file, crashes>>

ClientStep(c) ==
    \/ Connect(c)
    \/ sent[c] # <<>> /\ Hangup(c)
    \/ \E s \in ClientStream : sent[c] = <<>> /\ Send(c, s)

PlcStep ==
    \/ PollConnects \/ PollRefused
    \/ PollSends \/ PollReceives \/ PollFails
    \/ CreateTemp \/ FillTemp \/ Replace \/ WriteFails \/ Restarted

Next ==
    \/ \E c \in Client : ClientStep(c) /\ UNCHANGED plcVars
    \/ \E c \in Conn : (Handler(c) \/ RecvEnds(c)) /\ UNCHANGED plcVars
    \/ Shutdown /\ UNCHANGED plcVars
    \/ PlcStep
    \/ Killed

Spec == Init /\ [][Next]_vars

----------------------------------------------------------------------------
(* Properties *)

\* Types, and the bound on what a connection may make the server keep.
TypeOK ==
    /\ ServerTypeOK
    /\ plc \in {"idle", "connected", "sent", "publish", "write", "replace", "dead"}
    /\ at \in Poll /\ tid \in 0..(TID_MODULUS - 1) /\ since \in Nat /\ crashes \in Nat
    /\ {doc, tmp, file} \subseteq [ok : BOOLEAN, registers : Seq(Nat)]

\* A reading that is published is what the registers held, all at once, at some moment
\* of the very poll that published it: not a late answer to an earlier poll,
\* although poll_once does not compare transaction identifiers, and not a mixture
\* of two writes (poll_once, RegisterBank.read).
ReadingIsReal ==
    [][doc'.ok /\ ~doc.ok =>
           \E v \in since..Len(bankHist) :
               doc'.registers = BankRead(bankHist[v], Address, Quantity)]_vars

\* /ics-values never finds a half-written document under the name of the state file,
\* wherever the PLC is killed or its write fails (write_state_atomically).
StateFileWhole == file # Part
=============================================================================
