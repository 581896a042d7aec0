----------------------------- MODULE MCFakePlc -----------------------------
(* Constants for model checking FakePlc with ModbusServer. *)
EXTENDS FakePlc

MCConn == Poll \cup Client

\* A client's stream is cut in every way these two sizes allow; the request of a
\* poll arrives in one piece.
MCChunk == [c \in MCConn |-> IF c \in Client THEN {5, 12} ELSE {12}]

Write(t, address, value) == <<t, 0, 4, 1, 6, address, value>>

\* A write to a plain register, an unsupported function and a write to a critical
\* register, 19 cells, more than the buffer holds; and two writes, one of them
\* behind the end of the bank, before a header with a bad length.
MCClientStream == {
    Write(1, 0, 1) \o <<2, 0, 2, 1, 7>> \o Write(3, 1, 2),
    Write(1, 1, 1) \o Write(2, 2, 1) \o <<3, 0, 1, 1>>}
=============================================================================
