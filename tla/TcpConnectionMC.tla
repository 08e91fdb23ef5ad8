--------------------------- MODULE TcpConnectionMC ---------------------------
(* Requests whose fields are nothing like a frame, one with a frame of       *)
(* length -12 among its bytes, and one with a frame of length 7.             *)
EXTENDS TcpConnection

Plain == <<PB_START, 0, 0, 0, 6, PB_END>>
Backward == <<PB_START, 0, 0, 0, 12, 9, PB_START, 255, 255, 255, 244, PB_END>>
Nested == <<PB_START, 0, 0, 0, 13, PB_START, 0, 0, 0, 7, 9, PB_END, PB_END>>

TestStream == Plain \o Plain \o Backward \o Nested \o Plain
TestFirst == <<1, 7, 13, 25, 38, 44>>

PlainStream == Plain \o Plain
PlainFirst == <<1, 7, 13>>
=============================================================================
