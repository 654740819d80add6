-------------------------------- MODULE MCUartRx --------------------------------
(* Instances of UartRx.                                                    *)
EXTENDS UartRx

\* Buffers of one byte and a length: as long as fits, a ']' inside, one byte too long.
TinyPayloads == {<<0>>, <<Close>>, <<0, 1>>}
\* Buffers of two bytes and a length: the same, and an empty packet.
McPayloads   == {<<1, 0>>, <<>>, <<0, Close>>, <<0, 1, 1>>}
=============================================================================
