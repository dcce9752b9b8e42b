------------------------------ MODULE MCIpcRx -------------------------------
(***************************************************************************)
(* IpcRx with four byte values, no CMD fields and one to nine bytes of     *)
(* CAN data, over streams pieced together from whole frames and from       *)
(* everything that resembles one.                                          *)
(***************************************************************************)
EXTENDS IpcRx

MCEgoBytes == {0, 1}

\* A sum that depends on every byte and its place.
MCCrc(s) ==
  LET sum[i \in 0..Len(s)] == IF i = 0 THEN 0 ELSE sum[i - 1] + i * s[i]
  IN  sum[Len(s)] % 16

Checked(s) == s \o <<MCCrc(s) \div 4, MCCrc(s) % 4>>
Frame(data) == Checked(<<3, 1, 2, Len(data) \div 4, Len(data) % 4>> \o data)

Ego == Frame(<<1>>)
Other == Frame(<<2, 3>>)
Nesting == Frame(Ego)

Pieces ==
  { Ego, Other, Nesting,
    SubSeq(Ego, 1, 4),                      \* cut off in its header
    SubSeq(Other, 1, 7),                    \* cut off in its data
    <<3, 1, 2, 0, 1, 0, 0, 0>>,             \* bad CRC
    <<3, 1, 2, 2, 0>>,                      \* a header over what follows
    <<3, 1, 2, 3, 0>>, <<3, 1, 2, 0, 0>>,   \* too long, too short
    <<3>>, <<3, 1>>, <<2>> }                \* noise

MCStreams == {a \o b \o Ego : a, b \in Pieces}
=============================================================================
