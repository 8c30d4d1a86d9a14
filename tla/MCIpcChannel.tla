---------------------------- MODULE MCIpcChannel ----------------------------
(* Messages for model checking IpcChannel, with bytes of four values. *)
EXTENDS IpcChannel

AsciiText(bytes) == [length |-> Len(bytes), bytes |-> bytes, fits |-> Len(bytes)]

\* Three characters of which the second takes two bytes: the third does not fit.
WideText == [length |-> 3, bytes |-> <<3, 1, 2, 3>>, fits |-> 3]
\* One character of two bytes: nothing of it fits.
WideChar == [length |-> 1, bytes |-> <<2, 3>>, fits |-> 0]

SomeTexts == {AsciiText(<<>>), AsciiText(<<3, 1, 2, 1>>), WideText, WideChar}
SomeBlocks == {<<2>>, <<1, 2, 3>>}
=============================================================================
