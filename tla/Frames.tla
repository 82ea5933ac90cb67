-------------------------------- MODULE Frames --------------------------------
(***************************************************************************)
(* The actuators (server/src/actionneurs.c): which function an action      *)
(* calls, and the frame that a function sends.  A frame is a sequence of   *)
(* characters, each one digit; a byte is two of them.                      *)
(***************************************************************************)
EXTENDS Integers, Sequences, Folds

Digits == <<"0", "1", "2", "3", "4", "5", "6", "7",
            "8", "9", "A", "B", "C", "D", "E", "F">>

\* The digits of n > 0, the last one first, are written to reverseBuffer and
\* copied as they are.
itochar(n, radix) ==
    LET rest[m \in 0..n] ==
            IF m = 0 THEN <<>> ELSE <<Digits[(m % radix) + 1]>> \o rest[m \div radix]
    IN  rest[n]

oneCharHexToInt(hex) == (CHOOSE d \in DOMAIN Digits : Digits[d] = hex) - 1

\* The loop goes from the right digit to the left one.
hexToInt(hex) == oneCharHexToInt(hex[2]) + 16 * oneCharHexToInt(hex[1])

\* The sum of the bytes of a field.
SumOfBytes(field) ==
    LET byte(i) == hexToInt(SubSeq(field, 2 * i - 1, 2 * i))
    IN  MapThenFoldSet(+, 0, byte, LAMBDA S : CHOOSE i \in S : TRUE, 1..(Len(field) \div 2))

\* Mutant: the digits stay in the order in which itochar leaves them.
Backwards(reversed) == <<reversed[1], reversed[2]>>
LowByte(reversed) == <<reversed[2], reversed[1]>>

Sync == <<"A", "5", "5", "A">>
Header == <<"6", "B">>
Org == <<"0", "5">>
Status == <<"1", "0">>

calculateCheckSum(data, id) ==
    LowByte(itochar(SumOfBytes(data) + SumOfBytes(id) + SumOfBytes(Header)
                    + SumOfBytes(Org) + SumOfBytes(Status), 16))

createMessage(data, id) ==
    Sync \o Header \o Org \o data \o id \o Status \o calculateCheckSum(data, id)
Zeros == <<"0", "0", "0", "0", "0", "0">>
createMessageOpen(id) == createMessage(<<"5", "0">> \o Zeros, id)
createMessageClose(id) == createMessage(<<"7", "0">> \o Zeros, id)

-----------------------------------------------------------------------------
\* setActionneurFct: the names each type of actuator knows.  With any other
\* name the function stays unset.
Keys == {"next", "previous", "f1", "f2", "f3", "f4", "f5", "enter", "up", "down",
         "escape", "q", "d"}
Names == [COURRANT |-> {"open", "close"}, VOLETS |-> {"open", "close"},
          CAFFE |-> {"open", "close"}, CHAUFFAGE |-> {"open", "close"},
          VIRTUALKEYBOARD |-> Keys, MYSTERE |-> {"action", "fin", "jeu", "finJeu"}]
Known(fct) == fct.type \in DOMAIN Names /\ fct.name \in Names[fct.type]

\* openCOURRANT and closeCOURRANT send a frame; the others act on this machine.
Sends(fct) == Known(fct) /\ fct.type = "COURRANT"
FrameOf(fct) ==
    IF fct.name = "open" THEN createMessageOpen(fct.id) ELSE createMessageClose(fct.id)

\* The sum of all bytes but SYNC and the checksum, cut to a byte, is what the
\* frame ends with (actionneurs.c:11), and a frame has the 28 bytes that
\* openCOURRANT and closeCOURRANT send.
FrameRight(frame) ==
    /\ Len(frame) = 28
    /\ hexToInt(SubSeq(frame, 27, 28)) = SumOfBytes(SubSeq(frame, 5, 26)) % 256
==============================================================================
