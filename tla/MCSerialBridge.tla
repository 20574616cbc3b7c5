--------------------------- MODULE MCSerialBridge ---------------------------
(* Instances of the serial device and its bridge for TLC. *)
EXTENDS SerialBridge

Firmware(id, form, value) ==
    [id |-> id, form |-> form, suffix |-> CommandLen, value |-> value, tail |-> None]

\* The longest token that is received, one character more, a no-op, and the longest
\* command of another property.
Boundary ==
    {Firmware("longest", "flash", 161), Firmware("overlong", "flash", 162),
     Firmware("own", "noop", 40),
     [id |-> "other", form |-> "other", suffix |-> 140, value |-> 46, tail |-> None]}

\* The longest token that is remembered and the shortest that is not.
Tokens == {Firmware("remembered", "flash", 63), Firmware("cut", "flash", 64)}
=============================================================================
