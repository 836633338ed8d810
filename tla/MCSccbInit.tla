------------------------------ MODULE MCSccbInit ------------------------------
\* A table with two delays, one of them between two writes; bytes of three bits.
EXTENDS SccbInit

Byte(a, b, c) == <<a = 1, b = 1, c = 1>>
Write(reg, data) == [delay |-> 0, reg |-> reg, data |-> data]
Delay(clocks) == [delay |-> clocks]
MCDevice == Byte(0, 0, 1)
MCTable ==
    <<Write(Byte(1, 1, 1), Byte(0, 0, 1)), Delay(24), Write(Byte(0, 1, 0), Byte(1, 0, 1)),
      Delay(16), Write(Byte(0, 0, 0), Byte(1, 1, 0))>>
==============================================================================
