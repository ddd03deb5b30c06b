\* Three ttys for two interfaces, two plugs of the modem and one pppd thread.
SPECIFICATION FairSpec
CONSTANTS
    Names = {"tty0", "tty1", "tty2"}
    Returned = {"name", "garbled"}
    MaxFds = 5
    MaxPlugs = 2
    MaxStarts = 1
INVARIANT
    FoundRight
PROPERTY
    Opens
\* Everything may have stopped with a name that is not there.
CHECK_DEADLOCK FALSE
