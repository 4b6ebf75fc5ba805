----------------------------- MODULE MCInstall -----------------------------
EXTENDS Install

None1 == [class |-> "none", in |-> 0, out |-> 0]
Slow == [class |-> "slow", in |-> 0, out |-> 0]
Disk(i, o) == [class |-> "disk", in |-> i, out |-> o]
Cdrom == [class |-> "cdrom", in |-> 1, out |-> 2]
Hub == [class |-> "other", in |-> 0, out |-> 0]
Keyboard == [class |-> "keyboard", in |-> 0, out |-> 0]

\* A stick alone, behind a keyboard and a slow device, before another storage
\* device and a hub, and one stick on each of two controllers.
MCBuses == {
  << <<Disk(1, 2)>> >>,
  << <<Keyboard, None1, Slow, Disk(1, 2)>> >>,
  << <<Disk(1, 2), Cdrom, Hub>> >>,
  << <<Disk(1, 2)>>, <<Disk(1, 2)>> >> }
MCKeyboardLast == {<< <<Disk(1, 2), Keyboard>> >>}

MCLba == 0 .. 4
MCUsed == {3, 4}
MCImage(name) == [l \in MCLba |-> <<name, l>>]
MCValues == {<<<<-1, 1>>, 0>>}
MCZero == <<<<-1, 2>>, 0>>
MCJunk == <<<<-1, 3>>, 0>>
MCFitted == {{}, {0, 1}}
=============================================================================
