----------------------------- MODULE MCBareMetal -----------------------------
EXTENDS BareMetal

\* the pool shares its first leaf table with the kernel's; starts a leaf table; the kernel's own
\* tables reach into a new leaf table
MCStackEnds == {1027, 1036, 1038}
MCTouched == {0, 16, 17, 33, 300, 1700, 2031, 2046, 2047, 4095}
MCBreaks == {35, 68, 602, 4092}
MCStackPointers == {3400, 4062, 4093}
==============================================================================
