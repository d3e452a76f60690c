------------------------------- MODULE MCBootLog ------------------------------
EXTENDS BootLog

\* Busy time that grows and falls, and idle time that grows and falls.
MCSamples == {<<0, 1>>, <<1, 2>>, <<2, 0>>}
=============================================================================
