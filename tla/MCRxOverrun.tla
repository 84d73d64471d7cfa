----------------------------- MODULE MCRxOverrun -----------------------------
EXTENDS RxOverrun

StartStop == <<"start", "stop">>
StartStopStart == <<"start", "stop", "start">>

=============================================================================
