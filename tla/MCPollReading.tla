------------------------------ MODULE MCPollReading ------------------------------
EXTENDS PollReading

MCBrand == <<"printer_canon", "printer_std">>
MCLimits == {1, 3}
=============================================================================
