----------------------- MODULE MCActionTerminalBroker -----------------------
\* ActionTerminalBroker for an options flow, another client and two actions.
EXTENDS ActionTerminalBroker

CONSTANTS f1, s1, a1, a2

OneFlow == {f1}
OneService == {s1}
TwoActions == {a1, a2}
=============================================================================
