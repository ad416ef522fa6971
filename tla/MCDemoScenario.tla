--------------------------- MODULE MCDemoScenario ---------------------------
EXTENDS DemoScenario

CONSTANTS spam, benchq, w1, w2, p1
=============================================================================
