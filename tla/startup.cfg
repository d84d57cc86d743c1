SPECIFICATION Spec
CONSTANTS
    Pods = {p1, p2}
    Seconds <- Seconds1
    Second = 10
    Half = 128
    MaxTroubles = 2
INVARIANT OneExporter
INVARIANT RunsAsConfigured
PROPERTY EventuallyLed
CHECK_DEADLOCK FALSE
