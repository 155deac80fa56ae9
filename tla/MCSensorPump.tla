---------------------------- MODULE MCSensorPump ----------------------------
EXTENDS SensorPump

=============================================================================
