\* 516 inputs: all one-byte messages, the 256 addresses 01:00:5E:00:00:xx,
\* the check string and three more addresses. The state never changes.
SPECIFICATION Spec
INVARIANT CrcMatchesReference
