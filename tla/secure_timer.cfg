SPECIFICATION LiveSpec
INVARIANT ArmedWhileWaiting
PROPERTY EventComes
