SPECIFICATION Spec
CONSTANT Leaders = {"left", "right"}
INVARIANTS  ProcessesInOrder
PROPERTY ServersSettle
