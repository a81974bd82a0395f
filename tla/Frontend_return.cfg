SPECIFICATION Spec
CONSTANTS
    Words = 3
    Boot = 1
    Flows = {"Return"}
    None = None
    QueueDepth = 2
PROPERTY ReturnsFollowed
