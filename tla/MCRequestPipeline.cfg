SPECIFICATION Spec
CONSTANTS
    None = None
    Word = 16
    SizeWord = 32
    MAX_HEADERS = 3
    MAX_CONTENT_LENGTH = 10
    MAX_ROUTABLE_PATH = 8
    Routes <- MCRoutes
    Streams <- MCStreams
    FileSizes <- MCFileSizes
    MaxRequestSize = 11
INVARIANTS TypeOK FramedAsSent ClientInSync  RangeServed RoutedAsMeant
CHECK_DEADLOCK FALSE
