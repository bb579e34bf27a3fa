SPECIFICATION Spec
PROPERTY UnchangedPasses
CHECK_DEADLOCK FALSE
CONSTANTS
    NULL = NULL
    RandomParams <- OneRandom
    OtherFrames <- EmptyFrame
    MaxRounds <- Rounds
    BenchSizes = {2, 4, 6}
    BENCH_SIZE = 8
    BenchNumbers = {0, 2}
    FileLengths = {0, 1, 2}
    OutputSizes <- AnyOutput
    TestSizes = {0, 3, 6, 8}
    TEST_SIZE = 9
    TEST_DATAGRAM = 2
    UartSizes = {0, 3}
    UART_SIZE = 8
    UART_DATAGRAM = 9
    StringSizes = {1, 2}
    BufferSizes = {0, 1, 3}
    image_byte_size = 2
    ImageLengths = {0, 1, 2, 3}
    FirstPort = 432
    LastPort = 435
    SkippedPort = 433
