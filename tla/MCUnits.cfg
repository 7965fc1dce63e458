SPECIFICATION Spec
CONSTANTS
    DigitBits = 2
    BigSize = 3
    BigN = 59
    BigSizeComplement = 2
    BigSamples = {0, 1, 2, 3, 4, 5, 6, 7, 8, 9, 10, 11, 12, 13, 14, 15,
                  16, 17, 18, 19, 20, 21, 22, 23, 24, 25, 26, 27, 28, 29, 30, 31,
                  32, 33, 34, 35, 36, 37, 38, 39, 40, 41, 42, 43, 44, 45, 46, 47,
                  48, 49, 50, 51, 52, 53, 54, 55, 56, 57, 58, 59, 60, 61, 62, 63}
    CurveBits = 7
    CurveP = 79
    CurveN = 67
    CurveGx = 1
    CurveGy = 18
    Keys = {1, 34, 66}
    Hashes = {0, 1, 66, 67, 90, 127}
    DerSize = 3
    DerBits = 2
    ConvBits = 4
    AmountSize = 2
    AmountBase = 5
    AmountDigits = 4
    Decimals = 2
    AddressSize = 2
    AddressBase = 11
    AddressDigits = 3
    DEBOUNCE_COUNT = 3
    MaxOutputs = 2
    MaxPool = 3
    Needed = 2
    Reports = {0, 1, 2}
    NumPools = 2
    MessageLengths = {0, 1, 3, 4, 54, 55, 56, 57, 63, 64, 65, 110, 111, 112, 113,
                      118, 119, 120, 127, 128, 129, 130}
    Iterations = 3
    MaxCalls = 3
    BlockCounts = {1, 3}
    BlockSize = 2
    NumBlocks = 3
    AddressTop = 16
    EncKeys = {0, 1}
    MaxLength = 4
    MaxAccesses = 2
    NO_64BIT = TRUE
    SAMPLE_SCALE_DOWN = 2
    StatFraction = 4
    StatBins = 8
    BITS_PER_HISTOGRAM_BIN = 2
    HistogramWord = 5
    SampleCount = 4
    FftFraction = 8
    FFT_SIZE = 16
    FftBins = 16
    PSDScale = 1
    NumBatches = 2
    Tolerance = 20
    HwSamples = 8
    BufferSize = 4
    PerCall = 2
    MaxConversions = 17
    Group = 7
    UintBits = 16
    UlongBits = 24
    Align = 4
    UnknownTags = {11, 20}
    CHARACTERS_PER_LINE = 16
    NUMBER_OF_LINES = 4
    CHARACTER_WIDTH = 2
    CHARACTER_HEIGHT = 3
    ByteBits = 2
    SeedLength = 64
    Amounts = {3, 17}
    Addresses = {27, 34}
    MaxListed = 2
    NUM_COLUMNS = 3
    LineSize = 5
    SCROLL_SPEED = 3
    SCROLL_PAUSE = 7
    TicksPerString = 2
    LcdDebounce = 2
    CounterRange = 3
    AmountLength = 2
    AddressLength = 5
    MAX_OUTPUTS = 1
    LcdSeedLength = 5
    BytesPerLine = 2
INVARIANTS
    ResultsAreRight
    SignatureVerifies
    KeysAreDerived
    ReadsBack
    AcceptedMeansAll
    NoOutputTwice
    PrimitivesAreStandard
    SamplesTested
    ShownWhenAsked
