SPECIFICATION DataSpec
CONSTANTS
    Lengths = {0, 1, 5}
    MaxCaptures = 2
    PreviewSamples = 3
    BlockFrames = 2
    PhaseBlocks = 2
    ChannelCount = 2
    FftSizes = {2, 4, 8}
    Typed <- SomeTyped
    FirstFftSize = 4
    Plots = {"waveform", "phase", "spectrum"}
    Unit = 2
    Bin = 5
    Tiny = 1
    Hard = 10
    MaxLines = 2
    Data <- SomeData
    Spots <- SomeSpots
    Drags <- SomeDrags
    Settings <- SomeSettings
    FrameCounts = {1, 4, 7}
    Powers <- SomePowers
    Apart = 2
    WindowSamples = 3
    MaxEstimates = 2
    Texts <- SomeTexts
    DefaultName <- SomeDefault
    TextRoom = 9
    Totals = {4, 10}
    FrameBytes = 2
    MaxChunk = 2
    MaxPresses = 3
INVARIANTS SnapshotsAreWhole SpectrumAsSelected ViewShowsData EstimateIsOfTheWindow PeaksAreReal FilesAsAsked
CHECK_DEADLOCK FALSE
