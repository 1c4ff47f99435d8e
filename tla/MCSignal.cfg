CONSTANTS
    N = 16
    Signals <- MCSignals
    Magnitudes = {1, 2}
SPECIFICATION Spec
INVARIANTS TypeOK FilterWithinTaps PermutationReversesBits FftIsDft ToneDetectedSilenceNot
CHECK_DEADLOCK FALSE
