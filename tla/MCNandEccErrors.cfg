\* As MCNandEcc, to show what an error in an ECC byte makes bch_decode do.
CONSTANTS
    SizeStep = 16
    Strength = 2
    Codec    <- MCCodec
    NPages   = 2
    NSteps   = 2
    SizeOob  = 8
    MaxWrong = 1
    Calls    <- MCCalls
    Images   <- MCImages
    Places   <- MCPlaces
SPECIFICATION Spec
INVARIANT CorrectsInPlace
