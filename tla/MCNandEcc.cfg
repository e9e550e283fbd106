\* Reads and programs of every shape with up to four cells wrong.
CONSTANTS
    SizeStep = 16
    Strength = 2
    Codec    <- MCCodec
    NPages   = 2
    NSteps   = 2
    SizeOob  = 8
    MaxWrong = 4
    Calls    <- MCCalls
    Images   <- MCImages
    Places   <- MCPlaces
SPECIFICATION Spec
INVARIANTS TypeOK ReturnsWhatWasMeant CountsTheErrors InPlaceWithoutEccErrors
