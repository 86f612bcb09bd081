CONSTANTS
    usb = usb
    headset = headset
    webcam = webcam
    NoInput = NoInput
    Enumeration <- MCThree
    Preference <- MCThreeByPreference
    Broken = {headset, usb}
    Commands = {c1, c2}
SPECIFICATION FairSpec
INVARIANTS
    RecoveryInv
    NeverShownLiveMuted
    CleanStopIsFinal
PROPERTIES
    NeverWedged
    RecoversUnlessStarved
