SPECIFICATION Spec
CONSTANTS
    Sources <- MCSources
    Pool <- MCPool
    MaxPri = 2
    BootPri <- MCBootPri
    Guests <- MCGuests
INVARIANTS AssertionsHold SlotTruthful
PROPERTIES InterruptResumesExactly TakenIsAccepted ProcessingGoesOn
