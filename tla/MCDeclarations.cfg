SPECIFICATION Spec
CONSTANTS
    u1 = u1
    u2 = u2
    u3 = u3
    Uuids = {u1, u2, u3}
    Declarable <- MCDeclarable
    NameLengths = {0, 8, 26, 27}
    MaxServices = 2
    MaxCharacteristics = 2
    MaxCalls = 3
INVARIANTS
    AdvertisesWhatWasAsked
    LookupsAgree
