SPECIFICATION Spec
CONSTANTS
    Torn = Torn
    NotJson = NotJson
    NotText = NotText
    Nothing = Nothing
    Id <- TwoIds
    MaxDay = 1
    MaxOlder = 2
    MaxFaults = 2
 
PROPERTIES Atomic
