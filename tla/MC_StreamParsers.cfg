SPECIFICATION ParserSpec
CONSTANTS
    Kinds = {"ctrl", "audio", "ota"}
    Top = 5
    MaxPayload = 2
    MaxSections = 2
    MaxSectionBytes = 3
    Crc <- MCCrc
    Payloads <- MCPayloads
    Garbage <- MCGarbage
    MaxParts = 3
INVARIANTS
    ReadsDontMatter
    MissedOnlyToAnother
CHECK_DEADLOCK FALSE
