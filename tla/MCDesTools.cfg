SPECIFICATION Spec
CONSTANTS
    Half = 2
    Bits = 1
    Encrypt <- MCEncrypt
    Decrypt <- MCDecrypt
    Words <- MCWords
    Options <- MCOptions
    Demos <- MCDemos
    MaxArgs = 4
    Garbage <- MCGarbage
INVARIANTS
    WordsMeanWhatIsDocumented
    ColumnsAgree
    DemoDoesAsAsked
CHECK_DEADLOCK FALSE
