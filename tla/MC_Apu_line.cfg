SPECIFICATION ChannelSpec
CONSTANTS
    Step1 = 1
    Step2 = 3
    Step3 = 4
    Step4 = 6
    Step5 = 8
    LengthTable = {2}
    Reloads = {0}
PROPERTY LineHeld
