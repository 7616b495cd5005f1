SPECIFICATION Spec
CONSTANTS Hold = 1 Settle = 2 UpSettle = 2 Debounce = 3 Timeout = 4 Grace = 4 Attempts = 2
PROPERTY SecondF15Sent
