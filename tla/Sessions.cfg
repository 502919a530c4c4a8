SPECIFICATION Spec
CONSTANTS
    A = A
    B = B
    a1 = a1
    a2 = a2
    b1 = b1
    None = None
    Devices = {A, B}
    Tabs = {a1, a2, b1}
    DeviceOf <- TwoTabsAndOne
    Names = {1, 2, 3, 4, 5, 6, 7}
    MaxCalls = 2
    MaxLogins = 2
    MaxUpsets = 1
SYMMETRY TabsOfA
INVARIANT TypeOK
INVARIANT KeepsSession
PROPERTY RefusedForAReason
INVARIANT SessionsStayApart
