SPECIFICATION Spec
CONSTANTS
    r1 = r1
    r2 = r2
    r3 = r3
    alice = alice
    bob = bob
    aliceAddr = aliceAddr
    alicePort = alicePort
    bobAddr = bobAddr
    Requests = {r1, r2, r3}
    Accounts = {alice, bob}
    Addresses = {aliceAddr, alicePort, bobAddr}
    AccountOf <- Addressee
    Modes <- AllModes
    None = None
SYMMETRY Symmetry
INVARIANTS FollowedOnce EndedIsGone UndoneIsGone LastWordCounts ServersAgree
CHECK_DEADLOCK FALSE
